---------------------------- MODULE ObserverProofs ----------------------------
(***************************************************************************)
(* The nodes that watch the ROS system for a client: the statistics of     *)
(* topics, for any modes, topics, commands and messages; the cache of the  *)
(* graph with its watcher thread, for any number of changes; the parameter *)
(* nodes, for any tasks and whatever the other node does; and the queries  *)
(* of the graph, for any nodes, endpoints and queries.                     *)
(***************************************************************************)
EXTENDS TopicStats, GraphCache, ParamNodes, QueryNodes, SequenceTheorems, TLAPS

(***************************************************************************)
(* The latest messages of a sequence.                                      *)
(***************************************************************************)
\* How many there are, and which.
LEMMA LatestIs ==
  ASSUME NEW S, NEW q \in Seq(S), NEW n \in Nat \ {0}
  PROVE  /\ Latest(q, n) \in Seq(S)
         /\ Len(Latest(q, n)) = IF Len(q) > n THEN n ELSE Len(q)
         /\ \A i \in 1 .. Len(Latest(q, n)) : Latest(q, n)[i] = q[Len(q) - Len(Latest(q, n)) + i]
<1> DEFINE first == IF Len(q) > n THEN Len(q) - n + 1 ELSE 1
<1>1. Len(q) \in Nat /\ first \in 1 .. Len(q) + 1 /\ Latest(q, n) = SubSeq(q, first, Len(q))
  BY LenProperties DEF Latest
<1>2. \A i \in first .. Len(q) : q[i] \in S
  BY <1>1, ElementOfSeq
<1>first. first = IF Len(q) > n THEN Len(q) - n + 1 ELSE 1
  OBVIOUS
<1> HIDE DEF first
<1>3. /\ SubSeq(q, first, Len(q)) \in Seq(S)
      /\ Len(SubSeq(q, first, Len(q))) = IF first <= Len(q) THEN Len(q) - first + 1 ELSE 0
      /\ \A i \in 1 .. Len(q) - first + 1 : SubSeq(q, first, Len(q))[i] = q[first + i - 1]
  BY <1>1, <1>2, SubSeqProperties
<1>4. Len(Latest(q, n)) = Len(q) - first + 1
  BY <1>1, <1>3
<1>5. Len(Latest(q, n)) = IF Len(q) > n THEN n ELSE Len(q)
  BY <1>1, <1>4, <1>first
<1>6. ASSUME NEW i \in 1 .. Len(Latest(q, n))
      PROVE  Latest(q, n)[i] = q[Len(q) - Len(Latest(q, n)) + i]
  <2>1. i \in 1 .. Len(q) - first + 1 /\ first + i - 1 = Len(q) - Len(Latest(q, n)) + i
    BY <1>1, <1>4
  <2> QED
    BY <1>1, <1>3, <2>1
<1> QED
  BY <1>1, <1>3, <1>5, <1>6

LEMMA LatestOfNone ==
  ASSUME NEW n \in Nat \ {0}
  PROVE  Latest(<<>>, n) = <<>>
<1> DEFINE e == <<>>
<1>1. e \in Seq(Nat) /\ Len(e) = 0
  OBVIOUS
<1> HIDE DEF e
<1>2. Latest(e, n) \in Seq(Nat) /\ Len(Latest(e, n)) = IF Len(e) > n THEN n ELSE Len(e)
  BY <1>1, LatestIs
<1>3. Len(Latest(e, n)) = 0
  BY <1>1, <1>2
<1>4. Latest(e, n) = <<>>
  BY <1>2, <1>3, EmptySeq
<1> QED
  BY <1>4 DEF e

\* A window that is trimmed as messages come holds the latest of all.
LEMMA LatestAppend ==
  ASSUME NEW S, NEW q \in Seq(S), NEW n \in Nat \ {0}, NEW x \in S
  PROVE  Latest(Append(Latest(q, n), x), n) = Latest(Append(q, x), n)
<1> DEFINE w == Latest(q, n)
           a == Append(w, x)
           b == Append(q, x)
<1>1. /\ w \in Seq(S) /\ Len(w) = IF Len(q) > n THEN n ELSE Len(q)
      /\ \A i \in 1 .. Len(w) : w[i] = q[Len(q) - Len(w) + i]
  BY LatestIs
<1> HIDE DEF w
<1>2. /\ a \in Seq(S) /\ Len(a) = Len(w) + 1 /\ a[Len(w) + 1] = x /\ \A i \in 1 .. Len(w) : a[i] = w[i]
      /\ b \in Seq(S) /\ Len(b) = Len(q) + 1 /\ b[Len(q) + 1] = x /\ \A i \in 1 .. Len(q) : b[i] = q[i]
  BY <1>1, AppendProperties
<1> HIDE DEF a, b
<1>3. /\ Latest(a, n) \in Seq(S) /\ Len(Latest(a, n)) = IF Len(a) > n THEN n ELSE Len(a)
      /\ \A i \in 1 .. Len(Latest(a, n)) : Latest(a, n)[i] = a[Len(a) - Len(Latest(a, n)) + i]
  BY <1>2, LatestIs
<1>4. /\ Latest(b, n) \in Seq(S) /\ Len(Latest(b, n)) = IF Len(b) > n THEN n ELSE Len(b)
      /\ \A i \in 1 .. Len(Latest(b, n)) : Latest(b, n)[i] = b[Len(b) - Len(Latest(b, n)) + i]
  BY <1>2, LatestIs
<1> DEFINE l == Len(Latest(a, n))
<1>5. Len(q) \in Nat /\ Len(w) \in Nat
  BY <1>1, LenProperties
<1>6. Len(Latest(b, n)) = l /\ l \in Nat /\ l <= Len(w) + 1 /\ l <= Len(q) + 1
  BY <1>1, <1>2, <1>3, <1>4, <1>5
<1>7. ASSUME NEW i \in 1 .. l
      PROVE  Latest(a, n)[i] = Latest(b, n)[i]
  <2> DEFINE j == Len(a) - l + i
             k == Len(b) - l + i
  <2>1. Latest(a, n)[i] = a[j] /\ Latest(b, n)[i] = b[k]
    BY <1>3, <1>4, <1>6
  <2>2. j \in 1 .. Len(w) + 1 /\ k \in 1 .. Len(q) + 1 /\ k = Len(q) - Len(w) + j
    BY <1>2, <1>5, <1>6
  <2>3. CASE j = Len(w) + 1
    BY <1>2, <1>5, <2>1, <2>2, <2>3
  <2>4. CASE j \in 1 .. Len(w)
    <3>1. a[j] = w[j] /\ w[j] = q[Len(q) - Len(w) + j]
      BY <1>1, <1>2, <2>4
    <3>2. k \in 1 .. Len(q)
      BY <1>5, <2>2, <2>4
    <3> QED
      BY <1>2, <2>1, <2>2, <3>1, <3>2
  <2> QED
    BY <1>5, <2>2, <2>3, <2>4
<1> QED
  BY <1>3, <1>4, <1>6, <1>7, SeqEqual DEF a, b, w

(***************************************************************************)
(* Statistics.  A request waits in a queue, has a session, or has ended,   *)
(* and only one of these.                                                  *)
(***************************************************************************)
HasSession(k) == sessions_[k] # NoSession

NumbersUsed ==
  /\ \A m \in Range(Modes) : \A i \in DOMAIN stats_queue[m] : stats_queue[m][i].request \in 1 .. requests
  /\ \A k \in Keys : HasSession(k) => sessions_[k].request \in 1 .. requests
  /\ ended \subseteq 1 .. requests

WaitingOnce ==
  \A m, n \in Range(Modes) : \A i \in DOMAIN stats_queue[m], j \in DOMAIN stats_queue[n] :
    stats_queue[m][i].request = stats_queue[n][j].request => m = n /\ i = j

WaitingIsNew ==
  \A m \in Range(Modes) : \A i \in DOMAIN stats_queue[m] :
    /\ stats_queue[m][i].request \notin ended
    /\ \A k \in Keys : HasSession(k) => sessions_[k].request # stats_queue[m][i].request

SessionsApart ==
  \A k \in Keys : HasSession(k) =>
    /\ sessions_[k].request \notin ended
    /\ \A j \in Keys : HasSession(j) /\ sessions_[j].request = sessions_[k].request => j = k

\* What a session keeps is the latest that was received.
WindowsHold ==
  \A k \in Keys : HasSession(k) =>
    /\ sessions_[k].samples = Latest(received[k], sessions_[k].window)
    /\ Len(sessions_[k].timestamps) = Len(sessions_[k].samples)

QueuesInv   == NumbersUsed /\ WaitingOnce /\ WaitingIsNew
SessionsInv == SessionsApart /\ WindowsHold
StatsInv    == StatsTell /\ QueuesInv /\ SessionsInv

LEMMA SessionFields ==
  ASSUME StatsTypeOK, NEW k \in Keys, HasSession(k)
  PROVE  sessions_[k] \in StatsSession
BY DEF StatsTypeOK, HasSession

LEMMA ReplacedFields ==
  ASSUME NEW s \in StatsSession, NEW times, NEW sizes
  PROVE  [s EXCEPT !.timestamps = times, !.samples = sizes]
           = [request |-> s.request, type |-> s.type, window |-> s.window, wall_time |-> s.wall_time,
              timestamps |-> times, samples |-> sizes]
<1> DEFINE r == [s EXCEPT !.timestamps = times, !.samples = sizes]
<1>1. /\ r.request = s.request /\ r.type = s.type /\ r.window = s.window /\ r.wall_time = s.wall_time
      /\ r.timestamps = times /\ r.samples = sizes
  BY DEF StatsSession
<1>2. r = [f \in {"request", "type", "window", "wall_time", "timestamps", "samples"} |-> r[f]]
  BY DEF StatsSession
<1> HIDE DEF r
<1>3. r = [request |-> r.request, type |-> r.type, window |-> r.window, wall_time |-> r.wall_time,
           timestamps |-> r.timestamps, samples |-> r.samples]
  BY <1>2
<1> QED
  BY <1>1, <1>3 DEF r

LEMMA TrimmedFields ==
  ASSUME NEW s \in StatsSession, NEW at \in Times, NEW sample \in Sizes
  PROVE  Trim([s EXCEPT !.timestamps = Append(s.timestamps, at), !.samples = Append(s.samples, sample)])
           = [request |-> s.request, type |-> s.type, window |-> s.window, wall_time |-> s.wall_time,
              timestamps |-> Latest(Append(s.timestamps, at), s.window),
              samples |-> Latest(Append(s.samples, sample), s.window)]
<1> DEFINE ts == Append(s.timestamps, at)
           ss == Append(s.samples, sample)
           e  == [s EXCEPT !.timestamps = ts, !.samples = ss]
<1>1. ts \in Seq(Times) /\ ss \in Seq(Sizes)
  BY AppendProperties DEF StatsSession
<1> HIDE DEF ts, ss
<1>2. e = [request |-> s.request, type |-> s.type, window |-> s.window, wall_time |-> s.wall_time,
           timestamps |-> ts, samples |-> ss]
  BY ReplacedFields
<1> HIDE DEF e
<1>3. e \in StatsSession
  BY <1>1, <1>2 DEF StatsSession
<1>4. Trim(e) = [request |-> e.request, type |-> e.type, window |-> e.window, wall_time |-> e.wall_time,
                 timestamps |-> Latest(e.timestamps, e.window), samples |-> Latest(e.samples, e.window)]
  BY <1>3, ReplacedFields DEF Trim
<1>5. Trim(e) = [request |-> s.request, type |-> s.type, window |-> s.window, wall_time |-> s.wall_time,
                 timestamps |-> Latest(ts, s.window), samples |-> Latest(ss, s.window)]
  BY <1>2, <1>4
<1> QED
  BY <1>5 DEF e, ts, ss

\* The first command of a queue is taken out.
LEMMA DequeuedOne ==
  ASSUME StatsTypeOK, QueuesInv, NEW mode \in Range(Modes), stats_queue[mode] # <<>>,
         stats_queue' = [stats_queue EXCEPT ![mode] = Tail(@)]
  PROVE  LET cmd == Head(stats_queue[mode])
         IN /\ stats_queue' \in [Range(Modes) -> Seq(StatsCmd)]
            /\ cmd \in StatsCmd /\ cmd.request \in 1 .. requests /\ cmd.request \notin ended
            /\ \A k \in Keys : HasSession(k) => sessions_[k].request # cmd.request
            /\ \A m \in Range(Modes) : \A i \in DOMAIN stats_queue'[m] :
                 /\ stats_queue'[m][i].request # cmd.request
                 /\ \E j \in DOMAIN stats_queue[m] : stats_queue'[m][i] = stats_queue[m][j]
            /\ WaitingOnce'
<1> DEFINE q   == stats_queue[mode]
           cmd == Head(q)
           At(m, i) == IF m = mode THEN i + 1 ELSE i
<1>1. q \in Seq(StatsCmd) /\ q # <<>>
  BY DEF StatsTypeOK
<1>2. /\ cmd = q[1] /\ cmd \in StatsCmd /\ 1 \in DOMAIN q
      /\ Tail(q) \in Seq(StatsCmd)
      /\ \A i \in DOMAIN Tail(q) : i + 1 \in DOMAIN q /\ i \in Nat \ {0} /\ Tail(q)[i] = q[i + 1]
  BY <1>1, HeadTailProperties
<1>3. /\ stats_queue' \in [Range(Modes) -> Seq(StatsCmd)]
      /\ stats_queue'[mode] = Tail(q) /\ \A m \in Range(Modes) : m # mode => stats_queue'[m] = stats_queue[m]
  BY <1>2 DEF StatsTypeOK
<1>4. \A m \in Range(Modes) : \A i \in DOMAIN stats_queue'[m] :
        At(m, i) \in DOMAIN stats_queue[m] /\ stats_queue'[m][i] = stats_queue[m][At(m, i)]
  BY <1>2, <1>3
<1>5. \A m \in Range(Modes) : \A i \in DOMAIN stats_queue'[m] : m = mode => At(m, i) # 1
  BY <1>2, <1>3
<1>6. \A m, n \in Range(Modes) : \A i \in DOMAIN stats_queue'[m], j \in DOMAIN stats_queue'[n] :
        m = n /\ At(m, i) = At(n, j) => i = j
  BY <1>2, <1>3
<1> HIDE DEF At
<1>7. WaitingOnce'
  BY <1>4, <1>6 DEF QueuesInv, WaitingOnce
<1>8. /\ cmd.request \in 1 .. requests /\ cmd.request \notin ended
      /\ \A k \in Keys : HasSession(k) => sessions_[k].request # cmd.request
  BY <1>2 DEF QueuesInv, NumbersUsed, WaitingIsNew
<1>9. \A m \in Range(Modes) : \A i \in DOMAIN stats_queue'[m] : stats_queue'[m][i].request # cmd.request
  BY <1>2, <1>4, <1>5 DEF QueuesInv, WaitingOnce
<1> QED
  BY <1>2, <1>3, <1>4, <1>7, <1>8, <1>9
\* What a step without an error or a report leaves to show.
LEMMA NothingSent == stats_sent' = {} => ReportsTell' /\ SilentOnceEnded'
BY DEF ReportsTell, Reports, SilentOnceEnded

\* Requests pass from the queues to the sessions, and from there to the past.
RequestsMove(new) ==
  /\ \A r \in ended' : r \in ended \/ \E k \in Keys : HasSession(k) /\ sessions_[k].request = r
  /\ \A k \in Keys : HasSession(k)' =>
       sessions_'[k].request \in new \/ (HasSession(k) /\ sessions_'[k].request = sessions_[k].request)

LEMMA QueuesKept ==
  ASSUME StatsTypeOK, QueuesInv, requests' = requests, WaitingOnce', NEW new \in SUBSET (1 .. requests), RequestsMove(new),
         \A m \in Range(Modes) : \A i \in DOMAIN stats_queue'[m] :
           /\ stats_queue'[m][i].request \notin new
           /\ \E j \in DOMAIN stats_queue[m] : stats_queue'[m][i] = stats_queue[m][j]
  PROVE  QueuesInv'
<1>1. \A m \in Range(Modes) : \A i \in DOMAIN stats_queue'[m] :
        /\ stats_queue'[m][i].request \in 1 .. requests /\ stats_queue'[m][i].request \notin ended
        /\ \A k \in Keys : HasSession(k) => sessions_[k].request # stats_queue'[m][i].request
  BY DEF QueuesInv, NumbersUsed, WaitingIsNew
<1>2. /\ \A k \in Keys : HasSession(k)' => sessions_'[k].request \in 1 .. requests
      /\ ended' \subseteq 1 .. requests
  BY DEF RequestsMove, QueuesInv, NumbersUsed
<1>3. NumbersUsed'
  BY <1>1, <1>2 DEF NumbersUsed
<1>4. WaitingIsNew'
  BY <1>1 DEF WaitingIsNew, RequestsMove
<1> QED
  BY <1>3, <1>4 DEF QueuesInv

\* The sessions after a step, for which only their part of the state counts.
SessionsTypeOK ==
  sessions_ \in [Keys -> StatsSession \cup {NoSession}] /\ received \in [Keys -> Seq(Sizes)] /\ ended \subseteq Nat

LEMMA EraseKeepsSessions ==
  ASSUME StatsTypeOK, SessionsInv, NEW keys \in SUBSET Keys, Erase(keys)
  PROVE  SessionsTypeOK' /\ SessionsInv' /\ RequestsMove({}) /\ ReportsTell' /\ SilentOnceEnded'
<1>1. /\ sessions_' = [k \in Keys |-> IF k \in keys THEN NoSession ELSE sessions_[k]]
      /\ ended' = ended \cup {sessions_[k].request : k \in {j \in keys : sessions_[j] # NoSession}}
      /\ stats_sent' = {} /\ received' = received
  BY DEF Erase
<1>2. \A k \in Keys : HasSession(k)' => k \notin keys /\ HasSession(k) /\ sessions_'[k] = sessions_[k]
  BY <1>1 DEF HasSession
<1>3. \A r \in ended' : r \in ended \/ \E k \in keys : HasSession(k) /\ sessions_[k].request = r
  BY <1>1 DEF HasSession
<1>4. \A k \in Keys : HasSession(k) => sessions_[k].request \in Nat
  BY SessionFields DEF StatsSession
<1>5. SessionsTypeOK'
  BY <1>1, <1>3, <1>4 DEF StatsTypeOK, SessionsTypeOK
<1>6. SessionsApart'
  BY <1>2, <1>3 DEF SessionsInv, SessionsApart
<1>7. WindowsHold'
  BY <1>1, <1>2 DEF SessionsInv, WindowsHold
<1>8. RequestsMove({})
  BY <1>2, <1>3 DEF RequestsMove
<1> QED
  BY <1>1, <1>5, <1>6, <1>7, <1>8, NothingSent DEF SessionsInv

\* A session starts, for the first time or again.
LEMMA SessionStarts ==
  ASSUME StatsTypeOK, SessionsInv, NEW key \in Keys, NEW cmd \in StatsCmd, cmd.window # 0, NEW type \in MsgTypes,
         cmd.request \notin ended, \A k \in Keys : HasSession(k) => sessions_[k].request # cmd.request,
         sessions_' = [sessions_ EXCEPT ![key] = Session(cmd, type)],
         received' = [received EXCEPT ![key] = <<>>],
         ended' = ended \cup (IF HasSession(key) THEN {sessions_[key].request} ELSE {}),
         stats_sent' = {}
  PROVE  SessionsTypeOK' /\ SessionsInv' /\ RequestsMove({cmd.request}) /\ ReportsTell' /\ SilentOnceEnded'
<1> DEFINE new == Session(cmd, type)
<1>1. /\ new \in StatsSession /\ new.request = cmd.request
      /\ new.window \in Nat \ {0} /\ new.samples = <<>> /\ new.timestamps = <<>>
  <2>1. cmd.request \in Nat /\ cmd.window \in Nat \ {0} /\ cmd.wall_time \in BOOLEAN
    BY DEF StatsCmd
  <2>2. <<>> \in Seq(Times) /\ <<>> \in Seq(Sizes)
    OBVIOUS
  <2> QED
    BY <2>1, <2>2 DEF Session, StatsSession
<1> HIDE DEF new
<1>2. /\ sessions_' \in [Keys -> StatsSession \cup {NoSession}] /\ sessions_'[key] = new
      /\ \A k \in Keys : k # key => sessions_'[k] = sessions_[k]
  BY <1>1 DEF StatsTypeOK, new
<1>3. /\ received' \in [Keys -> Seq(Sizes)] /\ received'[key] = <<>>
      /\ \A k \in Keys : k # key => received'[k] = received[k]
  BY DEF StatsTypeOK
<1>4. \A k \in Keys : k # key => (HasSession(k)' <=> HasSession(k))
  BY <1>2 DEF HasSession
<1>5. HasSession(key) => sessions_[key].request \in Nat
  BY SessionFields DEF StatsSession
<1>6. SessionsTypeOK'
  BY <1>2, <1>3, <1>5 DEF StatsTypeOK, SessionsTypeOK
<1>7. SessionsApart'
  BY <1>1, <1>2, <1>4 DEF SessionsInv, SessionsApart
<1>8. WindowsHold'
  <2>1. Latest(<<>>, new.window) = <<>>
    BY <1>1, LatestOfNone
  <2> QED
    BY <1>1, <1>2, <1>3, <1>4, <2>1 DEF SessionsInv, WindowsHold
<1>9. RequestsMove({cmd.request})
  BY <1>1, <1>2, <1>4 DEF RequestsMove
<1> QED
  BY <1>6, <1>7, <1>8, <1>9, NothingSent DEF SessionsInv

LEMMA RefuseKeepsSessions ==
  ASSUME StatsTypeOK, SessionsInv, NEW cmd, cmd.request \notin ended, Refuse(cmd)
  PROVE  SessionsTypeOK' /\ SessionsInv' /\ RequestsMove({cmd.request}) /\ ReportsTell' /\ SilentOnceEnded'
<1>1. stats_sent' = SendError(cmd) /\ UNCHANGED <<sessions_, ended, received>>
  BY DEF Refuse
<1>2. SessionsTypeOK' /\ SessionsInv' /\ RequestsMove({cmd.request})
  BY <1>1 DEF StatsTypeOK, SessionsTypeOK, SessionsInv, SessionsApart, WindowsHold, RequestsMove, HasSession
<1>3. ReportsTell' /\ SilentOnceEnded'
  BY <1>1 DEF SendError, ReportsTell, Reports, SilentOnceEnded
<1> QED
  BY <1>2, <1>3

\* A command stops sessions, starts one, or is refused.
LEMMA StartKeepsSessions ==
  ASSUME StatsTypeOK, SessionsInv, NEW mode \in Range(Modes), NEW cmd \in StatsCmd, cmd.request \notin ended,
         \A k \in Keys : HasSession(k) => sessions_[k].request # cmd.request, StartSession(mode, cmd)
  PROVE  SessionsTypeOK' /\ SessionsInv' /\ RequestsMove({cmd.request}) /\ ReportsTell' /\ SilentOnceEnded'
<1> DEFINE key == <<mode, cmd.topic>>
<1>1. RequestsMove({}) => RequestsMove({cmd.request})
  BY DEF RequestsMove
<1>2. CASE Refuse(cmd)
  BY <1>2, RefuseKeepsSessions
<1>3. CASE StopSessionsByMode(mode)
  BY <1>1, <1>3, EraseKeepsSessions DEF StopSessionsByMode, Keys
<1>4. cmd.topic # NoTopic => key \in Keys
  BY DEF StatsCmd, Keys
<1>5. CASE cmd.topic # NoTopic /\ StopSession(key)
  BY <1>1, <1>4, <1>5, EraseKeepsSessions DEF StopSession
<1>6. ASSUME cmd.topic # NoTopic, cmd.window # 0, NEW type \in ResolvedTypes(cmd, key), Measurable(mode, type),
             Start(key, cmd, type)
      PROVE  SessionsTypeOK' /\ SessionsInv' /\ RequestsMove({cmd.request}) /\ ReportsTell' /\ SilentOnceEnded'
  <2>1. key \in Keys
    BY <1>4, <1>6
  <2> HIDE DEF key
  <2>2. HasSession(key) => sessions_[key].type \in MsgTypes
    BY <2>1, SessionFields DEF StatsSession
  <2>3. type \in MsgTypes
    BY <1>6, <2>2 DEF ResolvedTypes, Measurable, StatsCmd, HasSession
  <2>4. CASE Refuse(cmd)
    BY <2>4, RefuseKeepsSessions
  <2>5. CASE HasSession(key) /\ Restart(key, cmd)
    BY <1>6, <2>1, <2>2, <2>5, SessionStarts DEF Restart
  <2>6. CASE ~HasSession(key) /\ sessions_' = [sessions_ EXCEPT ![key] = Session(cmd, type)]
             /\ received' = [received EXCEPT ![key] = <<>>] /\ stats_sent' = {} /\ UNCHANGED ended
    BY <1>6, <2>1, <2>3, <2>6, SessionStarts
  <2> QED
    BY <1>6, <2>4, <2>5, <2>6 DEF Start, CreateSession, HasSession
<1> QED
  BY <1>2, <1>3, <1>5, <1>6 DEF StartSession

-----------------------------------------------------------------------------
LEMMA StatsInitially == StatsInit => StatsInv
BY DEF StatsInit, StatsInv, StatsTell, StatsTypeOK, ReportsTell, Reports, SilentOnceEnded, QueuesInv, NumbersUsed,
       WaitingOnce, WaitingIsNew, SessionsInv, SessionsApart, WindowsHold, HasSession

\* What depends on the sessions alone.
LEMMA SessionsStay ==
  ASSUME SessionsInv, UNCHANGED <<sessions_, ended, received>>
  PROVE  SessionsInv'
BY DEF SessionsInv, SessionsApart, WindowsHold, HasSession

LEMMA QueuesStay ==
  ASSUME QueuesInv, UNCHANGED <<stats_queue, requests, sessions_, ended>>
  PROVE  QueuesInv'
BY DEF QueuesInv, NumbersUsed, WaitingOnce, WaitingIsNew, HasSession

\* A command gets the next number.
LEMMA ReceiveKeepsStats ==
  ASSUME StatsInv, NEW cmd \in StatsCommands, ReceiveStats(cmd)
  PROVE  StatsInv'
<1> DEFINE mode == cmd.mode
           new  == Numbered(requests + 1, cmd)
           q    == stats_queue[mode]
<1>t. StatsTypeOK /\ QueuesInv /\ SessionsInv /\ requests \in Nat
  BY DEF StatsInv, StatsTell, StatsTypeOK
<1>1. mode \in Range(Modes) /\ new \in StatsCmd /\ new.request = requests + 1
  BY <1>t, StatsAssumption DEF Numbered, StatsCmd
<1>2. /\ requests' = requests + 1 /\ stats_queue' = [stats_queue EXCEPT ![mode] = Append(q, new)]
      /\ stats_sent' = {} /\ UNCHANGED <<sessions_, ended, received>>
  BY DEF ReceiveStats
<1>3. q \in Seq(StatsCmd)
  BY <1>t, <1>1 DEF StatsTypeOK
<1> HIDE DEF mode, new, q
<1>4. /\ Append(q, new) \in Seq(StatsCmd)
      /\ \A i \in DOMAIN Append(q, new) :
           \/ i \in DOMAIN q /\ Append(q, new)[i] = q[i]
           \/ i = Len(q) + 1 /\ Append(q, new)[i] = new
  BY <1>1, <1>3, AppendProperties
<1>5. /\ stats_queue' \in [Range(Modes) -> Seq(StatsCmd)] /\ stats_queue'[mode] = Append(q, new)
      /\ \A m \in Range(Modes) : m # mode => stats_queue'[m] = stats_queue[m]
  BY <1>t, <1>1, <1>2, <1>4 DEF StatsTypeOK
<1>6. StatsTypeOK'
  BY <1>t, <1>2, <1>5 DEF StatsTypeOK
<1>7. \A m \in Range(Modes) : \A i \in DOMAIN stats_queue'[m] :
        \/ i \in DOMAIN stats_queue[m] /\ stats_queue'[m][i] = stats_queue[m][i]
        \/ m = mode /\ i = Len(q) + 1 /\ stats_queue'[m][i].request = requests + 1
  BY <1>1, <1>4, <1>5 DEF q
<1>8. NumbersUsed'
  BY <1>t, <1>2, <1>7 DEF QueuesInv, NumbersUsed, HasSession
<1>9. requests + 1 \notin 1 .. requests
  BY <1>t
<1>10. WaitingOnce'
  BY <1>t, <1>7, <1>9 DEF QueuesInv, NumbersUsed, WaitingOnce
<1>11. WaitingIsNew'
  BY <1>t, <1>2, <1>7, <1>9 DEF QueuesInv, NumbersUsed, WaitingIsNew, HasSession
<1> QED
  BY <1>t, <1>2, <1>6, <1>8, <1>10, <1>11, NothingSent, SessionsStay DEF StatsInv, StatsTell, QueuesInv

LEMMA DrainKeepsStats ==
  ASSUME StatsInv, NEW mode \in Range(Modes), DrainCommands(mode)
  PROVE  StatsInv'
<1> DEFINE cmd == Head(stats_queue[mode])
<1>t. StatsTypeOK /\ QueuesInv /\ SessionsInv
  BY DEF StatsInv, StatsTell
<1>1. /\ stats_queue[mode] # <<>> /\ StartSession(mode, cmd)
      /\ stats_queue' = [stats_queue EXCEPT ![mode] = Tail(@)] /\ requests' = requests
  BY DEF DrainCommands, StartHzSession, StartBwSession, StartDelaySession
<1>2. /\ stats_queue' \in [Range(Modes) -> Seq(StatsCmd)]
      /\ cmd \in StatsCmd /\ cmd.request \in 1 .. requests /\ cmd.request \notin ended
      /\ \A k \in Keys : HasSession(k) => sessions_[k].request # cmd.request
      /\ \A m \in Range(Modes) : \A i \in DOMAIN stats_queue'[m] :
           /\ stats_queue'[m][i].request # cmd.request
           /\ \E j \in DOMAIN stats_queue[m] : stats_queue'[m][i] = stats_queue[m][j]
      /\ WaitingOnce'
  BY <1>t, <1>1, DequeuedOne
<1> HIDE DEF cmd
<1>3. SessionsTypeOK' /\ SessionsInv' /\ RequestsMove({cmd.request}) /\ ReportsTell' /\ SilentOnceEnded'
  BY <1>t, <1>1, <1>2, StartKeepsSessions
<1>4. QueuesInv'
  BY <1>t, <1>1, <1>2, <1>3, QueuesKept
<1>5. StatsTypeOK'
  BY <1>t, <1>1, <1>2, <1>3 DEF StatsTypeOK, SessionsTypeOK
<1> QED
  BY <1>3, <1>4, <1>5 DEF StatsInv, StatsTell

LEMMA StopAllKeepsStats == StatsInv /\ DrainStopAllCommands => StatsInv'
<1> SUFFICES ASSUME StatsInv, DrainStopAllCommands PROVE StatsInv'
  OBVIOUS
<1>t. StatsTypeOK /\ QueuesInv /\ SessionsInv
  BY DEF StatsInv, StatsTell
<1>1. Erase(Keys) /\ UNCHANGED <<stats_queue, requests>>
  BY DEF DrainStopAllCommands, StopAllSessions
<1>2. SessionsTypeOK' /\ SessionsInv' /\ RequestsMove({}) /\ ReportsTell' /\ SilentOnceEnded'
  BY <1>t, <1>1, EraseKeepsSessions
<1>3. WaitingOnce'
  BY <1>t, <1>1 DEF QueuesInv, WaitingOnce
<1>4. QueuesInv'
  BY <1>t, <1>1, <1>2, <1>3, QueuesKept
<1>5. StatsTypeOK'
  BY <1>t, <1>1, <1>2 DEF StatsTypeOK, SessionsTypeOK
<1> QED
  BY <1>2, <1>4, <1>5 DEF StatsInv, StatsTell

\* A message enters the window of its session, and the oldest may leave it.
LEMMA MessageKeepsStats ==
  ASSUME StatsInv, NEW key \in Keys, NEW at \in Times, NEW sample \in Sizes, HandleMessage(key, at, sample)
  PROVE  StatsInv'
<1> DEFINE s   == sessions_[key]
           old == received[key]
           new == [request |-> s.request, type |-> s.type, window |-> s.window, wall_time |-> s.wall_time,
                   timestamps |-> Latest(Append(s.timestamps, at), s.window),
                   samples |-> Latest(Append(s.samples, sample), s.window)]
<1>t. StatsTypeOK /\ QueuesInv /\ SessionsInv
  BY DEF StatsInv, StatsTell
<1>1. HasSession(key) /\ s \in StatsSession /\ old \in Seq(Sizes)
  BY <1>t, SessionFields DEF HandleMessage, HasSession, StatsTypeOK
<1>2. /\ s.request \in Nat /\ s.type \in MsgTypes /\ s.window \in Nat \ {0} /\ s.wall_time \in BOOLEAN
      /\ s.timestamps \in Seq(Times) /\ s.samples \in Seq(Sizes)
  BY <1>1 DEF StatsSession
<1>3. sessions_' = [sessions_ EXCEPT ![key] = new]
  <2>1. sessions_' = [sessions_ EXCEPT ![key] =
          Trim([s EXCEPT !.timestamps = Append(s.timestamps, at), !.samples = Append(s.samples, sample)])]
    BY DEF HandleMessage
  <2> QED
    BY <1>1, <2>1, TrimmedFields
<1>4. /\ received' = [received EXCEPT ![key] = Append(old, sample)] /\ stats_sent' = {}
      /\ UNCHANGED <<stats_queue, ended, requests>>
  BY DEF HandleMessage
<1>5. s.samples = Latest(old, s.window) /\ Len(s.timestamps) = Len(s.samples)
  BY <1>t, <1>1 DEF SessionsInv, WindowsHold
<1>6. Append(s.timestamps, at) \in Seq(Times) /\ Append(s.samples, sample) \in Seq(Sizes) /\ Append(old, sample) \in Seq(Sizes)
      /\ Len(Append(s.timestamps, at)) = Len(Append(s.samples, sample))
  BY <1>1, <1>2, <1>5, AppendProperties
<1>7. new.samples = Latest(Append(old, sample), s.window)
  BY <1>1, <1>2, <1>5, LatestAppend
<1>8. /\ new.timestamps \in Seq(Times) /\ new.samples \in Seq(Sizes)
      /\ Len(new.timestamps) = Len(new.samples)
  <2> DEFINE ts == Append(s.timestamps, at)
             ss == Append(s.samples, sample)
  <2>1. ts \in Seq(Times) /\ ss \in Seq(Sizes) /\ Len(ts) = Len(ss)
    BY <1>6
  <2> HIDE DEF ts, ss
  <2>2. Latest(ts, s.window) \in Seq(Times) /\ Len(Latest(ts, s.window)) = IF Len(ts) > s.window THEN s.window ELSE Len(ts)
    BY <1>2, <2>1, LatestIs
  <2>3. Latest(ss, s.window) \in Seq(Sizes) /\ Len(Latest(ss, s.window)) = IF Len(ss) > s.window THEN s.window ELSE Len(ss)
    BY <1>2, <2>1, LatestIs
  <2>4. new.timestamps = Latest(ts, s.window) /\ new.samples = Latest(ss, s.window)
    BY DEF ts, ss
  <2> QED
    BY <2>1, <2>2, <2>3, <2>4
<1>9. new \in StatsSession /\ new.request = s.request /\ new.window = s.window
  BY <1>2, <1>8 DEF StatsSession
<1> HIDE DEF new, s, old
<1>10. /\ sessions_' \in [Keys -> StatsSession \cup {NoSession}] /\ sessions_'[key] = new
       /\ \A k \in Keys : k # key => sessions_'[k] = sessions_[k]
  BY <1>t, <1>3, <1>9 DEF StatsTypeOK
<1>11. /\ received' \in [Keys -> Seq(Sizes)] /\ received'[key] = Append(old, sample)
       /\ \A k \in Keys : k # key => received'[k] = received[k]
  BY <1>t, <1>4, <1>6 DEF StatsTypeOK
<1>12. \A k \in Keys : HasSession(k)' => HasSession(k) /\ sessions_'[k].request = sessions_[k].request
  BY <1>1, <1>9, <1>10 DEF HasSession, s
<1>13. StatsTypeOK'
  BY <1>t, <1>4, <1>10, <1>11 DEF StatsTypeOK
<1>14. QueuesInv'
  BY <1>t, <1>4, <1>12 DEF QueuesInv, NumbersUsed, WaitingOnce, WaitingIsNew
<1>15. SessionsApart'
  BY <1>t, <1>4, <1>12 DEF SessionsInv, SessionsApart
<1>16. WindowsHold'
  BY <1>t, <1>7, <1>8, <1>9, <1>10, <1>11 DEF SessionsInv, WindowsHold, HasSession
<1> QED
  BY <1>4, <1>13, <1>14, <1>15, <1>16, NothingSent DEF StatsInv, StatsTell, SessionsInv

\* The reports are of the sessions there are.
LEMMA ReportKeepsStats == StatsInv /\ ReportStats => StatsInv'
<1> SUFFICES ASSUME StatsInv, ReportStats PROVE StatsInv'
  OBVIOUS
<1>t. StatsTypeOK /\ QueuesInv /\ SessionsInv
  BY DEF StatsInv, StatsTell
<1>1. /\ stats_sent' = {Report(k) : k \in {j \in Keys : Reportable(j)}}
      /\ UNCHANGED <<stats_queue, sessions_, ended, received, requests>>
  BY DEF ReportStats
<1>2. StatsTypeOK' /\ QueuesInv' /\ SessionsInv'
  BY <1>t, <1>1, QueuesStay, SessionsStay DEF StatsTypeOK
<1>3. ASSUME NEW k \in Keys, Reportable(k)
      PROVE  LET window == Latest(received[k], sessions_[k].window)
             IN /\ HasSession(k) /\ Report(k).request = sessions_[k].request /\ sessions_[k].request \notin ended
                /\ Report(k).count = Len(window) /\ Report(k).total = Total(window)
                /\ k[1] = "delay" \/ Report(k).elapsed > 0
  <2> DEFINE s == sessions_[k]
  <2>1. HasSession(k) /\ s \in StatsSession
    BY <1>t, <1>3, SessionFields DEF Reportable, HasSession
  <2>2. /\ s.samples = Latest(received[k], s.window) /\ Len(s.timestamps) = Len(s.samples)
        /\ s.request \notin ended
    BY <1>t, <2>1 DEF SessionsInv, SessionsApart, WindowsHold
  <2>3. /\ Report(k).request = s.request /\ Report(k).count = Len(s.timestamps)
        /\ Report(k).total = Total(s.samples) /\ Report(k).elapsed = Last(s.timestamps) - Head(s.timestamps)
    BY DEF Report
  <2>4. CASE k[1] # "delay"
    <3>1. s.timestamps \in Seq(Times) /\ Len(s.timestamps) >= 2 /\ Last(s.timestamps) > Head(s.timestamps)
      BY <1>3, <2>1, <2>4 DEF Reportable, StatsSession
    <3>2. Head(s.timestamps) \in Times /\ Last(s.timestamps) \in Times
      BY <3>1, LenProperties, ElementOfSeq DEF Last
    <3> DEFINE first == Head(s.timestamps)
               last  == Last(s.timestamps)
    <3>3. first \in Nat /\ last \in Nat /\ last > first
      BY <3>1, <3>2, StatsAssumption
    <3> HIDE DEF first, last
    <3>4. last - first > 0
      BY <3>3
    <3> QED
      BY <2>1, <2>2, <2>3, <3>4 DEF first, last
  <2> QED
    BY <2>1, <2>2, <2>3, <2>4
<1>4. ReportsTell'
  <2> SUFFICES ASSUME NEW r \in Reports'
               PROVE  \E k \in Keys :
                        /\ sessions_[k] # NoSession /\ sessions_[k].request = r.request
                        /\ LET window == Latest(received[k], sessions_[k].window)
                           IN r.count = Len(window) /\ r.total = Total(window) /\ (k[1] = "delay" \/ r.elapsed > 0)
    BY <1>1 DEF ReportsTell
  <2>1. PICK k \in Keys : Reportable(k) /\ r = Report(k)
    BY <1>1 DEF Reports
  <2> QED
    BY <1>3, <2>1 DEF HasSession
<1>5. SilentOnceEnded'
  BY <1>1, <1>3 DEF SilentOnceEnded
<1> QED
  BY <1>2, <1>4, <1>5 DEF StatsInv, StatsTell

\* A report counts the latest messages since the request it is for, as many as
\* its window holds, and none is sent for a request whose session was stopped or
\* taken over: any clients, commands, messages and readings of the clocks.
THEOREM StatsSafety == StatsSpec => []StatsTell
<1>1. StatsInv /\ [StatsNext]_stats_vars => StatsInv'
  <2> SUFFICES ASSUME StatsInv, [StatsNext]_stats_vars PROVE StatsInv'
    OBVIOUS
  <2>t. StatsTypeOK /\ QueuesInv /\ SessionsInv
    BY DEF StatsInv, StatsTell
  <2>1. CASE UNCHANGED stats_vars
    <3>1. StatsTypeOK' /\ QueuesInv' /\ SessionsInv'
      BY <2>t, <2>1, QueuesStay, SessionsStay DEF StatsTypeOK, stats_vars, nodeVars
    <3>2. ReportsTell' /\ SilentOnceEnded'
      BY <2>1 DEF StatsInv, StatsTell, ReportsTell, Reports, SilentOnceEnded, stats_vars, nodeVars
    <3> QED
      BY <3>1, <3>2 DEF StatsInv, StatsTell
  <2>2. CASE OnDrainTimer \/ QueueDrained
    <3>1. stats_sent' = {} /\ UNCHANGED <<stats_queue, sessions_, ended, received, requests>>
      BY <2>2 DEF OnDrainTimer, QueueDrained
    <3> QED
      BY <2>t, <3>1, QueuesStay, SessionsStay, NothingSent DEF StatsInv, StatsTell, StatsTypeOK
  <2>3. CASE ReceiveStopAll
    <3>1. stats_sent' = {} /\ requests' = requests + 1 /\ UNCHANGED <<stats_queue, sessions_, ended, received>>
      BY <2>3 DEF ReceiveStopAll
    <3>2. StatsTypeOK'
      BY <2>t, <3>1 DEF StatsTypeOK
    <3>3. requests \in Nat /\ 1 .. requests \subseteq 1 .. requests'
      BY <2>t, <3>1 DEF StatsTypeOK
    <3>4. QueuesInv'
      BY <2>t, <3>1, <3>3 DEF QueuesInv, NumbersUsed, WaitingOnce, WaitingIsNew, HasSession
    <3> QED
      BY <2>t, <3>1, <3>2, <3>4, SessionsStay, NothingSent DEF StatsInv, StatsTell
  <2> QED
    BY <2>1, <2>2, <2>3, ReceiveKeepsStats, DrainKeepsStats, StopAllKeepsStats, MessageKeepsStats, ReportKeepsStats
       DEF StatsNext, Drain
<1>2. StatsInv => StatsTell
  BY DEF StatsInv
<1> QED
  BY <1>1, <1>2, StatsInitially, PTL DEF StatsSpec

(***************************************************************************)
(* The cache of the graph.                                                 *)
(***************************************************************************)
\* The timer the watcher has created and not assigned yet will fire, whatever
\* the callbacks cancel meanwhile.
NewTimerFires == watcher = "assign" => created \in active /\ refresh_post_timer_ # created

WaitingBefore == {i \in DOMAIN queries : queries[i].before}

\* A callback has read the graph after the queries that came before it.
ReadAfterQueries ==
  /\ \A i \in DOMAIN queries : queries[i].graph <= graph_changes
  /\ callback = "services" =>
       \A i \in WaitingBefore : \A f \in {"topics", "actions"} : buffers[PendingSnapshot][f] >= queries[i].graph
  /\ callback = "respond" =>
       \A i \in WaitingBefore : \A f \in {"topics", "services", "actions"} : CurrentSnapshot[f] >= queries[i].graph

CacheInv == SnapshotsServe /\ NewTimerFires /\ ReadAfterQueries

LEMMA CacheInitially == CacheInit => CacheInv
BY CacheAssumption
   DEF CacheInit, CacheInv, SnapshotsServe, CacheTypeOK, Snapshot, AnswersAreCurrent, PendingIsServed, NewTimerFires,
       ReadAfterQueries, WaitingBefore

LEMMA QueryFields ==
  ASSUME CacheTypeOK, NEW i \in DOMAIN queries
  PROVE  queries[i].graph \in Nat /\ queries[i].before \in BOOLEAN
<1>1. queries \in Seq([graph : Nat, before : BOOLEAN])
  BY DEF CacheTypeOK
<1>2. queries[i] \in [graph : Nat, before : BOOLEAN]
  BY <1>1, ElementOfSeq, LenProperties
<1> QED
  BY <1>2

\* A snapshot of which some fields have been read anew.
LEMMA RefreshedFields ==
  ASSUME CacheTypeOK, NEW fields, Refreshed(fields)
  PROVE  /\ buffers' \in [{0, 1} -> Snapshot]
         /\ \A f \in {"topics", "services", "actions"} :
              buffers'[PendingSnapshot][f] = IF f \in fields THEN graph_changes ELSE buffers[PendingSnapshot][f]
<1> DEFINE old == buffers[PendingSnapshot]
           new == [f \in DOMAIN old |-> IF f \in fields THEN graph_changes ELSE old[f]]
<1>1. graph_changes \in Nat /\ PendingSnapshot \in {0, 1} /\ old \in Snapshot /\ buffers \in [{0, 1} -> Snapshot]
  BY DEF CacheTypeOK, PendingSnapshot
<1>2. buffers' = [buffers EXCEPT ![PendingSnapshot] = new]
  BY DEF Refreshed
<1>3. DOMAIN old = {"topics", "services", "actions"} /\ \A f \in DOMAIN old : old[f] \in Nat
  BY <1>1 DEF Snapshot
<1> HIDE DEF old
<1>4. /\ DOMAIN new = {"topics", "services", "actions"}
      /\ \A f \in {"topics", "services", "actions"} :
           new[f] \in Nat /\ new[f] = IF f \in fields THEN graph_changes ELSE old[f]
  BY <1>1, <1>3
<1>5. new = [topics |-> new["topics"], services |-> new["services"], actions |-> new["actions"]]
  BY <1>4
<1>6. new \in Snapshot
  BY <1>4, <1>5 DEF Snapshot
<1> QED
  BY <1>1, <1>2, <1>4, <1>6 DEF old

\* What is not touched by the watcher and the timers.
LEMMA ReadsStay ==
  ASSUME ReadAfterQueries, UNCHANGED <<graph_changes, snapshotVars, queries>>, callback' \notin {"services", "respond"} \/ UNCHANGED callback
  PROVE  ReadAfterQueries'
BY DEF ReadAfterQueries, WaitingBefore, snapshotVars, PendingSnapshot, CurrentSnapshot

LEMMA ChangeKeepsCache == CacheInv /\ GraphChanges => CacheInv'
<1> SUFFICES ASSUME CacheInv, GraphChanges PROVE CacheInv'
  OBVIOUS
<1> USE DEF GraphChanges, snapshotVars
<1>1. CacheTypeOK'
  BY DEF CacheInv, SnapshotsServe, CacheTypeOK
<1>2. AnswersAreCurrent'
  BY DEF AnswersAreCurrent
<1>3. PendingIsServed' /\ NewTimerFires'
  BY DEF CacheInv, SnapshotsServe, PendingIsServed, NewTimerFires
<1>4. ReadAfterQueries'
  <2>1. \A i \in DOMAIN queries : queries[i].graph \in Nat
    BY QueryFields DEF CacheInv, SnapshotsServe
  <2>2. graph_changes \in Nat
    BY DEF CacheInv, SnapshotsServe, CacheTypeOK
  <2> QED
    BY <2>1, <2>2 DEF CacheInv, ReadAfterQueries, WaitingBefore, PendingSnapshot, CurrentSnapshot
<1> QED
  BY <1>1, <1>2, <1>3, <1>4 DEF CacheInv, SnapshotsServe

LEMMA QueryKeepsCache == CacheInv /\ Query => CacheInv'
<1> SUFFICES ASSUME CacheInv, Query PROVE CacheInv'
  OBVIOUS
<1> DEFINE q == [graph |-> graph_changes, before |-> callback = "none"]
<1> USE DEF Query, snapshotVars, timerVars
<1>1. q \in [graph : Nat, before : BOOLEAN] /\ queries \in Seq([graph : Nat, before : BOOLEAN])
  BY DEF CacheInv, SnapshotsServe, CacheTypeOK
<1>2. /\ queries' \in Seq([graph : Nat, before : BOOLEAN])
      /\ \A i \in DOMAIN queries' : (i \in DOMAIN queries /\ queries'[i] = queries[i]) \/ queries'[i] = q
  BY <1>1, AppendProperties
<1>3. CacheTypeOK'
  BY <1>2 DEF CacheInv, SnapshotsServe, CacheTypeOK
<1>4. AnswersAreCurrent'
  BY DEF AnswersAreCurrent
<1>5. PendingIsServed' /\ NewTimerFires'
  BY DEF CacheInv, SnapshotsServe, PendingIsServed, NewTimerFires
<1>6. ReadAfterQueries'
  <2>1. callback # "none" => \A i \in WaitingBefore' : i \in WaitingBefore /\ queries'[i] = queries[i]
    <3>1. callback # "none" => ~q.before
      OBVIOUS
    <3> HIDE DEF q
    <3> QED
      BY <1>2, <3>1 DEF WaitingBefore
  <2>2. \A i \in DOMAIN queries' : queries'[i].graph <= graph_changes
    BY <1>1, <1>2 DEF CacheInv, SnapshotsServe, CacheTypeOK, ReadAfterQueries
  <2> QED
    BY <2>1, <2>2 DEF CacheInv, ReadAfterQueries, PendingSnapshot, CurrentSnapshot
<1> QED
  BY <1>3, <1>4, <1>5, <1>6 DEF CacheInv, SnapshotsServe

LEMMA WatcherKeepsCache == CacheInv /\ WatcherTaskFunc => CacheInv'
<1> SUFFICES ASSUME CacheInv, WatcherTaskFunc PROVE CacheInv'
  OBVIOUS
<1>t. CacheTypeOK /\ PendingIsServed /\ NewTimerFires /\ ReadAfterQueries
  BY DEF CacheInv, SnapshotsServe
<1>w. replies' = {} /\ UNCHANGED <<graph_changes, snapshotVars, callback, stop_watcher_, queries, graph_asked>>
  BY DEF WatcherTaskFunc, WaitForGraphChange, MarkPending, RenewEvent, CancelOldTimer, CreateTimer, AssignTimer, Watch
<1>1. AnswersAreCurrent'
  BY <1>w DEF AnswersAreCurrent
<1>2. ReadAfterQueries'
  BY <1>t, <1>w, ReadsStay
<1>3. CacheTypeOK' /\ PendingIsServed' /\ NewTimerFires'
  <2> USE <1>t, <1>w DEF Watch, CacheTypeOK, PendingIsServed, NewTimerFires, snapshotVars
  <2>1. CASE WaitForGraphChange
    BY <2>1 DEF WaitForGraphChange
  <2>2. CASE MarkPending
    BY <2>2 DEF MarkPending
  <2>3. CASE RenewEvent
    BY <2>3 DEF RenewEvent
  <2>4. CASE CancelOldTimer
    BY <2>4 DEF CancelOldTimer
  <2>5. CASE CreateTimer
    BY <2>5, CacheAssumption DEF CreateTimer
  <2>6. CASE AssignTimer
    BY <2>6 DEF AssignTimer
  <2> QED
    BY <2>1, <2>2, <2>3, <2>4, <2>5, <2>6 DEF WatcherTaskFunc
<1> QED
  BY <1>1, <1>2, <1>3 DEF CacheInv, SnapshotsServe

\* A refresh is marked as done by the callback that takes the snapshot.
LEMMA TimersKeepCache == CacheInv /\ (OnPollTimer \/ OneShotFires \/ CancelItself) => CacheInv'
<1> SUFFICES ASSUME CacheInv, OnPollTimer \/ OneShotFires \/ CancelItself PROVE CacheInv'
  OBVIOUS
<1>t. CacheTypeOK /\ PendingIsServed /\ NewTimerFires /\ ReadAfterQueries
  BY DEF CacheInv, SnapshotsServe
<1>r. /\ replies' = {} /\ callback' \notin {"services", "respond"}
      /\ UNCHANGED <<graph_changes, graph_event_, created, watcher, stop_watcher_, snapshotVars, queries>>
  BY DEF OnPollTimer, OneShotFires, CancelItself, Run
<1>1. AnswersAreCurrent'
  BY <1>r DEF AnswersAreCurrent
<1>2. ReadAfterQueries'
  BY <1>t, <1>r, ReadsStay
<1>3. CacheTypeOK' /\ PendingIsServed' /\ NewTimerFires'
  <2> USE <1>t, <1>r DEF Run, CacheTypeOK, PendingIsServed, NewTimerFires, snapshotVars
  <2>1. CASE OnPollTimer
    BY <2>1 DEF OnPollTimer
  <2>2. CASE OneShotFires
    BY <2>2 DEF OneShotFires
  <2>3. CASE CancelItself
    BY <2>3 DEF CancelItself
  <2> QED
    BY <2>1, <2>2, <2>3
<1> QED
  BY <1>1, <1>2, <1>3 DEF CacheInv, SnapshotsServe

LEMMA RefreshKeepsCache == CacheInv /\ RefreshSnapshot => CacheInv'
<1> SUFFICES ASSUME CacheInv, RefreshSnapshot PROVE CacheInv'
  OBVIOUS
<1>t. CacheTypeOK /\ PendingIsServed /\ NewTimerFires /\ ReadAfterQueries
  BY DEF CacheInv, SnapshotsServe
<1>r. /\ replies' = {} /\ callback \notin {"cancel", "post", "crashed"}
      /\ UNCHANGED <<graph_changes, graph_event_, created, watcher, stop_watcher_, pending_graph_refresh_,
                     refresh_post_timer_, active, queries>>
  BY DEF RefreshSnapshot, Run
<1> DEFINE p == PendingSnapshot
<1>n. graph_changes \in Nat /\ \A i \in DOMAIN queries : queries[i].graph \in Nat /\ queries[i].graph <= graph_changes
  BY <1>t, QueryFields DEF CacheTypeOK, ReadAfterQueries
<1>1. AnswersAreCurrent'
  BY <1>r DEF AnswersAreCurrent
<1>2. PendingIsServed' /\ NewTimerFires'
  BY <1>t, <1>r DEF PendingIsServed, NewTimerFires
<1>3. CASE callback = "topics" /\ callback' = "services" /\ Refreshed({"topics", "actions"})
           /\ UNCHANGED current_snapshot_index_
  <2>1. CacheTypeOK'
    BY <1>t, <1>r, <1>3, RefreshedFields DEF CacheTypeOK
  <2>2. PendingSnapshot' = p /\ \A f \in {"topics", "actions"} : buffers'[p][f] = graph_changes
    BY <1>t, <1>3, RefreshedFields DEF PendingSnapshot
  <2>4. ReadAfterQueries'
    BY <1>r, <1>3, <1>n, <2>2 DEF ReadAfterQueries, WaitingBefore
  <2> QED
    BY <1>1, <1>2, <2>1, <2>4 DEF CacheInv, SnapshotsServe
<1>4. CASE callback = "services" /\ callback' = "respond" /\ Refreshed({"services"}) /\ Publish
  <2>1. CacheTypeOK'
    BY <1>t, <1>r, <1>4, RefreshedFields DEF CacheTypeOK, Publish
  <2>2. CurrentSnapshot' = buffers'[p]
    BY <1>t, <1>4 DEF CacheTypeOK, PendingSnapshot, CurrentSnapshot, Publish
  <2>3. buffers'[p]["services"] = graph_changes /\ \A f \in {"topics", "actions"} : buffers'[p][f] = buffers[p][f]
    BY <1>t, <1>4, RefreshedFields
  <2>4. ReadAfterQueries'
    BY <1>t, <1>r, <1>4, <1>n, <2>2, <2>3 DEF ReadAfterQueries, WaitingBefore
  <2> QED
    BY <1>1, <1>2, <2>1, <2>4 DEF CacheInv, SnapshotsServe
<1> QED
  BY <1>3, <1>4 DEF RefreshSnapshot, Run

LEMMA RespondKeepsCache == CacheInv /\ DrainAndRespond => CacheInv'
<1> SUFFICES ASSUME CacheInv, DrainAndRespond PROVE CacheInv'
  OBVIOUS
<1>t. CacheTypeOK /\ PendingIsServed /\ NewTimerFires /\ ReadAfterQueries
  BY DEF CacheInv, SnapshotsServe
<1>r. callback = "respond" /\ UNCHANGED <<graph_changes, timerVars, snapshotVars, stop_watcher_>>
  BY DEF DrainAndRespond
<1>1. PendingIsServed' /\ NewTimerFires'
  BY <1>t, <1>r DEF PendingIsServed, NewTimerFires, timerVars
<1>2. CASE queries = <<>>
  <2>1. callback' = "none" /\ replies' = {} /\ UNCHANGED queries
    BY <1>2 DEF DrainAndRespond
  <2>2. ReadAfterQueries'
    BY <1>t, <1>r, <2>1, ReadsStay
  <2>3. CacheTypeOK' /\ AnswersAreCurrent'
    BY <1>t, <1>r, <2>1 DEF CacheTypeOK, AnswersAreCurrent, timerVars, snapshotVars
  <2> QED
    BY <1>1, <2>2, <2>3 DEF CacheInv, SnapshotsServe
<1>3. CASE queries # <<>>
  <2>1. /\ replies' = {[query |-> Head(queries), snapshot |-> CurrentSnapshot]}
        /\ queries' = Tail(queries) /\ UNCHANGED callback
    BY <1>3 DEF DrainAndRespond
  <2>2. queries \in Seq([graph : Nat, before : BOOLEAN])
    BY <1>t DEF CacheTypeOK
  <2>3. /\ Head(queries) = queries[1] /\ 1 \in DOMAIN queries
        /\ queries' \in Seq([graph : Nat, before : BOOLEAN])
        /\ \A i \in DOMAIN queries' : i + 1 \in DOMAIN queries /\ queries'[i] = queries[i + 1]
    BY <1>3, <2>1, <2>2, HeadTailProperties
  <2>4. CacheTypeOK'
    BY <1>t, <1>r, <2>3 DEF CacheTypeOK, timerVars, snapshotVars
  <2>5. CurrentSnapshot \in Snapshot
    BY <1>t DEF CacheTypeOK, CurrentSnapshot
  <2>6. AnswersAreCurrent'
    BY <1>t, <1>r, <2>1, <2>3, <2>5 DEF AnswersAreCurrent, ReadAfterQueries, WaitingBefore, Snapshot
  <2>7. ReadAfterQueries'
    BY <1>t, <1>r, <2>1, <2>3 DEF ReadAfterQueries, WaitingBefore, CurrentSnapshot, snapshotVars
  <2> QED
    BY <1>1, <2>4, <2>6, <2>7 DEF CacheInv, SnapshotsServe
<1> QED
  BY <1>2, <1>3

LEMMA DestroyKeepsCache == CacheInv /\ Destroy => CacheInv'
<1> SUFFICES ASSUME CacheInv, Destroy PROVE CacheInv'
  OBVIOUS
<1>1. ReadAfterQueries'
  BY ReadsStay DEF CacheInv, Destroy
<1>2. CacheTypeOK' /\ AnswersAreCurrent'
  BY DEF CacheInv, SnapshotsServe, CacheTypeOK, AnswersAreCurrent, Destroy, snapshotVars
<1>3. PendingIsServed'
  BY DEF PendingIsServed, Destroy
<1>4. NewTimerFires'
  BY DEF CacheInv, NewTimerFires, Destroy
<1> QED
  BY <1>1, <1>2, <1>3, <1>4 DEF CacheInv, SnapshotsServe

\* The answers to the queries of a graph are no older than these, and a refresh
\* the watcher has marked as pending is under way, however often the graph
\* changes and wherever the watcher is when a callback runs.
THEOREM CacheSafety == CacheSpec => []SnapshotsServe
<1>1. CacheInv /\ [CacheNext]_cache_vars => CacheInv'
  <2> SUFFICES ASSUME CacheInv, [CacheNext]_cache_vars PROVE CacheInv'
    OBVIOUS
  <2>1. CASE UNCHANGED cache_vars
    <3>1. ReadAfterQueries'
      BY <2>1, ReadsStay DEF CacheInv, cache_vars, queryVars
    <3> QED
      BY <2>1, <3>1 DEF CacheInv, SnapshotsServe, CacheTypeOK, AnswersAreCurrent, PendingIsServed, NewTimerFires,
                cache_vars, timerVars, snapshotVars, queryVars
  <2> QED
    BY <2>1, ChangeKeepsCache, QueryKeepsCache, WatcherKeepsCache, TimersKeepCache, RefreshKeepsCache,
       RespondKeepsCache, DestroyKeepsCache DEF CacheNext, Execute, Gone
<1>2. CacheInv => SnapshotsServe
  BY DEF CacheInv
<1> QED
  BY <1>1, <1>2, CacheInitially, PTL DEF CacheSpec

-----------------------------------------------------------------------------
(***************************************************************************)
(* The parameter nodes: every request that came waits in the queue of its  *)
(* kind, is served by the executor or was answered, and in one place only. *)
(***************************************************************************)
InHand == IF Resting THEN {} ELSE {executor.cmd.request}
WaitingApart ==
  /\ \A k, l \in ParamKinds : \A i \in DOMAIN param_queue[k], j \in DOMAIN param_queue[l] :
       param_queue[k][i].request = param_queue[l][j].request => k = l /\ i = j
  /\ \A k \in ParamKinds : \A i \in DOMAIN param_queue[k] : param_queue[k][i].task.kind = k
OnePlace ==
  /\ Waiting \cap Sent = {} /\ InHand \cap (Waiting \cup Sent) = {}
  /\ Waiting \cup Sent \cup InHand = 1 .. arrived
ParamInv == ParamTypeOK /\ WaitingApart /\ OnePlace /\ AnsweredOnce /\ SetTells

LEMMA ServingIs ==
  ASSUME ParamTypeOK, executor.step \in {"wait", "list", "types", "getAll", "get", "describe", "set", "load"}
  PROVE  /\ Serving /\ ~Resting
         /\ executor.kind \in ParamKinds /\ executor.step \in StepsOf(executor.kind)
         /\ executor.cmd \in ParamCommands /\ executor.cmd.task.kind = executor.kind
         /\ executor.names \in SUBSET Params
         /\ executor.cmd.task \in ParamTasks /\ executor.cmd.task.params \in SUBSET Params
<1>1. ~Resting
  BY DEF Resting, ParamIdle, Draining
<1>2. Serving
  BY <1>1 DEF ParamTypeOK
<1>3. PICK k \in ParamKinds : \E step \in StepsOf(k), cmd \in ParamCommands, names \in SUBSET Params :
        /\ executor = [step |-> step, kind |-> k, cmd |-> cmd, names |-> names]
        /\ cmd.task.kind = k
  BY <1>2 DEF Serving
<1>4. /\ executor.kind = k /\ executor.step \in StepsOf(k) /\ executor.cmd \in ParamCommands
      /\ executor.cmd.task.kind = k /\ executor.names \in SUBSET Params
  BY <1>3
<1>5. executor.cmd.task \in ParamTasks /\ executor.cmd.task.params \in SUBSET Params
  BY <1>4, ParamAssumption DEF ParamCommands
<1> QED
  BY <1>1, <1>2, <1>4, <1>5

\* One more answer, for a command that had none.
LEMMA AnswerAdds ==
  ASSUME ParamTypeOK, AnsweredOnce, SetTells,
         NEW cmd \in ParamCommands, cmd.request \notin Sent,
         NEW ok \in BOOLEAN, NEW found \in BOOLEAN, NEW names \in SUBSET Params,
         AnswerParam(cmd, ok, found, names), applied \subseteq applied',
         cmd.task.kind = "set" /\ found => cmd.request \in applied'
  PROVE  /\ param_answers' \in
              Seq([request : 1 .. MaxParamTasks, kind : ParamKinds, ok : BOOLEAN, found : BOOLEAN, names : SUBSET Params])
         /\ Sent' = Sent \cup {cmd.request}
         /\ \A i, j \in DOMAIN param_answers' : param_answers'[i].request = param_answers'[j].request => i = j
         /\ SetTells'
<1> DEFINE r == cmd.request
           new == [request |-> r, kind |-> cmd.task.kind, ok |-> ok, found |-> found, names |-> names]
           T == [request : 1 .. MaxParamTasks, kind : ParamKinds, ok : BOOLEAN, found : BOOLEAN, names : SUBSET Params]
<1>1. cmd.task.kind \in ParamKinds /\ r \in 1 .. MaxParamTasks
  BY ParamAssumption DEF ParamCommands
<1>2. new \in T /\ param_answers \in Seq(T) /\ param_answers' = Append(param_answers, new)
  BY <1>1 DEF ParamTypeOK, AnswerParam
<1>new. new.request = r /\ new.kind = cmd.task.kind /\ new.found = found
  OBVIOUS
<1>T. T = [request : 1 .. MaxParamTasks, kind : ParamKinds, ok : BOOLEAN, found : BOOLEAN, names : SUBSET Params]
  OBVIOUS
<1> HIDE DEF new, T
<1>4. /\ param_answers' \in Seq(T) /\ Len(param_answers') = Len(param_answers) + 1 /\ Len(param_answers) \in Nat
      /\ \A i \in 1 .. Len(param_answers) : param_answers'[i] = param_answers[i]
      /\ param_answers'[Len(param_answers) + 1] = new
      /\ DOMAIN param_answers = 1 .. Len(param_answers)
      /\ DOMAIN param_answers' = 1 .. Len(param_answers) + 1
  BY <1>2
<1>7. Sent' = Sent \cup {r}
  BY <1>4, <1>new DEF Sent
<1>10. \A i, j \in DOMAIN param_answers' : param_answers'[i].request = param_answers'[j].request => i = j
  <2>1. \A i \in DOMAIN param_answers : param_answers[i].request # r
    BY DEF Sent
  <2> QED
    BY <1>4, <1>new, <2>1 DEF AnsweredOnce
<1>11. SetTells'
  <2>1. ASSUME NEW i \in DOMAIN param_answers', param_answers'[i].kind = "set", param_answers'[i].found
        PROVE  param_answers'[i].request \in applied'
    <3>1. CASE i = Len(param_answers) + 1
      <4>1. param_answers'[i] = new
        BY <1>4, <3>1
      <4>2. cmd.task.kind = "set" /\ found
        BY <4>1, <2>1, <1>new
      <4> QED
        BY <4>1, <4>2, <1>new
    <3>2. CASE i # Len(param_answers) + 1
      <4>1. i \in DOMAIN param_answers /\ param_answers'[i] = param_answers[i]
        BY <1>4, <3>2
      <4> QED
        BY <4>1, <2>1 DEF SetTells
    <3> QED
      BY <3>1, <3>2
  <2> QED
    BY <2>1 DEF SetTells
<1> QED
  BY <1>4, <1>7, <1>10, <1>11, <1>T

\* An answer for the command in hand.
LEMMA AnswerKeeps ==
  ASSUME ParamInv, executor.step \in {"wait", "list", "types", "getAll", "get", "describe", "set", "load"},
         NEW ok \in BOOLEAN, NEW found \in BOOLEAN, NEW names \in SUBSET Params,
         AnswerParam(executor.cmd, ok, found, names),
         UNCHANGED <<param_queue, arrived>>,
         parameter_clients_' \in BOOLEAN, services_up' \in BOOLEAN, declared' \in SUBSET Params,
         late' \in SUBSET (1 .. arrived), applied' \in SUBSET (1 .. arrived), applied \subseteq applied',
         executor.kind = "set" /\ found => executor.cmd.request \in applied'
  PROVE  ParamInv'
<1>1. /\ ~Resting /\ executor.kind \in ParamKinds /\ executor.cmd.task.kind = executor.kind
      /\ executor.cmd \in ParamCommands
  BY ServingIs DEF ParamInv
<1>2. executor' = Draining(executor.kind) /\ Resting'
  BY <1>1 DEF AnswerParam, Resting
<1>3. InHand = {executor.cmd.request} /\ InHand' = {}
  BY <1>1, <1>2 DEF InHand
<1>4. /\ param_answers' \in
           Seq([request : 1 .. MaxParamTasks, kind : ParamKinds, ok : BOOLEAN, found : BOOLEAN, names : SUBSET Params])
      /\ Sent' = Sent \cup {executor.cmd.request}
      /\ \A i, j \in DOMAIN param_answers' : param_answers'[i].request = param_answers'[j].request => i = j
      /\ SetTells'
  <2>1. executor.cmd.request \notin Sent
    BY <1>3 DEF ParamInv, OnePlace
  <2> QED
    BY <1>1, <2>1, AnswerAdds DEF ParamInv
<1>5. ParamTypeOK'
  BY <1>2, <1>4 DEF ParamInv, ParamTypeOK
<1>6. Waiting' = Waiting /\ WaitingApart'
  BY DEF Waiting, ParamInv, WaitingApart
<1>7. OnePlace'
  BY <1>3, <1>4, <1>6 DEF OnePlace, ParamInv
<1> QED
  BY <1>4, <1>5, <1>6, <1>7 DEF ParamInv, AnsweredOnce, OnePlace

\* Another step for it.
LEMMA GoOnKeeps ==
  ASSUME ParamInv, executor.step \in {"wait", "list", "types", "getAll", "get", "describe", "set", "load"},
         NEW step \in StepsOf(executor.kind), NEW names \in SUBSET Params,
         GoOn(step, names),
         UNCHANGED <<param_queue, arrived, services_up, declared, late, applied>>,
         parameter_clients_' \in BOOLEAN
  PROVE  ParamInv'
<1>1. PICK k \in ParamKinds, old \in StepsOf(executor.kind), cmd \in ParamCommands, listed \in SUBSET Params :
        /\ executor = [step |-> old, kind |-> k, cmd |-> cmd, names |-> listed]
        /\ cmd.task.kind = k
  BY ServingIs DEF ParamInv, Serving
<1>2. executor' = [step |-> step, kind |-> k, cmd |-> cmd, names |-> names] /\ executor.kind = k
  BY <1>1 DEF GoOn
<1>3. Serving'
  BY <1>1, <1>2 DEF Serving, StepsOf, FirstCall
<1>4. ~Resting /\ ~Resting' /\ executor'.cmd = executor.cmd
  <2>1. \A kind : step # "idle" /\ step # "drain"
    BY <1>1, <1>2, ParamAssumption DEF StepsOf, FirstCall
  <2>2. executor'.step = step /\ executor'.cmd = cmd /\ executor.cmd = cmd
    BY <1>1, <1>2
  <2>3. ParamIdle.step = "idle" /\ \A kind : Draining(kind).step = "drain"
    BY DEF ParamIdle, Draining
  <2>4. executor' # ParamIdle /\ \A kind \in ParamKinds : executor' # Draining(kind)
    BY <2>1, <2>2, <2>3
  <2>5. ~Resting'
    BY <2>4 DEF Resting, ParamIdle, Draining
  <2> QED
    BY <2>2, <2>5, ServingIs DEF ParamInv
<1>5. UNCHANGED <<param_answers, Waiting, Sent, InHand>>
  BY <1>4 DEF GoOn, Waiting, Sent, InHand
<1>6. ParamTypeOK'
  BY <1>3, <1>5 DEF ParamInv, ParamTypeOK
<1>7. OnePlace'
  BY <1>5 DEF ParamInv, OnePlace
<1>8. WaitingApart' /\ AnsweredOnce' /\ SetTells'
  BY <1>5 DEF ParamInv, WaitingApart, AnsweredOnce, SetTells
<1> QED
  BY <1>6, <1>7, <1>8 DEF ParamInv

\* Steps of the other node and of the poll timers.
LEMMA OutsideKeeps ==
  ASSUME ParamInv, UNCHANGED <<param_queue, arrived, param_answers>>,
         (executor' = executor) \/ (Resting /\ Resting'),
         parameter_clients_' \in BOOLEAN, services_up' \in BOOLEAN, declared' \in SUBSET Params,
         late' \in SUBSET (1 .. arrived), applied' \in SUBSET (1 .. arrived), applied \subseteq applied'
  PROVE  ParamInv'
<1>1. (Resting' <=> Resting) /\ (executor' = executor => Serving' = Serving)
  BY DEF Resting, Serving
<1>2. UNCHANGED <<Waiting, Sent>> /\ InHand' = InHand
  BY <1>1 DEF Waiting, Sent, InHand
<1>3. ParamTypeOK'
  BY <1>1 DEF ParamInv, ParamTypeOK
<1>4. OnePlace'
  BY <1>2 DEF ParamInv, OnePlace
<1>5. WaitingApart' /\ AnsweredOnce'
  BY <1>2 DEF ParamInv, WaitingApart, AnsweredOnce
<1>6. SetTells'
  BY Zenon DEF ParamInv, SetTells
<1> QED
  BY <1>6, <1>3, <1>4, <1>5 DEF ParamInv

LEMMA ParamReceive ==
  ASSUME ParamInv, NEW t \in ParamTasks, ReceiveParamTask(t)
  PROVE  ParamInv'
<1> DEFINE kind == t.kind
           new == [request |-> arrived + 1, task |-> t]
<1>1. /\ kind \in ParamKinds /\ arrived \in Nat /\ arrived + 1 \in 1 .. MaxParamTasks /\ arrived' = arrived + 1
      /\ new \in ParamCommands
  BY ParamAssumption DEF ReceiveParamTask, ParamInv, ParamTypeOK, ParamCommands
<1>2. param_queue \in [ParamKinds -> Seq(ParamCommands)]
  BY DEF ParamInv, ParamTypeOK
<1>3. /\ param_queue' \in [ParamKinds -> Seq(ParamCommands)]
      /\ param_queue'[kind] = Append(param_queue[kind], new)
      /\ \A k \in ParamKinds \ {kind} : param_queue'[k] = param_queue[k]
  <2>1. param_queue' = [param_queue EXCEPT ![kind] = Append(@, new)]
    BY DEF ReceiveParamTask
  <2> HIDE DEF new, kind
  <2> QED
    BY <2>1, <1>1, <1>2
<1>new. new.request = arrived + 1 /\ new.task.kind = kind
  OBVIOUS
<1> HIDE DEF new, kind
<1>4. /\ Len(param_queue[kind]) \in Nat /\ DOMAIN param_queue[kind] = 1 .. Len(param_queue[kind])
      /\ DOMAIN param_queue'[kind] = DOMAIN param_queue[kind] \cup {Len(param_queue[kind]) + 1}
      /\ \A i \in DOMAIN param_queue[kind] : param_queue'[kind][i] = param_queue[kind][i]
      /\ param_queue'[kind][Len(param_queue[kind]) + 1] = new
  BY <1>1, <1>2, <1>3
<1>5. UNCHANGED <<executor, parameter_clients_, services_up, declared, late, applied, param_answers>>
  BY DEF ReceiveParamTask, worldVars
<1>6. ParamTypeOK'
  <2>1. arrived' \in 0 .. MaxParamTasks /\ late' \in SUBSET (1 .. arrived') /\ applied' \in SUBSET (1 .. arrived')
    BY <1>1, <1>5 DEF ParamInv, ParamTypeOK
  <2>2. Resting' = Resting /\ Serving' = Serving
    BY <1>5 DEF Resting, Serving
  <2> QED
    BY <1>3, <1>5, <2>1, <2>2 DEF ParamInv, ParamTypeOK
<1>7. Waiting' = Waiting \cup {arrived + 1}
  <2>2. ASSUME NEW r \in Waiting PROVE r \in Waiting'
    <3>p. PICK k \in ParamKinds : \E i \in DOMAIN param_queue[k] : r = param_queue[k][i].request
      BY <2>2 DEF Waiting
    <3>1. PICK i \in DOMAIN param_queue[k] : r = param_queue[k][i].request
      BY <3>p
    <3>2. i \in DOMAIN param_queue'[k] /\ param_queue'[k][i] = param_queue[k][i]
      BY <1>3, <1>4
    <3> QED
      BY <3>1, <3>2 DEF Waiting
  <2>3. arrived + 1 \in Waiting'
    <3>1. Len(param_queue[kind]) + 1 \in DOMAIN param_queue'[kind] /\ param_queue'[kind][Len(param_queue[kind]) + 1].request = arrived + 1
      BY <1>4, <1>new
    <3> QED
      BY <1>1, <3>1 DEF Waiting
  <2>4. ASSUME NEW r \in Waiting', r # arrived + 1 PROVE r \in Waiting
    <3>p. PICK k \in ParamKinds : \E i \in DOMAIN param_queue'[k] : r = param_queue'[k][i].request
      BY <2>4 DEF Waiting
    <3>1. PICK i \in DOMAIN param_queue'[k] : r = param_queue'[k][i].request
      BY <3>p
    <3>2. i \in DOMAIN param_queue[k] /\ param_queue'[k][i] = param_queue[k][i]
      BY <1>3, <1>4, <1>new, <2>4, <3>1
    <3> QED
      BY <3>1, <3>2 DEF Waiting
  <2> QED
    BY <2>2, <2>3, <2>4
<1>8. Sent' = Sent /\ InHand' = InHand
  BY <1>5 DEF Sent, InHand, Resting
<1>9. Waiting \cup Sent \cup InHand = 1 .. arrived /\ arrived + 1 \notin 1 .. arrived
  BY <1>1 DEF ParamInv, OnePlace
<1>10. OnePlace'
  <2>1. 1 .. arrived' = (1 .. arrived) \cup {arrived + 1}
    BY <1>1
  <2> QED
    BY <1>7, <1>8, <1>9, <2>1 DEF ParamInv, OnePlace
<1>11. WaitingApart'
  <2>1. \A k \in ParamKinds : \A i \in DOMAIN param_queue[k] : param_queue[k][i].request # arrived + 1
    BY <1>9 DEF Waiting
  <2>2. \A k \in ParamKinds : \A i \in DOMAIN param_queue'[k] :
          \/ i \in DOMAIN param_queue[k] /\ param_queue'[k][i] = param_queue[k][i]
          \/ k = kind /\ i = Len(param_queue[kind]) + 1 /\ param_queue'[k][i] = new
    BY <1>3, <1>4
  <2> QED
    BY <1>new, <2>1, <2>2 DEF ParamInv, WaitingApart
<1>12. AnsweredOnce'
  BY <1>5, <1>8, <1>9, <1>1 DEF ParamInv, AnsweredOnce
<1>13. SetTells'
  BY <1>5, Zenon DEF ParamInv, SetTells
<1> QED
  BY <1>6, <1>10, <1>11, <1>12, <1>13 DEF ParamInv

\* A queue without its first command.
LEMMA QueueTaken ==
  ASSUME ParamInv, NEW kind \in ParamKinds, param_queue[kind] # <<>>,
         param_queue' = [param_queue EXCEPT ![kind] = Tail(@)]
  PROVE  /\ Head(param_queue[kind]) \in ParamCommands /\ Head(param_queue[kind]).task.kind = kind
         /\ param_queue' \in [ParamKinds -> Seq(ParamCommands)]
         /\ Waiting = Waiting' \cup {Head(param_queue[kind]).request}
         /\ Head(param_queue[kind]).request \notin Waiting'
         /\ WaitingApart'
<1> DEFINE q == param_queue[kind]
           cmd == Head(q)
<1>1. param_queue \in [ParamKinds -> Seq(ParamCommands)] /\ q \in Seq(ParamCommands) /\ q # <<>>
  BY DEF ParamInv, ParamTypeOK
<1>2. /\ Len(q) \in Nat \ {0} /\ DOMAIN q = 1 .. Len(q) /\ cmd = q[1] /\ cmd \in ParamCommands
      /\ Tail(q) \in Seq(ParamCommands) /\ DOMAIN Tail(q) = 1 .. Len(q) - 1
      /\ \A i \in 1 .. Len(q) - 1 : Tail(q)[i] = q[i + 1]
  <2>1. Len(q) \in Nat \ {0} /\ DOMAIN q = 1 .. Len(q) /\ cmd = q[1] /\ Tail(q) \in Seq(ParamCommands) /\ Len(Tail(q)) = Len(q) - 1
    BY <1>1, HeadTailProperties, EmptySeq, LenProperties
  <2>2. DOMAIN Tail(q) = 1 .. Len(q) - 1
    BY <2>1, LenProperties
  <2> QED
    BY <1>1, <2>1, <2>2, HeadTailProperties, ElementOfSeq
<1>3. /\ param_queue' \in [ParamKinds -> Seq(ParamCommands)]
      /\ param_queue'[kind] = Tail(q)
      /\ \A k \in ParamKinds \ {kind} : param_queue'[k] = param_queue[k]
  BY <1>1, <1>2
<1>q. q = param_queue[kind] /\ cmd = Head(param_queue[kind])
  OBVIOUS
<1> HIDE DEF q, cmd
<1>4. cmd.task.kind = kind
  BY <1>2, <1>q DEF ParamInv, WaitingApart
<1>8. Waiting = Waiting' \cup {cmd.request} /\ cmd.request \notin Waiting'
  <2>1. ASSUME NEW r \in Waiting' PROVE r \in Waiting /\ r # cmd.request
    <3>p. PICK k \in ParamKinds : \E i \in DOMAIN param_queue'[k] : r = param_queue'[k][i].request
      BY <2>1 DEF Waiting
    <3>1. PICK i \in DOMAIN param_queue'[k] : r = param_queue'[k][i].request
      BY <3>p
    <3>2. CASE k = kind
      <4>1. i + 1 \in DOMAIN q /\ param_queue'[k][i] = q[i + 1] /\ i + 1 # 1 /\ 1 \in DOMAIN q
        BY <1>2, <1>3, <3>2
      <4> QED
        BY <3>1, <3>2, <4>1, <1>2, <1>q DEF Waiting, ParamInv, WaitingApart
    <3>3. CASE k # kind
      <4>1. param_queue'[k] = param_queue[k] /\ 1 \in DOMAIN q
        BY <1>2, <1>3, <3>3
      <4> QED
        BY <3>1, <3>3, <4>1, <1>2, <1>q DEF Waiting, ParamInv, WaitingApart
    <3> QED
      BY <3>2, <3>3
  <2>2. cmd.request \in Waiting
    BY <1>2, <1>q DEF Waiting
  <2>3. ASSUME NEW r \in Waiting, r # cmd.request PROVE r \in Waiting'
    <3>p. PICK k \in ParamKinds : \E i \in DOMAIN param_queue[k] : r = param_queue[k][i].request
      BY <2>3 DEF Waiting
    <3>1. PICK i \in DOMAIN param_queue[k] : r = param_queue[k][i].request
      BY <3>p
    <3>2. CASE k = kind
      <4>1. i # 1 /\ i \in 1 .. Len(q)
        BY <1>2, <1>q, <2>3, <3>1, <3>2
      <4>2. i - 1 \in DOMAIN param_queue'[k] /\ param_queue'[k][i - 1] = q[i]
        <5>1. i - 1 \in 1 .. Len(q) - 1 /\ (i - 1) + 1 = i
          BY <1>2, <4>1
        <5> QED
          BY <1>2, <1>3, <3>2, <5>1
      <4> QED
        BY <3>1, <3>2, <4>2, <1>q DEF Waiting
    <3>3. CASE k # kind
      BY <1>3, <3>1, <3>3 DEF Waiting
    <3> QED
      BY <3>2, <3>3
  <2> QED
    BY <2>1, <2>2, <2>3
<1>10. WaitingApart'
  <2> DEFINE old(k, i) == IF k = kind THEN i + 1 ELSE i
  <2>1. \A k \in ParamKinds : \A i \in DOMAIN param_queue'[k] :
          old(k, i) \in DOMAIN param_queue[k] /\ param_queue'[k][i] = param_queue[k][old(k, i)]
    BY <1>2, <1>3, <1>q
  <2>2. \A k \in ParamKinds : \A i, j \in DOMAIN param_queue'[k] : old(k, i) = old(k, j) => i = j
    <3>1. \A k \in ParamKinds : \A i, j \in DOMAIN param_queue'[k] : k = kind => i \in Nat /\ j \in Nat
      BY <1>2, <1>3
    <3> QED
      BY <3>1
  <2> HIDE DEF old
  <2> QED
    BY <2>1, <2>2 DEF ParamInv, WaitingApart
<1> QED
  BY <1>2, <1>3, <1>4, <1>8, <1>10, <1>q

\* The first command of a queue comes into the executor's hands.
LEMMA Taken ==
  ASSUME ParamInv, NEW kind \in ParamKinds, param_queue[kind] # <<>>, Resting,
         param_queue' = [param_queue EXCEPT ![kind] = Tail(@)],
         executor' = [step |-> "wait", kind |-> kind, cmd |-> Head(param_queue[kind]), names |-> {}],
         UNCHANGED <<parameter_clients_, services_up, declared, late, applied, arrived, param_answers>>
  PROVE  ParamInv'
<1> DEFINE cmd == Head(param_queue[kind])
<1>1. /\ cmd \in ParamCommands /\ cmd.task.kind = kind
      /\ param_queue' \in [ParamKinds -> Seq(ParamCommands)]
      /\ Waiting = Waiting' \cup {cmd.request} /\ cmd.request \notin Waiting' /\ WaitingApart'
  BY QueueTaken
<1>2. /\ executor'.step = "wait" /\ executor'.cmd = cmd
      /\ executor' = [step |-> "wait", kind |-> kind, cmd |-> cmd, names |-> {}]
  OBVIOUS
<1> HIDE DEF cmd
<1>3. "wait" \in StepsOf(kind) /\ {} \in SUBSET Params
  BY DEF StepsOf
<1>4. Serving' /\ ~Resting'
  <2>1. Serving'
    BY <1>1, <1>2, <1>3 DEF Serving, StepsOf, FirstCall
  <2>2. ParamIdle.step = "idle" /\ \A k \in ParamKinds : Draining(k).step = "drain"
    BY DEF ParamIdle, Draining
  <2>3. executor' # ParamIdle /\ \A k \in ParamKinds : executor' # Draining(k)
    BY <2>2, <1>2
  <2> QED
    BY <2>1, <2>3 DEF Resting, ParamIdle, Draining
<1>5. ParamTypeOK'
  BY <1>1, <1>4 DEF ParamInv, ParamTypeOK
<1>6. Sent' = Sent /\ InHand = {} /\ InHand' = {cmd.request}
  BY <1>4, <1>2 DEF Sent, InHand
<1>7. OnePlace'
  BY <1>1, <1>6 DEF ParamInv, OnePlace
<1>8. AnsweredOnce'
  BY <1>6 DEF ParamInv, AnsweredOnce
<1>9. SetTells'
  BY Zenon DEF ParamInv, SetTells
<1> QED
  BY <1>1, <1>5, <1>7, <1>8, <1>9 DEF ParamInv

\* An invalid command is answered out of its queue.
LEMMA Refused ==
  ASSUME ParamInv, NEW kind \in ParamKinds, param_queue[kind] # <<>>, Resting,
         param_queue' = [param_queue EXCEPT ![kind] = Tail(@)],
         SendParamError(Head(param_queue[kind])),
         UNCHANGED <<parameter_clients_, services_up, declared, late, applied, arrived>>
  PROVE  ParamInv'
<1> DEFINE cmd == Head(param_queue[kind])
<1>1. /\ cmd \in ParamCommands /\ cmd.task.kind = kind
      /\ param_queue' \in [ParamKinds -> Seq(ParamCommands)]
      /\ Waiting = Waiting' \cup {cmd.request} /\ cmd.request \notin Waiting' /\ WaitingApart'
  BY QueueTaken
<1>2. AnswerParam(cmd, FALSE, FALSE, {}) /\ {} \in SUBSET Params
  BY DEF SendParamError
<1> HIDE DEF cmd
<1>3. cmd.request \notin Sent
  BY <1>1 DEF ParamInv, OnePlace
<1>4. /\ param_answers' \in
           Seq([request : 1 .. MaxParamTasks, kind : ParamKinds, ok : BOOLEAN, found : BOOLEAN, names : SUBSET Params])
      /\ Sent' = Sent \cup {cmd.request}
      /\ \A i, j \in DOMAIN param_answers' : param_answers'[i].request = param_answers'[j].request => i = j
      /\ SetTells'
  BY <1>1, <1>2, <1>3, AnswerAdds DEF ParamInv
<1>5. Resting'
  BY <1>1, <1>2 DEF AnswerParam, Resting
<1>6. ParamTypeOK'
  BY <1>1, <1>4, <1>5 DEF ParamInv, ParamTypeOK
<1>7. InHand = {} /\ InHand' = {}
  BY <1>5 DEF InHand
<1>8. OnePlace'
  BY <1>1, <1>4, <1>7 DEF ParamInv, OnePlace
<1> QED
  BY <1>1, <1>4, <1>6, <1>8 DEF ParamInv, AnsweredOnce, OnePlace

LEMMA ParamDequeue ==
  ASSUME ParamInv, NEW kind \in ParamKinds, Dequeue(kind)
  PROVE  ParamInv'
<1>1. Resting /\ UNCHANGED <<parameter_clients_, services_up, declared, late, applied, arrived>>
  BY DEF Dequeue, Resting, worldVars
<1>2. CASE param_queue[kind] = <<>>
  <2>1. Resting' /\ UNCHANGED <<param_queue, param_answers>>
    BY <1>2 DEF Dequeue, Resting
  <2> QED
    BY <1>1, <2>1, OutsideKeeps DEF ParamInv, ParamTypeOK
<1>3. CASE param_queue[kind] # <<>>
  <2> DEFINE cmd == Head(param_queue[kind])
  <2>1. param_queue' = [param_queue EXCEPT ![kind] = Tail(@)]
    BY <1>3 DEF Dequeue
  <2>2. CASE cmd.task.valid
    <3>1. executor' = [step |-> "wait", kind |-> kind, cmd |-> cmd, names |-> {}] /\ UNCHANGED param_answers
      BY <1>3, <2>2 DEF Dequeue
    <3> QED
      BY <1>1, <1>3, <2>1, <3>1, Taken
  <2>3. CASE ~cmd.task.valid
    <3>1. SendParamError(cmd)
      BY <1>3, <2>3 DEF Dequeue, RefuseInvalid
    <3> QED
      BY <1>1, <1>3, <2>1, <3>1, Refused
  <2> QED
    BY <2>2, <2>3
<1> QED
  BY <1>2, <1>3

LEMMA ParamWait ==
  ASSUME ParamInv, WaitForService
  PROVE  ParamInv'
<1>1. /\ executor.step = "wait" /\ executor.kind \in ParamKinds
      /\ FirstCall(executor.kind) \in StepsOf(executor.kind)
  BY ServingIs DEF WaitForService, ParamInv, StepsOf
<1>2. /\ parameter_clients_' \in BOOLEAN /\ services_up \in BOOLEAN /\ declared \in SUBSET Params
      /\ late \in SUBSET (1 .. arrived) /\ applied \in SUBSET (1 .. arrived)
  BY DEF WaitForService, ParamInv, ParamTypeOK
<1>3. UNCHANGED <<param_queue, arrived, services_up, declared, late, applied>>
  BY DEF WaitForService, worldVars
<1>4. CASE GoOn(FirstCall(executor.kind), {})
  <2>1. {} \in SUBSET Params
    OBVIOUS
  <2> QED
    BY <1>1, <1>2, <1>3, <1>4, <2>1, GoOnKeeps
<1>5. CASE SendParamError(executor.cmd)
  <2>1. AnswerParam(executor.cmd, FALSE, FALSE, {}) /\ {} \in SUBSET Params
    BY <1>5 DEF SendParamError
  <2> QED
    BY <1>1, <1>2, <1>3, <2>1, AnswerKeeps
<1> QED
  BY <1>4, <1>5 DEF WaitForService

\* What a call leaves alone, and the answers that may follow: an error, or a
\* response that claims nothing was set.
LEMMA CallKeeps ==
  ASSUME ParamInv, NEW step \in {"list", "types", "getAll", "get", "describe"}, Called(step), UNCHANGED <<late, applied>>,
         \/ SendParamError(executor.cmd)
         \/ \E found \in BOOLEAN, names \in SUBSET Params : RespondParam(executor.cmd, found, names)
         \/ \E next \in StepsOf(executor.kind), names \in SUBSET Params : GoOn(next, names)
  PROVE  ParamInv'
<1>1. executor.step = step /\ executor.step # "set" /\ executor.step # "load" /\ executor.step # "wait"
  BY DEF Called
<1>2. executor.step \in {"wait", "list", "types", "getAll", "get", "describe", "set", "load"}
  BY <1>1
<1>3. executor.kind # "set"
  BY <1>1, <1>2, ServingIs DEF ParamInv, StepsOf, FirstCall
<1>4. /\ parameter_clients_' \in BOOLEAN /\ services_up \in BOOLEAN /\ declared \in SUBSET Params
      /\ late \in SUBSET (1 .. arrived) /\ applied \in SUBSET (1 .. arrived)
      /\ UNCHANGED <<param_queue, arrived, services_up, declared, late, applied>>
  BY DEF Called, ParamInv, ParamTypeOK
<1>5. CASE SendParamError(executor.cmd)
  <2>1. AnswerParam(executor.cmd, FALSE, FALSE, {}) /\ {} \in SUBSET Params
    BY <1>5 DEF SendParamError
  <2> QED
    BY <1>2, <1>3, <1>4, <2>1, AnswerKeeps
<1>6. CASE \E found \in BOOLEAN, names \in SUBSET Params : RespondParam(executor.cmd, found, names)
  <2>1. PICK found \in BOOLEAN, names \in SUBSET Params : AnswerParam(executor.cmd, TRUE, found, names)
    BY <1>6 DEF RespondParam
  <2> QED
    BY <1>2, <1>3, <1>4, <2>1, AnswerKeeps
<1>7. CASE \E next \in StepsOf(executor.kind), names \in SUBSET Params : GoOn(next, names)
  BY <1>2, <1>4, <1>7, GoOnKeeps
<1> QED
  BY <1>5, <1>6, <1>7

LEMMA ParamCalls ==
  ASSUME ParamInv, ListParameters \/ GetParameterTypes \/ DumpParameters \/ ReadParameter("get") \/ ReadParameter("describe")
  PROVE  ParamInv'
<1> DEFINE Claims == \E found \in BOOLEAN, names \in SUBSET Params : RespondParam(executor.cmd, found, names)
           Continues == \E next \in StepsOf(executor.kind), names \in SUBSET Params : GoOn(next, names)
<1>1. declared \in SUBSET Params /\ {} \in SUBSET Params
  BY DEF ParamInv, ParamTypeOK
<1>2. CASE ListParameters
  <2>1. Called("list") /\ UNCHANGED <<late, applied>>
    BY <1>2 DEF ListParameters
  <2>2. executor.step = "list"
    BY <2>1 DEF Called
  <2>3. executor.kind \in {"list", "dump"}
    BY <2>2, ServingIs, ParamAssumption DEF ParamInv, StepsOf, FirstCall
  <2>4. SendParamError(executor.cmd) \/ Claims \/ Continues
    <3>1. executor.kind = "dump" => "getAll" \in StepsOf(executor.kind)
      BY DEF StepsOf
    <3>2. executor.kind = "list" => "types" \in StepsOf(executor.kind)
      BY DEF StepsOf
    <3>3. \A names \in SUBSET Params : RespondParam(executor.cmd, TRUE, names) => Claims
      OBVIOUS
    <3> QED
      BY <1>1, <1>2, <2>3, <3>1, <3>2, <3>3 DEF ListParameters
  <2> QED
    BY <2>1, <2>4, CallKeeps
<1>3. CASE GetParameterTypes
  <2>1. Called("types") /\ UNCHANGED <<late, applied>>
    BY <1>3 DEF GetParameterTypes
  <2>2. executor.step = "types"
    BY <2>1 DEF Called
  <2>3. executor.names \in SUBSET Params
    BY <2>2, ServingIs DEF ParamInv
  <2>4. SendParamError(executor.cmd) \/ Claims
    BY <1>3, <2>3 DEF GetParameterTypes
  <2> QED
    BY <2>1, <2>4, CallKeeps
<1>4. CASE DumpParameters
  <2>1. Called("getAll") /\ UNCHANGED <<late, applied>>
    BY <1>4 DEF DumpParameters
  <2>2. executor.step = "getAll"
    BY <2>1 DEF Called
  <2>3. executor.names \cap declared \in SUBSET Params
    BY <1>1, <2>2, ServingIs DEF ParamInv
  <2>4. SendParamError(executor.cmd) \/ Claims
    BY <1>1, <1>4, <2>3 DEF DumpParameters
  <2> QED
    BY <2>1, <2>4, CallKeeps
<1>5. ASSUME NEW step \in {"get", "describe"}, ReadParameter(step) PROVE ParamInv'
  <2>1. Called(step) /\ UNCHANGED <<late, applied>>
    BY <1>5 DEF ReadParameter
  <2>2. executor.cmd.task.params \cap declared \in SUBSET Params /\ (executor.cmd.task.params \subseteq declared) \in BOOLEAN
    BY <1>1
  <2>4. SendParamError(executor.cmd) \/ Claims
    BY <1>1, <1>5, <2>2 DEF ReadParameter
  <2> QED
    BY <2>1, <2>4, CallKeeps
<1> QED
  BY <1>2, <1>3, <1>4, <1>5

\* A call that sets parameters is told successful only if the other node has
\* set them.
LEMMA CallSets ==
  ASSUME ParamInv, executor.step \in {"set", "load"},
         Called("set") \/ Called("load"), CallSetParameters
  PROVE  ParamInv'
<1> DEFINE r == executor.cmd.request
<1>1. /\ executor.step \in {"wait", "list", "types", "getAll", "get", "describe", "set", "load"}
      /\ executor.kind \in {"set", "load"}
  <2>1. executor.step \in {"wait", "list", "types", "getAll", "get", "describe", "set", "load"}
    OBVIOUS
  <2> QED
    BY <2>1, ServingIs, ParamAssumption DEF ParamInv, StepsOf, FirstCall
<1>2. r \in 1 .. arrived
  <2>1. ~Resting
    BY <1>1, ServingIs DEF ParamInv
  <2> QED
    BY <2>1 DEF ParamInv, OnePlace, InHand
<1>3. executor.cmd.task.params \in SUBSET Params /\ {} \in SUBSET Params
  BY <1>1, ServingIs DEF ParamInv
<1>4. /\ parameter_clients_' \in BOOLEAN /\ services_up' \in BOOLEAN /\ declared' \in SUBSET Params
      /\ late \in SUBSET (1 .. arrived) /\ applied \in SUBSET (1 .. arrived)
      /\ UNCHANGED <<param_queue, arrived>>
  BY DEF Called, ParamInv, ParamTypeOK
<1>5. late' \in SUBSET (1 .. arrived) /\ applied' \in SUBSET (1 .. arrived) /\ applied \subseteq applied'
  BY <1>2, <1>4 DEF CallSetParameters
<1>6. CASE Result(TRUE, FALSE) /\ r \in applied'
  <2>1. \E names \in SUBSET Params : AnswerParam(executor.cmd, TRUE, TRUE, names)
    BY <1>3, <1>6 DEF Result, SetResult, LoadResult, RespondParam
  <2> QED
    BY <1>1, <1>4, <1>5, <1>6, <2>1, AnswerKeeps
<1>7. CASE Result(FALSE, FALSE)
  <2>1. \E names \in SUBSET Params : AnswerParam(executor.cmd, TRUE, FALSE, names)
    BY <1>3, <1>7 DEF Result, SetResult, LoadResult, RespondParam
  <2> QED
    BY <1>1, <1>4, <1>5, <2>1, AnswerKeeps
<1>8. CASE Result(FALSE, TRUE)
  <2>1. CASE executor.kind = "set"
    <3>1. AnswerParam(executor.cmd, TRUE, FALSE, {})
      BY <1>8, <2>1 DEF Result, SetResult, RespondParam
    <3> QED
      BY <1>1, <1>3, <1>4, <1>5, <3>1, AnswerKeeps
  <2>2. CASE executor.kind = "load"
    <3>1. AnswerParam(executor.cmd, TRUE, TRUE, executor.cmd.task.params) /\ executor.kind # "set"
      BY <1>8, <2>2 DEF Result, LoadResult, RespondParam
    <3> QED
      BY <1>1, <1>3, <1>4, <1>5, <3>1, AnswerKeeps
  <2> QED
    BY <1>1, <2>1, <2>2
<1>9. CASE SendParamError(executor.cmd)
  <2>1. AnswerParam(executor.cmd, FALSE, FALSE, {})
    BY <1>9 DEF SendParamError
  <2> QED
    BY <1>1, <1>3, <1>4, <1>5, <2>1, AnswerKeeps
<1> QED
  BY <1>6, <1>7, <1>8, <1>9 DEF CallSetParameters

LEMMA ParamLoads ==
  ASSUME ParamInv, LoadParameters
  PROVE  ParamInv'
<1>1. Called("load") /\ executor.step = "load"
  BY DEF LoadParameters, Called
<1>2. executor.step \in {"wait", "list", "types", "getAll", "get", "describe", "set", "load"} /\ {} \in SUBSET Params
  BY <1>1
<1>3. executor.kind # "set"
  BY <1>1, <1>2, ServingIs DEF ParamInv, StepsOf, FirstCall
<1>4. /\ parameter_clients_' \in BOOLEAN /\ services_up' \in BOOLEAN /\ declared' \in SUBSET Params
      /\ late \in SUBSET (1 .. arrived) /\ applied \in SUBSET (1 .. arrived)
      /\ UNCHANGED <<param_queue, arrived>>
  BY <1>1 DEF Called, ParamInv, ParamTypeOK
<1>5. CASE SendParamError(executor.cmd) /\ UNCHANGED <<late, applied>>
  <2>1. AnswerParam(executor.cmd, FALSE, FALSE, {})
    BY <1>5 DEF SendParamError
  <2> QED
    BY <1>2, <1>3, <1>4, <1>5, <2>1, AnswerKeeps
<1>6. CASE RespondParam(executor.cmd, TRUE, {}) /\ UNCHANGED <<late, applied>>
  <2>1. AnswerParam(executor.cmd, TRUE, TRUE, {})
    BY <1>6 DEF RespondParam
  <2> QED
    BY <1>2, <1>3, <1>4, <1>6, <2>1, AnswerKeeps
<1>7. CASE CallSetParameters
  BY <1>1, <1>7, CallSets
<1> QED
  BY <1>5, <1>6, <1>7 DEF LoadParameters

\* The parameter nodes answer what they were asked, once, and truly.
THEOREM ParamSafety == ParamSpec => []ParamAnswersTell
<1>1. ParamInit => ParamInv
  <2> SUFFICES ASSUME ParamInit PROVE ParamInv
    OBVIOUS
  <2>1. Resting /\ arrived = 0 /\ param_answers = <<>> /\ DOMAIN param_answers = {}
    BY DEF ParamInit, Resting
  <2>2. \A k \in ParamKinds : param_queue[k] = <<>> /\ DOMAIN param_queue[k] = {}
    BY DEF ParamInit
  <2>3. Waiting = {} /\ Sent = {} /\ InHand = {} /\ 1 .. arrived = {}
    BY <2>1, <2>2 DEF Waiting, Sent, InHand
  <2>4. ParamTypeOK
    <3>1. param_queue \in [ParamKinds -> Seq(ParamCommands)] /\ param_answers \in
            Seq([request : 1 .. MaxParamTasks, kind : ParamKinds, ok : BOOLEAN, found : BOOLEAN, names : SUBSET Params])
      BY DEF ParamInit
    <3>2. /\ parameter_clients_ \in BOOLEAN /\ services_up \in BOOLEAN /\ declared \in SUBSET Params
          /\ late \in SUBSET (1 .. arrived) /\ applied \in SUBSET (1 .. arrived)
      BY DEF ParamInit
    <3>3. arrived \in 0 .. MaxParamTasks
      BY <2>1, ParamAssumption
    <3> QED
      BY <2>1, <3>1, <3>2, <3>3 DEF ParamTypeOK
  <2>5. WaitingApart
    BY <2>2 DEF WaitingApart
  <2>6. OnePlace /\ AnsweredOnce /\ SetTells
    BY <2>1, <2>3 DEF OnePlace, AnsweredOnce, SetTells
  <2> QED
    BY <2>4, <2>5, <2>6 DEF ParamInv
<1>2. ParamInv /\ [ParamNext]_param_vars => ParamInv'
  <2> SUFFICES ASSUME ParamInv, [ParamNext]_param_vars PROVE ParamInv'
    OBVIOUS
  <2>0. /\ parameter_clients_ \in BOOLEAN /\ services_up \in BOOLEAN /\ declared \in SUBSET Params
        /\ late \in SUBSET (1 .. arrived) /\ applied \in SUBSET (1 .. arrived)
    BY DEF ParamInv, ParamTypeOK
  <2>1. ASSUME NEW t \in ParamTasks, ReceiveParamTask(t) PROVE ParamInv'
    BY <2>1, ParamReceive
  <2>2. CASE NodeComesOrGoes
    BY <2>0, <2>2, OutsideKeeps DEF NodeComesOrGoes
  <2>3. ASSUME NEW p \in Params, NodeDeclares(p) PROVE ParamInv'
    BY <2>0, <2>3, OutsideKeeps DEF NodeDeclares
  <2>4. ASSUME NEW r \in late, NodeIsLate(r) PROVE ParamInv'
    BY <2>0, <2>4, OutsideKeeps DEF NodeIsLate
  <2>5. ASSUME NEW k \in ParamKinds, OnParamTimer(k) PROVE ParamInv'
    <3>1. Resting /\ Resting'
      BY <2>5 DEF OnParamTimer, Resting
    <3> QED
      BY <2>0, <2>5, <3>1, OutsideKeeps DEF OnParamTimer, worldVars
  <2>6. ASSUME NEW k \in ParamKinds, Dequeue(k) PROVE ParamInv'
    BY <2>6, ParamDequeue
  <2>7. CASE WaitForService
    BY <2>7, ParamWait
  <2>8. CASE ListParameters \/ GetParameterTypes \/ DumpParameters \/ ReadParameter("get") \/ ReadParameter("describe")
    BY <2>8, ParamCalls
  <2>9. CASE SetParameter
    <3>1. Called("set") /\ executor.step = "set" /\ CallSetParameters
      BY <2>9 DEF SetParameter, Called
    <3> QED
      BY <3>1, CallSets
  <2>10. CASE LoadParameters
    BY <2>10, ParamLoads
  <2>11. CASE UNCHANGED param_vars
    BY <2>0, <2>11, OutsideKeeps DEF param_vars, worldVars
  <2> QED
    BY <2>1, <2>2, <2>3, <2>4, <2>5, <2>6, <2>7, <2>8, <2>9, <2>10, <2>11 DEF ParamNext, ParamStep
<1>3. ParamInv => ParamAnswersTell
  BY DEF ParamInv, ParamAnswersTell, NoneForgotten, OnePlace, InHand
<1> QED
  BY <1>1, <1>2, <1>3, PTL DEF ParamSpec

-------------------------------------------------------------------------------
(***************************************************************************)
(* Queries: the names of nodes.                                            *)
(***************************************************************************)
LEMMA GreatestIs == ASSUME NEW S \in SUBSET Nat, NEW x \in S, \A y \in S : y <= x PROVE Max(S) = x
<1>1. \E z \in S : \A y \in S : z >= y
  BY SMT
<1>2. Max(S) \in S /\ \A y \in S : Max(S) >= y
  BY <1>1 DEF Max
<1>3. Max(S) \in Nat /\ x \in Nat /\ Max(S) >= x /\ Max(S) <= x
  BY <1>2
<1> QED
  BY <1>3

LEMMA LeastIs == ASSUME NEW S \in SUBSET Nat, NEW x \in S, \A y \in S : x <= y PROVE Min(S) = x
<1>1. \E z \in S : \A y \in S : z <= y
  BY SMT
<1>2. Min(S) \in S /\ \A y \in S : Min(S) <= y
  BY <1>1 DEF Min
<1>3. Min(S) \in Nat /\ x \in Nat /\ Min(S) <= x /\ x <= Min(S)
  BY <1>2
<1> QED
  BY <1>3

\* The namespace as the full name begins with it.
Prefix(n) == IF n.namespace = <<Slash>> THEN <<Slash>> ELSE n.namespace \o <<Slash>>
Pieces(n) == ToSet(n.name) \cup ToSet(n.namespace) \cup {Slash}

LEMMA PrefixFacts ==
  ASSUME NEW n \in Nodes
  PROVE  LET p == Prefix(n)
         IN  /\ n.name \in Seq(Pieces(n)) /\ Len(n.name) \in Nat \ {0} /\ \A i \in 1 .. Len(n.name) : n.name[i] # Slash
             /\ n.namespace \in Seq(Pieces(n))
             /\ p \in Seq(Pieces(n)) /\ Len(p) \in Nat \ {0} /\ p[1] = Slash /\ p[Len(p)] = Slash
             /\ Len(p) = 1 \/ p[2] # Slash
             /\ CleanNamespace(p) = n.namespace
<1> DEFINE S == Pieces(n)
           s == n.namespace
<1>1. ValidNode(n)
  BY QueryAssumption
<1>2. n.name \in Seq(S) /\ s \in Seq(S)
  BY <1>1, SeqMonotonic DEF ValidNode, Pieces
<1>3. n.name # <<>> /\ s # <<>> /\ s[1] = Slash /\ Slash \notin ToSet(n.name) /\ Slash \in S
  BY <1>1 DEF ValidNode, Pieces
<1> HIDE DEF S, s
<1>4. Len(n.name) \in Nat \ {0} /\ Len(s) \in Nat \ {0} /\ DOMAIN n.name = 1 .. Len(n.name)
  BY <1>2, <1>3, EmptySeq, LenProperties
<1>5. \A i \in 1 .. Len(n.name) : n.name[i] # Slash
  BY <1>3, <1>4 DEF ToSet
<1>6. <<Slash>> \in Seq(S) /\ Len(<<Slash>>) = 1 /\ <<Slash>>[1] = Slash
  BY <1>3
<1>7. CASE s = <<Slash>>
  <2>1. Prefix(n) = <<Slash>>
    BY <1>7 DEF Prefix, s
  <2>2. CleanNamespace(<<Slash>>) = <<Slash>>
    BY <1>6 DEF CleanNamespace
  <2> QED
    BY <1>2, <1>4, <1>5, <1>6, <1>7, <2>1, <2>2 DEF S, s
<1>8. CASE s # <<Slash>>
  <2> DEFINE p == s \o <<Slash>>
  <2>1. Prefix(n) = p /\ Len(s) > 1 /\ s[2] # Slash
    BY <1>1, <1>8 DEF Prefix, s, ValidNode
  <2>2. /\ p \in Seq(S) /\ Len(p) = Len(s) + 1
        /\ \A i \in 1 .. Len(s) + 1 : p[i] = IF i <= Len(s) THEN s[i] ELSE <<Slash>>[i - Len(s)]
    BY <1>2, <1>6, ConcatProperties
  <2> HIDE DEF p
  <2>3. p[1] = Slash /\ p[2] # Slash /\ p[Len(p)] = Slash
    BY <1>3, <1>4, <1>6, <2>1, <2>2
  <2>4. SubSeq(p, 1, Len(p) - 1) = s
    <3>1. Len(p) - 1 = Len(s) /\ \A i \in 1 .. Len(s) : p[i] \in S /\ p[i] = s[i]
      BY <1>2, <1>4, <2>2, ElementOfSeq
    <3>2. /\ SubSeq(p, 1, Len(s)) \in Seq(S) /\ Len(SubSeq(p, 1, Len(s))) = Len(s)
          /\ \A i \in 1 .. Len(s) : SubSeq(p, 1, Len(s))[i] = p[i]
      BY <1>4, <3>1, SubSeqProperties
    <3> QED
      BY <1>2, <3>1, <3>2, SeqEqual
  <2>5. CleanNamespace(p) = s
    BY <1>4, <2>2, <2>3, <2>4 DEF CleanNamespace, Last, Front
  <2> QED
    BY <1>2, <1>4, <1>5, <2>1, <2>2, <2>3, <2>5 DEF S, s
<1> QED
  BY <1>7, <1>8

LEMMA FullNameIs == ASSUME NEW n \in Nodes PROVE BuildFullyQualifiedNodeName(n) = Prefix(n) \o n.name
<1> DEFINE m == n.name
           s == n.namespace
           S == Pieces(n)
<1>1. /\ m \in Seq(S) /\ Len(m) \in Nat \ {0} /\ \A i \in 1 .. Len(m) : m[i] # Slash
      /\ s \in Seq(S)
  BY PrefixFacts
<1>2. DOMAIN m = 1 .. Len(m) /\ DOMAIN s = 1 .. Len(s) /\ Len(s) \in Nat
  BY <1>1, LenProperties
<1>3. s = <<Slash>> \/ (Len(s) > 1 /\ s[Len(s)] # Slash)
  BY QueryAssumption DEF ValidNode, Last
<1> DEFINE pieces == {i \in DOMAIN m : m[i] # Slash}
           kept == {i \in DOMAIN s : s[i] # Slash}
           name == IF pieces = {} THEN <<>> ELSE SubSeq(m, Min(pieces), Len(m))
<1>4. BuildFullyQualifiedNodeName(n) = IF kept = {} THEN <<Slash>> \o name ELSE SubSeq(s, 1, Max(kept)) \o <<Slash>> \o name
  BY DEF BuildFullyQualifiedNodeName
<1> HIDE DEF m, s, S
<1>5. name = m
  <2>1. pieces = 1 .. Len(m)
    BY <1>1, <1>2
  <2>2. Min(1 .. Len(m)) = 1
    <3>1. 1 .. Len(m) \in SUBSET Nat /\ 1 \in 1 .. Len(m) /\ \A y \in 1 .. Len(m) : 1 <= y
      BY <1>1
    <3> QED
      BY <3>1, LeastIs
  <2>3. pieces # {} /\ Min(pieces) = 1
    <3> HIDE DEF pieces
    <3>1. 1 \in pieces
      BY <1>1, <2>1
    <3> QED
      BY <2>1, <2>2, <3>1
  <2>4. SubSeq(m, 1, Len(m)) = m
    BY <1>1, SubSeqFull
  <2> QED
    BY <2>3, <2>4
<1> HIDE DEF name
<1>6. CASE s = <<Slash>>
  <2>1. kept = {}
    BY <1>6
  <2> QED
    BY <1>4, <1>5, <1>6, <2>1 DEF Prefix, s, m
<1>7. CASE s # <<Slash>>
  <2>1. Len(s) > 1 /\ Len(s) \in kept
    BY <1>2, <1>3, <1>7
  <2>2. Max(kept) = Len(s)
    <3>1. kept \in SUBSET Nat /\ \A y \in kept : y <= Len(s)
      BY <1>2
    <3> HIDE DEF kept
    <3> QED
      BY <2>1, <3>1, GreatestIs
  <2>3. SubSeq(s, 1, Len(s)) = s
    BY <1>1, SubSeqFull
  <2> QED
    BY <1>4, <1>5, <1>7, <2>1, <2>2, <2>3 DEF Prefix, s, m
<1> QED
  BY <1>6, <1>7

\* The full name of a node, with its leading slash and without, means the node.
LEMMA FullNameMeans ==
  ASSUME NEW n \in Nodes, NEW full \in {BuildFullyQualifiedNodeName(n), Tail(BuildFullyQualifiedNodeName(n))}
  PROVE  CanonicalizeNodeNameAndNamespace(full) = {n}
<1> DEFINE m == n.name
           p == Prefix(n)
           S == Pieces(n)
           f == p \o m
<1>1. /\ m \in Seq(S) /\ Len(m) \in Nat \ {0} /\ \A i \in 1 .. Len(m) : m[i] # Slash
      /\ p \in Seq(S) /\ Len(p) \in Nat \ {0} /\ p[1] = Slash /\ p[Len(p)] = Slash
      /\ Len(p) = 1 \/ p[2] # Slash
      /\ CleanNamespace(p) = n.namespace
  BY PrefixFacts
<1>2. n = [name |-> m, namespace |-> n.namespace]
  BY QueryAssumption DEF ValidNode
<1>3. full \in {f, Tail(f)}
  BY FullNameIs
<1>4. Slash \in S
  BY DEF Pieces
<1> HIDE DEF m, p, S
<1>5. f \in Seq(S) /\ Len(f) = Len(p) + Len(m) /\ \A i \in 1 .. Len(p) + Len(m) : f[i] = IF i <= Len(p) THEN p[i] ELSE m[i - Len(p)]
  BY <1>1, ConcatProperties
<1> HIDE DEF f
<1>6. f # <<>> /\ Head(f) = Slash /\ DOMAIN f = 1 .. Len(f)
  <2>1. f[1] = Slash
    BY <1>1, <1>5
  <2> QED
    BY <1>1, <1>5, <2>1, EmptySeq, LenProperties
<1>7. ASSUME full = Tail(f)
      PROVE  full # <<>> /\ Head(full) # Slash /\ <<Slash>> \o full = f
  <2>1. full \in Seq(S) /\ Len(full) = Len(f) - 1 /\ \A i \in 1 .. Len(full) : full[i] = f[i + 1]
    BY <1>5, <1>6, <1>7, HeadTailProperties
  <2>2. Len(full) >= 1 /\ full # <<>>
    BY <1>1, <1>5, <2>1
  <2>3. full[1] # Slash /\ Head(full) = full[1]
    <3>1. full[1] = f[2]
      BY <2>1, <2>2
    <3>2. f[2] # Slash
      BY <1>1, <1>5
    <3> QED
      BY <2>1, <2>2, <3>1, <3>2
  <2>4. <<Slash>> \o full = f
    <3>1. <<Slash>> \in Seq(S) /\ Len(<<Slash>>) = 1 /\ <<Slash>>[1] = Slash
      BY <1>4
    <3>2. /\ <<Slash>> \o full \in Seq(S) /\ Len(<<Slash>> \o full) = 1 + Len(full)
          /\ \A i \in 1 .. 1 + Len(full) : (<<Slash>> \o full)[i] = IF i <= 1 THEN <<Slash>>[i] ELSE full[i - 1]
      BY <2>1, <3>1, ConcatProperties
    <3> DEFINE g == <<Slash>> \o full
    <3> HIDE DEF g
    <3>3. g \in Seq(S) /\ Len(g) = Len(f) /\ \A i \in 1 .. Len(f) : g[i] = f[i]
      <4>1. g \in Seq(S) /\ Len(g) = Len(f) /\ Len(f) \in Nat
        BY <1>1, <1>5, <2>1, <3>2 DEF g
      <4>2. \A i \in 1 .. Len(f) : g[i] = IF i <= 1 THEN Slash ELSE full[i - 1]
        BY <2>1, <3>1, <3>2, <4>1 DEF g
      <4>3. f[1] = Slash /\ \A i \in 2 .. Len(f) : full[i - 1] = f[i]
        BY <1>1, <1>5, <2>1
      <4> QED
        BY <4>1, <4>2, <4>3
    <3>4. g = f
      BY <1>5, <3>3, SeqEqual
    <3> QED
      BY <3>4 DEF g
  <2> QED
    BY <2>2, <2>3, <2>4
<1> DEFINE slashed == IF Head(full) = Slash THEN full ELSE <<Slash>> \o full
<1>8. full # <<>> /\ slashed = f
  BY <1>3, <1>6, <1>7
<1> HIDE DEF slashed
<1> DEFINE sep == Max({i \in DOMAIN f : f[i] = Slash})
<1>9. CanonicalizeNodeNameAndNamespace(full) =
        IF sep = Len(f) THEN {} ELSE {[name |-> SubSeq(f, sep + 1, Len(f)), namespace |-> CleanNamespace(SubSeq(f, 1, sep))]}
  BY <1>8 DEF CanonicalizeNodeNameAndNamespace, slashed
<1>10. sep = Len(p)
  <2> DEFINE T == {i \in DOMAIN f : f[i] = Slash}
  <2>1. T \in SUBSET Nat /\ Len(p) \in T
    BY <1>1, <1>5, <1>6
  <2>2. \A i \in T : i <= Len(p)
    <3> SUFFICES ASSUME NEW i \in 1 .. Len(p) + Len(m), f[i] = Slash PROVE i <= Len(p)
      BY <1>5, <1>6
    <3>1. i > Len(p) => i - Len(p) \in 1 .. Len(m)
      BY <1>1
    <3> QED
      BY <1>1, <1>5, <3>1
  <2> HIDE DEF T
  <2>3. Max(T) = Len(p)
    BY <2>1, <2>2, GreatestIs
  <2> QED
    BY <2>3 DEF T
<1> HIDE DEF sep
<1>11. SubSeq(f, 1, Len(p)) = p
  <2>1. \A i \in 1 .. Len(p) : f[i] \in S /\ f[i] = p[i]
    BY <1>1, <1>5, ElementOfSeq
  <2>2. /\ SubSeq(f, 1, Len(p)) \in Seq(S) /\ Len(SubSeq(f, 1, Len(p))) = Len(p)
        /\ \A i \in 1 .. Len(p) : SubSeq(f, 1, Len(p))[i] = f[i]
    BY <1>1, <2>1, SubSeqProperties
  <2> QED
    BY <1>1, <2>1, <2>2, SeqEqual
<1>12. SubSeq(f, Len(p) + 1, Len(f)) = m
  <2> DEFINE t == SubSeq(f, Len(p) + 1, Len(f))
  <2>1. \A i \in Len(p) + 1 .. Len(f) : f[i] \in S
    BY <1>1, <1>5, ElementOfSeq
  <2>2. Len(p) + 1 \in Int /\ Len(f) \in Int /\ Len(f) - (Len(p) + 1) + 1 = Len(m) /\ Len(p) + 1 <= Len(f)
    BY <1>1, <1>5
  <2>3. /\ t \in Seq(S) /\ Len(t) = Len(m) /\ \A i \in 1 .. Len(m) : t[i] = f[(Len(p) + 1) + i - 1]
    BY <2>1, <2>2, SubSeqProperties
  <2> HIDE DEF t
  <2>4. \A i \in 1 .. Len(m) : t[i] = m[i]
    <3> SUFFICES ASSUME NEW i \in 1 .. Len(m) PROVE t[i] = m[i]
      OBVIOUS
    <3>1. (Len(p) + 1) + i - 1 = Len(p) + i /\ Len(p) + i \in 1 .. Len(p) + Len(m) /\ ~(Len(p) + i <= Len(p)) /\ (Len(p) + i) - Len(p) = i
      BY <1>1
    <3> QED
      BY <1>5, <2>3, <3>1
  <2>5. t = m
    BY <1>1, <2>3, <2>4, SeqEqual
  <2> QED
    BY <2>5 DEF t
<1>13. Len(p) # Len(f)
  BY <1>1, <1>5
<1> QED
  BY <1>1, <1>2, <1>9, <1>10, <1>11, <1>12, <1>13

(***************************************************************************)
(* Queries: the answers.                                                   *)
(***************************************************************************)
FullName(n) == BuildFullyQualifiedNodeName(n)
EntryOf(e) == [name |-> e.name, type |-> e.type]

WaitingQueries(k) == [id : Nat, cmd : {q \in Asked : q.kind = k}]
Commands == [id : Nat, cmd : Asked]
EntryLists == {"publishers", "subscribers", "services"}

VisitTasks ==
  [at : {"visit"}, query : Commands, nodes : SUBSET Nodes, lists : [1 .. 2 -> SUBSET {FullName(n) : n \in Nodes}]]
ReadTasks ==
  [at : {"read"}, query : Commands, node : Nodes, roles : Seq(Roles),
   entries : [EntryLists -> SUBSET {EntryOf(e) : e \in Endpoints}]]

\* The endpoints that belong to an answer.
Matching(seen, cmd, i) == {h \in seen \cap Endpoints : h.role = ListRoles[cmd.kind][i] /\ h.name = cmd.name}
OfNode(seen, node, cmd, list) == {h \in seen \cap Endpoints : h.node = node /\ ListOf[h.role] = list /\ Shown(cmd, h.name)}

QueriesTypeOK ==
  /\ discovered \subseteq Nodes /\ graph \subseteq Endpoints /\ \A e \in graph : e.node \in discovered
  /\ asked \in Nat
  /\ DOMAIN queues = Kinds /\ queues = [k \in Kinds |-> queues[k]] /\ \A k \in Kinds : queues[k] \in Seq(WaitingQueries(k))
  /\ task = NoTask \/ task \in VisitTasks \/ task \in ReadTasks

\* What has stayed is in the graph, which has passed by.
SeenHolds == task # NoTask => stayed \subseteq discovered \cup graph /\ discovered \cup graph \subseteq passed

\* A node that has been visited is in the lists with what it has had since.
VisitHolds ==
  task \in VisitTasks =>
    /\ task.query.cmd.kind \in {"topic", "service"} /\ draining \in {task.query.cmd.kind, "thrown"}
    /\ \A i \in 1 .. 2 :
         /\ \A e \in Matching(stayed, task.query.cmd, i) : e.node \in task.nodes \/ FullName(e.node) \in task.lists[i]
         /\ task.lists[i] \subseteq {FullName(e.node) : e \in Matching(passed, task.query.cmd, i)}

\* The node that is read is the one of the name, with the entries of the roles
\* that are behind.
ReadHolds ==
  task \in ReadTasks =>
    /\ task.query.cmd.kind = "node" /\ draining \in {"node", "thrown"}
    /\ \A n \in Nodes : task.query.cmd.name \in {FullName(n), Tail(FullName(n))} => n = task.node
    /\ \A list \in EntryLists :
         /\ \A e \in OfNode(stayed, task.node, task.query.cmd, list) :
              e.role \in ToSet(task.roles) \/ EntryOf(e) \in task.entries[list]
         /\ task.entries[list] \subseteq {EntryOf(e) : e \in OfNode(passed, task.node, task.query.cmd, list)}

QueriesInv == QueriesTypeOK /\ SeenHolds /\ VisitHolds /\ ReadHolds /\ ListsTellTheGraph /\ ListedNodesAreFound

LEMMA NoAnswers ==
  /\ answers = {} => ListsTellTheGraph /\ ListedNodesAreFound
  /\ answers' = {} => ListsTellTheGraph' /\ ListedNodesAreFound'
<1>1. answers = {} => ListsTellTheGraph /\ ListedNodesAreFound
  BY DEF ListsTellTheGraph, ListedNodesAreFound, AnswersTo
<1>2. answers' = {} => ListsTellTheGraph' /\ ListedNodesAreFound'
  BY DEF ListsTellTheGraph, ListedNodesAreFound, AnswersTo
<1> QED
  BY <1>1, <1>2

LEMMA TasksApart == NoTask \notin VisitTasks /\ NoTask \notin ReadTasks /\ \A t \in VisitTasks : t \notin ReadTasks
<1>1. NoTask.at = "none" /\ (\A t \in VisitTasks : t.at = "visit") /\ \A t \in ReadTasks : t.at = "read"
  BY DEF NoTask, VisitTasks, ReadTasks
<1> QED
  BY <1>1

LEMMA QueryStutter == QueriesInv /\ UNCHANGED query_vars => QueriesInv'
<1> SUFFICES ASSUME QueriesInv, UNCHANGED query_vars PROVE QueriesInv'
  OBVIOUS
<1>1. /\ discovered' = discovered /\ graph' = graph /\ queues' = queues /\ draining' = draining /\ task' = task
      /\ asked' = asked /\ answers' = answers /\ stayed' = stayed /\ passed' = passed
  BY DEF query_vars, graphVars, seenVars
<1>2. QueriesTypeOK' /\ SeenHolds' /\ VisitHolds' /\ ReadHolds'
  BY <1>1 DEF QueriesInv, QueriesTypeOK, SeenHolds, VisitHolds, ReadHolds
<1>3. ListsTellTheGraph' /\ ListedNodesAreFound'
  BY <1>1 DEF QueriesInv, ListsTellTheGraph, ListedNodesAreFound, AnswersTo
<1> QED
  BY <1>2, <1>3 DEF QueriesInv

LEMMA GraphBecomesKeeps ==
  ASSUME QueriesInv, NEW nodes \in SUBSET Nodes, NEW endpoints \in SUBSET Endpoints, \A e \in endpoints : e.node \in nodes,
         GraphBecomes(nodes, endpoints)
  PROVE  QueriesInv'
<1>1. /\ discovered' = nodes /\ graph' = endpoints /\ stayed' = stayed \cap (nodes \cup endpoints)
      /\ passed' = passed \cup nodes \cup endpoints /\ answers' = {}
      /\ UNCHANGED <<queues, draining, task, asked, answered>>
  BY DEF GraphBecomes
<1>2. QueriesTypeOK'
  BY <1>1 DEF QueriesInv, QueriesTypeOK
<1>3. SeenHolds'
  BY <1>1 DEF SeenHolds
<1>4. VisitHolds'
  BY <1>1 DEF QueriesInv, VisitHolds, Matching
<1>5. ReadHolds'
  BY <1>1 DEF QueriesInv, ReadHolds, OfNode
<1> QED
  BY <1>1, <1>2, <1>3, <1>4, <1>5, NoAnswers DEF QueriesInv

LEMMA GraphKeeps == ASSUME QueriesInv, EndpointAppears \/ EndpointVanishes \/ NodeLeaves PROVE QueriesInv'
<1>1. discovered \in SUBSET Nodes /\ graph \in SUBSET Endpoints /\ \A e \in graph : e.node \in discovered
  BY DEF QueriesInv, QueriesTypeOK
<1>2. CASE EndpointAppears
  BY <1>1, <1>2, GraphBecomesKeeps DEF EndpointAppears
<1>3. CASE EndpointVanishes
  BY <1>1, <1>3, GraphBecomesKeeps DEF EndpointVanishes
<1>4. CASE NodeLeaves
  BY <1>1, <1>4, GraphBecomesKeeps DEF NodeLeaves
<1> QED
  BY <1>2, <1>3, <1>4

LEMMA AskKeeps == ASSUME QueriesInv, Ask PROVE QueriesInv'
<1>1. PICK q \in Asked : queues' = [queues EXCEPT ![q.kind] = Append(@, [id |-> asked + 1, cmd |-> q])]
  BY DEF Ask
<1>2. asked' = asked + 1 /\ answers' = {} /\ UNCHANGED <<discovered, graph, draining, task, stayed, passed>>
  BY DEF Ask, graphVars, seenVars
<1> DEFINE w == [id |-> asked + 1, cmd |-> q]
<1>3. q.kind \in Kinds /\ w \in WaitingQueries(q.kind)
  BY QueryAssumption DEF QueriesInv, QueriesTypeOK, WaitingQueries
<1> HIDE DEF w
<1>4. Append(queues[q.kind], w) \in Seq(WaitingQueries(q.kind))
  BY <1>3, AppendProperties DEF QueriesInv, QueriesTypeOK
<1>5. /\ queues' = [queues EXCEPT ![q.kind] = Append(queues[q.kind], w)]
  BY <1>1 DEF w
<1>6. /\ DOMAIN queues' = Kinds /\ queues' = [k \in Kinds |-> queues'[k]]
      /\ \A k \in Kinds : queues'[k] = IF k = q.kind THEN Append(queues[q.kind], w) ELSE queues[k]
  BY <1>3, <1>5 DEF QueriesInv, QueriesTypeOK
<1>7. QueriesTypeOK'
  <2>1. ASSUME NEW k \in Kinds PROVE queues'[k] \in Seq(WaitingQueries(k))
    <3>1. CASE k = q.kind
      BY <1>4, <1>6, <3>1
    <3>2. CASE k # q.kind
      BY <1>6, <3>2 DEF QueriesInv, QueriesTypeOK
    <3> QED
      BY <3>1, <3>2
  <2>2. asked' \in Nat
    BY <1>2 DEF QueriesInv, QueriesTypeOK
  <2>3. /\ discovered' \subseteq Nodes /\ graph' \subseteq Endpoints /\ \A e \in graph' : e.node \in discovered'
        /\ task' = NoTask \/ task' \in VisitTasks \/ task' \in ReadTasks
    BY <1>2 DEF QueriesInv, QueriesTypeOK
  <2> QED
    BY <1>6, <2>1, <2>2, <2>3 DEF QueriesTypeOK
<1>8. SeenHolds' /\ VisitHolds' /\ ReadHolds'
  BY <1>2 DEF QueriesInv, SeenHolds, VisitHolds, ReadHolds
<1> QED
  BY <1>2, <1>7, <1>8, NoAnswers DEF QueriesInv

LEMMA TurnKeeps == ASSUME QueriesInv, OnQueryTimer \/ Drained PROVE QueriesInv'
<1>1. answers' = {} /\ UNCHANGED <<discovered, graph, queues, asked, task, stayed, passed>>
  BY DEF OnQueryTimer, Drained, graphVars, seenVars
<1>2. task = NoTask
  <2>1. CASE OnQueryTimer
    <3>1. draining = "none"
      BY <2>1 DEF OnQueryTimer
    <3> QED
      BY <3>1 DEF QueriesInv, QueriesTypeOK, VisitHolds, ReadHolds
  <2>2. CASE Drained
    BY <2>2 DEF Drained
  <2> QED
    BY <2>1, <2>2
<1>3. QueriesTypeOK'
  BY <1>1 DEF QueriesInv, QueriesTypeOK
<1>4. SeenHolds' /\ VisitHolds' /\ ReadHolds'
  BY <1>1, <1>2, TasksApart DEF SeenHolds, VisitHolds, ReadHolds
<1> QED
  BY <1>1, <1>3, <1>4, NoAnswers DEF QueriesInv

\* What a command finds when it is dequeued.
LEMMA TakeFacts ==
  ASSUME QueriesInv, NEW k \in Kinds, Take(k)
  PROVE  /\ Head(queues[k]) \in WaitingQueries(k) /\ Head(queues[k]) \in Commands /\ Head(queues[k]).cmd.kind = k
         /\ stayed' = discovered \cup graph /\ passed' = discovered \cup graph
         /\ draining = k /\ draining' = k /\ UNCHANGED <<discovered, graph, asked>>
         /\ DOMAIN queues' = Kinds /\ queues' = [l \in Kinds |-> queues'[l]] /\ \A l \in Kinds : queues'[l] \in Seq(WaitingQueries(l))
<1>1. /\ stayed' = discovered \cup graph /\ passed' = discovered \cup graph /\ draining = k /\ queues[k] # <<>>
      /\ queues' = [queues EXCEPT ![k] = Tail(queues[k])] /\ UNCHANGED <<discovered, graph, asked>>
  BY DEF Take, graphVars
<1>2. Head(queues[k]) \in WaitingQueries(k) /\ Tail(queues[k]) \in Seq(WaitingQueries(k))
  BY <1>1, HeadTailProperties DEF QueriesInv, QueriesTypeOK
<1>3. Head(queues[k]) \in Commands /\ Head(queues[k]).cmd.kind = k
  BY <1>2 DEF WaitingQueries, Commands
<1>4. DOMAIN queues = Kinds /\ queues = [l \in Kinds |-> queues[l]] /\ \A l \in Kinds : queues[l] \in Seq(WaitingQueries(l))
  BY DEF QueriesInv, QueriesTypeOK
<1>5. /\ DOMAIN queues' = Kinds /\ queues' = [l \in Kinds |-> queues'[l]]
      /\ \A l \in Kinds : queues'[l] = IF l = k THEN Tail(queues[k]) ELSE queues[l]
  BY <1>1, <1>4
<1>6. ASSUME NEW l \in Kinds PROVE queues'[l] \in Seq(WaitingQueries(l))
  <2>1. CASE l = k
    BY <1>2, <1>5, <2>1
  <2>2. CASE l # k
    BY <1>4, <1>5, <2>2
  <2> QED
    BY <2>1, <2>2
<1>7. draining' = k
  BY <1>1 DEF Take
<1> QED
  BY <1>1, <1>2, <1>3, <1>5, <1>6, <1>7


\* A task that is done leaves nothing to hold of it.
LEMMA DoneHolds == task' = NoTask => SeenHolds' /\ VisitHolds' /\ ReadHolds'
<1>1. task' = NoTask => task' \notin VisitTasks /\ task' \notin ReadTasks
  BY TasksApart
<1> QED
  BY <1>1 DEF SeenHolds, VisitHolds, ReadHolds

\* The list, show and action queries are answered in one step.
LEMMA AtOnceKeeps ==
  ASSUME QueriesInv, NEW k \in {"list", "show", "action"}, Take(k), NEW r, Respond(Head(queues[k]), r)
  PROVE  QueriesInv'
<1>1. k \in Kinds
  BY DEF Kinds
<1>2. /\ Head(queues[k]).cmd.kind = k
      /\ DOMAIN queues' = Kinds /\ queues' = [l \in Kinds |-> queues'[l]] /\ \A l \in Kinds : queues'[l] \in Seq(WaitingQueries(l))
      /\ UNCHANGED <<discovered, graph, asked>>
  BY <1>1, TakeFacts
<1>3. task' = NoTask /\ answers' = {[query |-> Head(queues[k]), response |-> r]}
  BY DEF Respond
<1>4. QueriesTypeOK'
  BY <1>2, <1>3 DEF QueriesInv, QueriesTypeOK
<1>5. \A a \in answers' : a.query.cmd.kind = k
  BY <1>2, <1>3
<1>6. ListsTellTheGraph' /\ ListedNodesAreFound'
  BY <1>5 DEF ListsTellTheGraph, ListedNodesAreFound, AnswersTo, ListRoles
<1> QED
  BY <1>3, <1>4, <1>6, DoneHolds DEF QueriesInv

LEMMA StartInfoKeeps == ASSUME QueriesInv, StartInfo PROVE QueriesInv'
<1>1. PICK k \in DOMAIN ListRoles :
        Take(k) /\ Becomes([at |-> "visit", query |-> Head(queues[k]), nodes |-> discovered, lists |-> <<{}, {}>>])
  BY DEF StartInfo
<1>2. k \in {"topic", "service"} /\ k \in Kinds
  BY DEF ListRoles, Kinds
<1> DEFINE query == Head(queues[k])
<1>3. /\ query \in Commands /\ query.cmd.kind = k /\ draining' = k
      /\ stayed' = discovered \cup graph /\ passed' = discovered \cup graph /\ UNCHANGED <<discovered, graph, asked>>
      /\ DOMAIN queues' = Kinds /\ queues' = [l \in Kinds |-> queues'[l]] /\ \A l \in Kinds : queues'[l] \in Seq(WaitingQueries(l))
  BY <1>1, <1>2, TakeFacts
<1>4. task' = [at |-> "visit", query |-> query, nodes |-> discovered, lists |-> <<{}, {}>>] /\ answers' = {}
  BY <1>1 DEF Becomes
<1> HIDE DEF query
<1>5. discovered \subseteq Nodes /\ graph \subseteq Endpoints /\ (\A e \in graph : e.node \in discovered) /\ asked \in Nat
  BY DEF QueriesInv, QueriesTypeOK
<1>6. <<{}, {}>> \in [1 .. 2 -> SUBSET {FullName(n) : n \in Nodes}]
  OBVIOUS
<1>7. task' \in VisitTasks
  BY <1>3, <1>4, <1>5, <1>6 DEF VisitTasks
<1>8. QueriesTypeOK'
  BY <1>3, <1>5, <1>7 DEF QueriesTypeOK
<1>9. SeenHolds'
  BY <1>3 DEF SeenHolds
<1>10. task'.query = query /\ task'.nodes = discovered /\ \A i \in 1 .. 2 : task'.lists[i] = {}
  BY <1>4
<1>11. VisitHolds'
  <2>1. ASSUME NEW i \in 1 .. 2, NEW e \in Matching(stayed', query.cmd, i) PROVE e.node \in discovered
    <3>1. e \in graph
      BY <1>3, <1>5, <2>1, QueryAssumption DEF Matching
    <3> QED
      BY <1>5, <3>1
  <2> QED
    BY <1>2, <1>3, <1>10, <2>1 DEF VisitHolds
<1>12. ReadHolds'
  BY <1>7, TasksApart DEF ReadHolds
<1> QED
  BY <1>4, <1>8, <1>9, <1>11, <1>12, NoAnswers DEF QueriesInv

\* An endpoint that has stayed is in the graph, and the graph has passed by.
LEMMA SeenEndpoints ==
  ASSUME QueriesInv, task # NoTask
  PROVE  stayed \cap Endpoints \subseteq graph /\ graph \subseteq passed \cap Endpoints /\ stayed \cap Nodes \subseteq discovered
  BY QueryAssumption DEF QueriesInv, QueriesTypeOK, SeenHolds

\* A callback that throws keeps its task.
LEMMA ThrowKeeps ==
  ASSUME QueriesInv, Throws, UNCHANGED <<graphVars, queues, asked, seenVars>>
  PROVE  QueriesInv'
<1>1. /\ draining' = "thrown" /\ answers' = {}
      /\ UNCHANGED <<discovered, graph, queues, asked, task, stayed, passed>>
  BY DEF Throws, graphVars, seenVars
<1>2. QueriesTypeOK'
  BY <1>1 DEF QueriesInv, QueriesTypeOK
<1>3. SeenHolds' /\ VisitHolds' /\ ReadHolds'
  BY <1>1 DEF QueriesInv, SeenHolds, VisitHolds, ReadHolds
<1> QED
  BY <1>1, <1>2, <1>3, NoAnswers DEF QueriesInv

LEMMA VisitKeeps == ASSUME QueriesInv, DrainInfoCommands PROVE QueriesInv'
<1>1. /\ draining \in {"topic", "service"} /\ task.at = "visit"
      /\ UNCHANGED <<discovered, graph, queues, asked, stayed, passed>>
  BY DEF DrainInfoCommands, graphVars, seenVars, ListRoles
<1>2. task \in VisitTasks
  <2>1. NoTask.at = "none" /\ \A t \in ReadTasks : t.at = "read"
    BY DEF NoTask, ReadTasks
  <2> QED
    BY <1>1, <2>1 DEF QueriesInv, QueriesTypeOK
<1>3. task # NoTask
  BY <1>2, TasksApart
<1> DEFINE cmd == task.query.cmd
<1>4. /\ task.query \in Commands /\ task.nodes \subseteq Nodes
      /\ task.lists \in [1 .. 2 -> SUBSET {FullName(n) : n \in Nodes}]
  BY <1>2 DEF VisitTasks
<1>5. /\ cmd.kind \in {"topic", "service"} /\ draining = cmd.kind
      /\ \A i \in 1 .. 2 :
           /\ \A e \in Matching(stayed, cmd, i) : e.node \in task.nodes \/ FullName(e.node) \in task.lists[i]
           /\ task.lists[i] \subseteq {FullName(e.node) : e \in Matching(passed, cmd, i)}
  BY <1>1, <1>2 DEF QueriesInv, VisitHolds
<1>6. CASE task.nodes = {}
  <2>1. task' = NoTask /\ answers' = {[query |-> task.query, response |-> [lists |-> task.lists]]}
    BY <1>6 DEF DrainInfoCommands, Respond
  <2>2. QueriesTypeOK'
    BY <1>1, <2>1 DEF QueriesInv, QueriesTypeOK
  <2>3. ListsTellTheGraph'
    <3> SUFFICES ASSUME NEW i \in 1 .. 2
                 PROVE  /\ {FullName(e.node) : e \in Matching(stayed, cmd, i)} \subseteq task.lists[i]
                        /\ task.lists[i] \subseteq {FullName(e.node) : e \in Matching(passed, cmd, i)}
      BY <1>1, <2>1 DEF ListsTellTheGraph, AnswersTo, Matching, FullName
    <3> QED
      BY <1>5, <1>6
  <2>4. ListedNodesAreFound'
    BY <1>5, <2>1 DEF ListedNodesAreFound, AnswersTo
  <2> QED
    BY <2>1, <2>2, <2>3, <2>4, DoneHolds DEF QueriesInv
<1>7. CASE task.nodes # {}
  <2>1. PICK n \in task.nodes :
          IF n \notin discovered THEN Throws
          ELSE /\ Becomes([task EXCEPT !.nodes = @ \ {n},
                             !.lists = [i \in 1 .. 2 |-> @[i] \cup NodeLists(n, ListRoles[draining], cmd.name)[i]]])
               /\ UNCHANGED draining
    BY <1>7 DEF DrainInfoCommands
  <2>2. CASE n \notin discovered
    BY <1>1, <2>1, <2>2, ThrowKeeps DEF DrainInfoCommands
  <2>3. CASE n \in discovered
    <3> DEFINE found == NodeLists(n, ListRoles[draining], cmd.name)
               lists == [i \in 1 .. 2 |-> task.lists[i] \cup found[i]]
    <3>1. /\ task' = [task EXCEPT !.nodes = task.nodes \ {n}, !.lists = lists] /\ answers' = {} /\ draining' = draining
      BY <2>1, <2>3 DEF Becomes
    <3>2. \A i \in 1 .. 2 : found[i] = {FullName(e.node) : e \in {h \in graph :
                              h.role = ListRoles[cmd.kind][i] /\ h.name = cmd.name /\ h.node = n}}
      BY <1>5 DEF NodeLists, Having, FullName
    <3>3. n \in Nodes
      BY <1>4
    <3>4. \A i \in 1 .. 2 : found[i] \subseteq {FullName(m) : m \in Nodes}
      BY <3>2, <3>3
    <3> HIDE DEF found
    <3>5. lists \in [1 .. 2 -> SUBSET {FullName(m) : m \in Nodes}]
      BY <1>4, <3>4
    <3>6. \A i \in 1 .. 2 : lists[i] = task.lists[i] \cup found[i]
      OBVIOUS
    <3> HIDE DEF lists
    <3>7. task' \in VisitTasks /\ task'.query = task.query /\ task'.nodes = task.nodes \ {n} /\ task'.lists = lists
      BY <1>2, <3>1, <3>5 DEF VisitTasks
    <3>8. QueriesTypeOK'
      BY <1>1, <3>7 DEF QueriesInv, QueriesTypeOK
    <3>9. SeenHolds'
      BY <1>1, <1>3 DEF QueriesInv, SeenHolds
    <3>10. VisitHolds'
      <4> SUFFICES ASSUME NEW i \in 1 .. 2
                   PROVE  /\ \A e \in Matching(stayed, cmd, i) : e.node \in task.nodes \ {n} \/ FullName(e.node) \in lists[i]
                          /\ lists[i] \subseteq {FullName(e.node) : e \in Matching(passed, cmd, i)}
        BY <1>1, <1>5, <3>1, <3>7 DEF VisitHolds
      <4>1. ASSUME NEW e \in Matching(stayed, cmd, i), e.node = n PROVE FullName(e.node) \in found[i]
        <5>1. e \in graph /\ e.role = ListRoles[cmd.kind][i] /\ e.name = cmd.name
          BY <1>3, SeenEndpoints DEF Matching
        <5> QED
          BY <3>2, <4>1, <5>1
      <4>2. found[i] \subseteq {FullName(e.node) : e \in Matching(passed, cmd, i)}
        BY <1>3, <3>2, SeenEndpoints DEF Matching
      <4> QED
        BY <1>5, <3>6, <4>1, <4>2
    <3>11. ReadHolds'
      BY <3>7, TasksApart DEF ReadHolds
    <3> QED
      BY <3>1, <3>8, <3>9, <3>10, <3>11, NoAnswers DEF QueriesInv
  <2> QED
    BY <2>2, <2>3
<1> QED
  BY <1>6, <1>7

LEMMA StartNodeInfoKeeps == ASSUME QueriesInv, StartNodeInfo PROVE QueriesInv'
<1> DEFINE query == Head(queues["node"])
           name  == query.cmd.name
           known == CanonicalizeNodeNameAndNamespace(name) \cap discovered
<1>1. Take("node") /\ "node" \in Kinds
  BY DEF StartNodeInfo, Kinds
<1>2. /\ query \in Commands /\ query.cmd.kind = "node" /\ draining' = "node"
      /\ stayed' = discovered \cup graph /\ passed' = discovered \cup graph /\ UNCHANGED <<discovered, graph, asked>>
      /\ DOMAIN queues' = Kinds /\ queues' = [l \in Kinds |-> queues'[l]] /\ \A l \in Kinds : queues'[l] \in Seq(WaitingQueries(l))
  BY <1>1, TakeFacts
<1>3. /\ discovered \subseteq Nodes /\ graph \subseteq Endpoints /\ (\A e \in graph : e.node \in discovered) /\ asked \in Nat
  BY DEF QueriesInv, QueriesTypeOK
<1>4. \A n \in Nodes : name \in {FullName(n), Tail(FullName(n))} => CanonicalizeNodeNameAndNamespace(name) = {n}
  BY FullNameMeans DEF FullName
<1>5. IF known = {} THEN RespondUnknown(query)
      ELSE Becomes([at |-> "read", query |-> query, node |-> CHOOSE n \in known : TRUE,
                    roles |-> <<"publisher", "subscriber", "service", "client">>,
                    entries |-> [list \in {"publishers", "subscribers", "services"} |-> {}]])
  BY DEF StartNodeInfo
<1> HIDE DEF query
<1>6. CASE known = {}
  <2>1. task' = NoTask /\ answers' = {[query |-> query, response |-> [found |-> FALSE]]}
    BY <1>5, <1>6 DEF RespondUnknown, Respond
  <2>2. QueriesTypeOK'
    BY <1>2, <1>3, <2>1 DEF QueriesTypeOK
  <2>3. ListsTellTheGraph'
    BY <1>2, <2>1 DEF ListsTellTheGraph, AnswersTo, ListRoles
  <2>4. ASSUME NEW n \in Nodes, name \in {FullName(n), Tail(FullName(n))} PROVE n \notin stayed'
    BY <1>2, <1>3, <1>4, <1>6, <2>4, QueryAssumption
  <2>5. ListedNodesAreFound'
    BY <2>1, <2>4 DEF ListedNodesAreFound, AnswersTo, FullName
  <2> QED
    BY <2>1, <2>2, <2>3, <2>5, DoneHolds DEF QueriesInv
<1>7. CASE known # {}
  <2> DEFINE node == CHOOSE n \in known : TRUE
             roles == <<"publisher", "subscriber", "service", "client">>
             entries == [list \in {"publishers", "subscribers", "services"} |-> {}]
  <2>1. task' = [at |-> "read", query |-> query, node |-> node, roles |-> roles, entries |-> entries] /\ answers' = {}
    BY <1>5, <1>7 DEF Becomes
  <2>2. node \in known
    BY <1>7
  <2> HIDE DEF node
  <2>3. node \in Nodes /\ \A n \in Nodes : name \in {FullName(n), Tail(FullName(n))} => n = node
    BY <1>3, <1>4, <2>2
  <2>4. roles \in Seq(Roles) /\ ToSet(roles) = Roles
    <3>1. Len(roles) = 4 /\ roles[1] = "publisher" /\ roles[2] = "subscriber" /\ roles[3] = "service" /\ roles[4] = "client"
      OBVIOUS
    <3>2. roles \in Seq(Roles) /\ DOMAIN roles = 1 .. 4
      BY DEF Roles
    <3> HIDE DEF roles
    <3>3. \A r \in Roles : \E i \in 1 .. 4 : roles[i] = r
      BY <3>1 DEF Roles
    <3>4. \A i \in 1 .. 4 : roles[i] \in Roles
      BY <3>2
    <3> QED
      BY <3>2, <3>3, <3>4 DEF ToSet
  <2> HIDE DEF roles
  <2>5. entries \in [EntryLists -> SUBSET {EntryOf(e) : e \in Endpoints}] /\ \A list \in EntryLists : entries[list] = {}
    BY DEF EntryLists
  <2> HIDE DEF entries
  <2>6. /\ task' \in ReadTasks /\ task'.query = query /\ task'.node = node /\ task'.roles = roles /\ task'.entries = entries
    BY <1>2, <2>1, <2>3, <2>4, <2>5 DEF ReadTasks
  <2>7. QueriesTypeOK'
    BY <1>2, <1>3, <2>6 DEF QueriesTypeOK
  <2>8. SeenHolds'
    BY <1>2 DEF SeenHolds
  <2>9. VisitHolds'
    BY <2>6, TasksApart DEF VisitHolds
  <2>10. ReadHolds'
    <3>1. ASSUME NEW list \in EntryLists, NEW e \in OfNode(stayed', node, query.cmd, list) PROVE e.role \in ToSet(roles)
      BY <2>4, <3>1, QueryAssumption DEF OfNode
    <3> QED
      BY <1>2, <2>3, <2>5, <2>6, <3>1 DEF ReadHolds
  <2> QED
    BY <2>1, <2>7, <2>8, <2>9, <2>10, NoAnswers DEF QueriesInv
<1> QED
  BY <1>6, <1>7

LEMMA ReadKeeps == ASSUME QueriesInv, DrainNodeInfoCommands PROVE QueriesInv'
<1>1. /\ draining = "node" /\ task.at = "read"
      /\ UNCHANGED <<discovered, graph, queues, asked, stayed, passed>>
  BY DEF DrainNodeInfoCommands, graphVars, seenVars
<1>2. task \in ReadTasks
  <2>1. NoTask.at = "none" /\ \A t \in VisitTasks : t.at = "visit"
    BY DEF NoTask, VisitTasks
  <2> QED
    BY <1>1, <2>1 DEF QueriesInv, QueriesTypeOK
<1>3. task # NoTask
  BY <1>2, TasksApart
<1> DEFINE cmd == task.query.cmd
           node == task.node
<1>4. /\ task.query \in Commands /\ node \in Nodes /\ task.roles \in Seq(Roles)
      /\ task.entries \in [EntryLists -> SUBSET {EntryOf(e) : e \in Endpoints}]
  BY <1>2 DEF ReadTasks
<1>5. /\ cmd.kind = "node"
      /\ \A n \in Nodes : cmd.name \in {FullName(n), Tail(FullName(n))} => n = node
      /\ \A list \in EntryLists :
           /\ \A e \in OfNode(stayed, node, cmd, list) : e.role \in ToSet(task.roles) \/ EntryOf(e) \in task.entries[list]
           /\ task.entries[list] \subseteq {EntryOf(e) : e \in OfNode(passed, node, cmd, list)}
  BY <1>2 DEF QueriesInv, ReadHolds
<1>6. CASE task.roles = <<>>
  <2>1. task' = NoTask /\ answers' = {[query |-> task.query, response |-> [found |-> TRUE, entries |-> task.entries]]}
    BY <1>6 DEF DrainNodeInfoCommands, Respond
  <2>2. QueriesTypeOK'
    BY <1>1, <2>1 DEF QueriesInv, QueriesTypeOK
  <2>3. ListsTellTheGraph'
    BY <1>5, <2>1 DEF ListsTellTheGraph, AnswersTo, ListRoles
  <2>4. ToSet(task.roles) = {}
    BY <1>6 DEF ToSet
  <2>5. DOMAIN task.entries = EntryLists
    BY <1>4
  <2>6. ASSUME NEW n \in Nodes, cmd.name \in {FullName(n), Tail(FullName(n))}, NEW list \in EntryLists
        PROVE  /\ {EntryOf(e) : e \in OfNode(stayed, n, cmd, list)} \subseteq task.entries[list]
               /\ task.entries[list] \subseteq {EntryOf(e) : e \in OfNode(passed, n, cmd, list)}
    BY <1>5, <2>4, <2>6
  <2>7. ListedNodesAreFound'
    <3> SUFFICES ASSUME NEW n \in Nodes, cmd.name \in {FullName(n), Tail(FullName(n))}, NEW list \in EntryLists
                 PROVE  /\ {EntryOf(e) : e \in OfNode(stayed, n, cmd, list)} \subseteq task.entries[list]
                        /\ task.entries[list] \subseteq {EntryOf(e) : e \in OfNode(passed, n, cmd, list)}
      BY <1>1, <2>1, <2>5 DEF ListedNodesAreFound, AnswersTo, FullName, OfNode, EntryOf
    <3> QED
      BY <2>6
  <2> QED
    BY <2>1, <2>2, <2>3, <2>7, DoneHolds DEF QueriesInv
<1>7. CASE task.roles # <<>> /\ node \notin discovered
  BY <1>1, <1>7, ThrowKeeps DEF DrainNodeInfoCommands
<1>8. CASE task.roles # <<>> /\ node \in discovered
  <2> DEFINE role == Head(task.roles)
             read == {e \in graph : e.node = node /\ e.role = role /\ Shown(cmd, e.name)}
             told == {EntryOf(e) : e \in read}
             entries == [task.entries EXCEPT ![ListOf[role]] = @ \cup told]
  <2>1. /\ task' = [task EXCEPT !.roles = Tail(task.roles), !.entries[ListOf[role]] = @ \cup told]
        /\ answers' = {} /\ draining' = draining
    BY <1>8 DEF DrainNodeInfoCommands, Becomes, EntryOf
  <2>2. /\ role \in Roles /\ Tail(task.roles) \in Seq(Roles) /\ ToSet(task.roles) = {role} \cup ToSet(Tail(task.roles))
    <3>1. Len(task.roles) \in Nat \ {0} /\ DOMAIN task.roles = 1 .. Len(task.roles) /\ role = task.roles[1]
      BY <1>4, <1>8, EmptySeq, LenProperties
    <3>2. /\ Tail(task.roles) \in Seq(Roles) /\ Len(Tail(task.roles)) = Len(task.roles) - 1
          /\ DOMAIN Tail(task.roles) = 1 .. Len(task.roles) - 1
          /\ \A i \in 1 .. Len(task.roles) - 1 : Tail(task.roles)[i] = task.roles[i + 1]
      BY <1>4, <1>8
    <3>3. \A i \in 1 .. Len(task.roles) : i = 1 \/ i - 1 \in 1 .. Len(task.roles) - 1
      BY <3>1
    <3>4. \A i \in 1 .. Len(task.roles) - 1 : i + 1 \in 1 .. Len(task.roles)
      BY <3>1
    <3>5. 1 \in 1 .. Len(task.roles)
      BY <3>1
    <3>6. ASSUME NEW i \in 1 .. Len(task.roles) PROVE task.roles[i] = role \/ task.roles[i] \in ToSet(Tail(task.roles))
      <4>1. CASE i = 1
        BY <3>1, <4>1
      <4>2. CASE i # 1
        <5>1. i - 1 \in 1 .. Len(task.roles) - 1 /\ (i - 1) + 1 = i
          BY <3>1, <3>3, <4>2
        <5>2. Tail(task.roles)[i - 1] = task.roles[i]
          BY <3>2, <5>1
        <5> QED
          BY <3>2, <5>1, <5>2 DEF ToSet
      <4> QED
        BY <4>1, <4>2
    <3>7. ToSet(task.roles) \subseteq {role} \cup ToSet(Tail(task.roles))
      BY <3>1, <3>6 DEF ToSet
    <3>8. {role} \cup ToSet(Tail(task.roles)) \subseteq ToSet(task.roles)
      BY <3>1, <3>2, <3>4, <3>5 DEF ToSet
    <3> QED
      BY <1>4, <1>8, <3>1, <3>2, <3>5, <3>7, <3>8
  <2> HIDE DEF role
  <2>3. ListOf[role] \in EntryLists
    BY <2>2 DEF Roles, ListOf, EntryLists
  <2>4. graph \subseteq Endpoints
    BY DEF QueriesInv, QueriesTypeOK
  <2>5. told \subseteq {EntryOf(e) : e \in Endpoints}
    BY <2>4
  <2>6. \A e \in graph : e.node = node /\ e.role = role /\ Shown(cmd, e.name) => EntryOf(e) \in told
    OBVIOUS
  <2>7. \A x \in told : \E e \in graph : e.node = node /\ e.role = role /\ Shown(cmd, e.name) /\ x = EntryOf(e)
    OBVIOUS
  <2> HIDE DEF told
  <2>8. /\ entries \in [EntryLists -> SUBSET {EntryOf(e) : e \in Endpoints}]
        /\ \A list \in EntryLists :
             entries[list] = IF list = ListOf[role] THEN task.entries[list] \cup told ELSE task.entries[list]
    BY <1>4, <2>3, <2>5
  <2>9. task' = [task EXCEPT !.roles = Tail(task.roles), !.entries = entries]
    BY <2>1
  <2> HIDE DEF entries
  <2>10. /\ task' \in ReadTasks /\ task'.query = task.query /\ task'.node = node
         /\ task'.roles = Tail(task.roles) /\ task'.entries = entries
    BY <1>2, <2>2, <2>8, <2>9 DEF ReadTasks
  <2>11. QueriesTypeOK'
    BY <1>1, <2>10 DEF QueriesInv, QueriesTypeOK
  <2>12. SeenHolds'
    BY <1>1, <1>3 DEF QueriesInv, SeenHolds
  <2>13. VisitHolds'
    BY <2>10, TasksApart DEF VisitHolds
  <2>14. ReadHolds'
    <3>1. ASSUME NEW list \in EntryLists, NEW e \in OfNode(stayed, node, cmd, list)
          PROVE  e.role \in ToSet(Tail(task.roles)) \/ EntryOf(e) \in entries[list]
      <4>1. CASE e.role = role
        <5>1. e \in graph /\ e.node = node /\ ListOf[role] = list /\ Shown(cmd, e.name)
          BY <1>3, <4>1, SeenEndpoints DEF OfNode
        <5> QED
          BY <2>6, <2>8, <4>1, <5>1
      <4>2. CASE e.role # role
        BY <1>5, <2>2, <2>8, <4>2
      <4> QED
        BY <4>1, <4>2
    <3>2. ASSUME NEW list \in EntryLists PROVE entries[list] \subseteq {EntryOf(e) : e \in OfNode(passed, node, cmd, list)}
      <4>1. ASSUME NEW x \in told, list = ListOf[role] PROVE x \in {EntryOf(e) : e \in OfNode(passed, node, cmd, list)}
        <5>1. PICK e \in graph : e.node = node /\ e.role = role /\ Shown(cmd, e.name) /\ x = EntryOf(e)
          BY <2>7
        <5>2. e \in OfNode(passed, node, cmd, list)
          BY <1>3, <4>1, <5>1, SeenEndpoints DEF OfNode
        <5> QED
          BY <5>1, <5>2
      <4> QED
        BY <1>5, <2>8, <4>1
    <3> QED
      BY <1>1, <1>5, <2>1, <2>10, <3>1, <3>2 DEF ReadHolds
  <2> QED
    BY <2>1, <2>11, <2>12, <2>13, <2>14, NoAnswers DEF QueriesInv
<1> QED
  BY <1>6, <1>7, <1>8

LEMMA QueriesInitially == QueryInit => QueriesInv
<1> SUFFICES ASSUME QueryInit PROVE QueriesInv
  OBVIOUS
<1>1. /\ discovered = Nodes /\ graph \subseteq Endpoints /\ queues = [k \in Kinds |-> <<>>] /\ task = NoTask
      /\ asked = 0 /\ answers = {}
  BY DEF QueryInit
<1>2. QueriesTypeOK
  BY <1>1, QueryAssumption DEF QueriesTypeOK
<1>3. SeenHolds /\ VisitHolds /\ ReadHolds
  BY <1>1, TasksApart DEF SeenHolds, VisitHolds, ReadHolds
<1> QED
  BY <1>1, <1>2, <1>3, NoAnswers DEF QueriesInv

LEMMA QueriesKept == QueriesInv /\ [QueryNext]_query_vars => QueriesInv'
<1> SUFFICES ASSUME QueriesInv, [QueryNext]_query_vars PROVE QueriesInv'
  OBVIOUS
<1>1. CASE Ask
  BY <1>1, AskKeeps
<1>2. CASE EndpointAppears \/ EndpointVanishes \/ NodeLeaves
  BY <1>2, GraphKeeps
<1>3. CASE OnQueryTimer \/ Drained
  BY <1>3, TurnKeeps
<1>4. CASE DrainInterfaceListCommands
  BY <1>4, AtOnceKeeps DEF DrainInterfaceListCommands
<1>5. CASE DrainInterfaceShowCommands
  BY <1>5, AtOnceKeeps DEF DrainInterfaceShowCommands
<1>6. CASE DrainActionInfoCommands
  BY <1>6, AtOnceKeeps DEF DrainActionInfoCommands
<1>7. CASE StartInfo
  BY <1>7, StartInfoKeeps
<1>8. CASE DrainInfoCommands
  BY <1>8, VisitKeeps
<1>9. CASE StartNodeInfo
  BY <1>9, StartNodeInfoKeeps
<1>10. CASE DrainNodeInfoCommands
  BY <1>10, ReadKeeps
<1>11. CASE UNCHANGED query_vars
  BY <1>11, QueryStutter
<1> QED
  BY <1>1, <1>2, <1>3, <1>4, <1>5, <1>6, <1>7, <1>8, <1>9, <1>10, <1>11 DEF QueryNext, Callback

\* A topic's, a service's and a node's answer agree with the graph as it was
\* while they were read, and a node is found under the name the lists give it.
THEOREM ListsSafety == QuerySpec => [](ListsTellTheGraph /\ ListedNodesAreFound)
<1>1. QueriesInv => ListsTellTheGraph /\ ListedNodesAreFound
  BY DEF QueriesInv
<1> QED
  BY <1>1, QueriesInitially, QueriesKept, PTL DEF QuerySpec

LEMMA ActionTypesKept ==
  FeedbackIsOfServer /\ QueriesInv /\ ActionTypeIsServers /\ [QueryNext]_query_vars => ActionTypeIsServers'
<1> SUFFICES ASSUME FeedbackIsOfServer, QueriesInv, ActionTypeIsServers, [QueryNext]_query_vars PROVE ActionTypeIsServers'
  OBVIOUS
<1>1. ASSUME answers' = {} \/ \E query \in Commands : \E r : query.cmd.kind # "action" /\ Respond(query, r)
      PROVE  ActionTypeIsServers'
  BY <1>1 DEF ActionTypeIsServers, AnswersTo, Respond
<1>2. CASE Ask \/ EndpointAppears \/ EndpointVanishes \/ NodeLeaves \/ OnQueryTimer \/ Drained \/ StartInfo
  <2>1. answers' = {}
    BY <1>2 DEF Ask, EndpointAppears, EndpointVanishes, NodeLeaves, GraphBecomes, OnQueryTimer, Drained, StartInfo, Becomes
  <2> QED
    BY <1>1, <2>1
<1>3. CASE DrainInterfaceListCommands \/ DrainInterfaceShowCommands
  <2>1. PICK k \in {"list", "show"} : Take(k) /\ \E r : Respond(Head(queues[k]), r)
    BY <1>3 DEF DrainInterfaceListCommands, DrainInterfaceShowCommands
  <2>2. Head(queues[k]) \in Commands /\ Head(queues[k]).cmd.kind = k
    BY <2>1, TakeFacts DEF Kinds
  <2> QED
    BY <1>1, <2>1, <2>2
<1>4. CASE DrainActionInfoCommands
  <2> DEFINE query    == Head(queues["action"])
             action   == query.cmd.name
             feedback == {e \in graph : e.role \in {"publisher", "subscriber"} /\ e.name = action \o <<"/_action/feedback">>}
             told     == {ActionTypeFromFeedbackType(e.type) : e \in feedback}
  <2>1. Take("action") /\ \E r : Respond(query, r) /\ r.types \in {{}, told}
    <3>1. Respond(query, [types |-> {}, servers |-> 0])
          \/ Respond(query, [types |-> told, servers |-> Cardinality(Having("service", action \o <<"/_action/send_goal">>))])
      BY <1>4 DEF DrainActionInfoCommands
    <3>2. \A t, s : [types |-> t, servers |-> s].types = t
      OBVIOUS
    <3> QED
      BY <1>4, <3>1, <3>2 DEF DrainActionInfoCommands
  <2>2. query \in Commands
    BY <2>1, TakeFacts DEF Kinds
  <2>3. query.cmd \in Asked /\ graph \subseteq Endpoints
    BY <2>2 DEF Commands, QueriesInv, QueriesTypeOK
  <2> HIDE DEF query
  <2>4. told \subseteq {ActionOf(e.type) : e \in {h \in Endpoints :
          h.role = "service" /\ h.name = action \o <<"/_action/send_goal">>}}
    <3> SUFFICES ASSUME NEW e \in feedback
                 PROVE  \E h \in Endpoints : /\ h.role = "service" /\ h.name = action \o <<"/_action/send_goal">>
                                             /\ ActionOf(h.type) = ActionTypeFromFeedbackType(e.type)
      OBVIOUS
    <3>1. /\ e.type.suffix \in FeedbackSuffixes
          /\ \E h \in Endpoints : /\ h.role = "service" /\ h.name = action \o <<"/_action/send_goal">>
                                 /\ ActionOf(h.type) = ActionOf(e.type)
      BY <2>3 DEF FeedbackIsOfServer
    <3>2. ActionTypeFromFeedbackType(e.type) = ActionOf(e.type)
      BY <3>1 DEF ActionTypeFromFeedbackType, ActionOf
    <3> QED
      BY <3>1, <3>2
  <2> HIDE DEF told
  <2>5. PICK r : answers' = {[query |-> query, response |-> r]} /\ r.types \in {{}, told}
    BY <2>1 DEF Respond
  <2> QED
    BY <2>4, <2>5 DEF ActionTypeIsServers, AnswersTo
<1>5. CASE DrainInfoCommands \/ DrainNodeInfoCommands
  <2>1. task.at \in {"visit", "read"} /\ draining # "thrown"
    BY <1>5 DEF DrainInfoCommands, DrainNodeInfoCommands, ListRoles
  <2>2. task \in VisitTasks \/ task \in ReadTasks
    BY <2>1 DEF QueriesInv, QueriesTypeOK, NoTask
  <2>3. task.query \in Commands /\ task.query.cmd.kind # "action"
    BY <2>2 DEF QueriesInv, VisitHolds, ReadHolds, VisitTasks, ReadTasks
  <2>4. answers' = {} \/ \E r : Respond(task.query, r)
    BY <1>5 DEF DrainInfoCommands, DrainNodeInfoCommands, Throws, Becomes
  <2> QED
    BY <1>1, <2>3, <2>4
<1>6. CASE StartNodeInfo
  <2>1. Take("node") /\ (answers' = {} \/ \E r : Respond(Head(queues["node"]), r))
    BY <1>6 DEF StartNodeInfo, RespondUnknown, Becomes
  <2>2. Head(queues["node"]) \in Commands /\ Head(queues["node"]).cmd.kind = "node"
    BY <2>1, TakeFacts DEF Kinds
  <2> QED
    BY <1>1, <2>1, <2>2
<1>7. CASE UNCHANGED query_vars
  BY <1>7 DEF query_vars, ActionTypeIsServers, AnswersTo
<1> QED
  BY <1>2, <1>3, <1>4, <1>5, <1>6, <1>7 DEF QueryNext, Callback

\* All that QueriesTell says: with the lists and the nodes also the type of an
\* action, which is read off its feedback.
THEOREM QueriesSafety == ASSUME FeedbackIsOfServer PROVE QuerySpec => []QueriesTell
<1>1. QueryInit => ActionTypeIsServers
  BY DEF QueryInit, ActionTypeIsServers, AnswersTo
<1>2. QueriesInv /\ ActionTypeIsServers => QueriesTell
  BY DEF QueriesInv, QueriesTell
<1>3. QueriesInv /\ ActionTypeIsServers /\ [QueryNext]_query_vars => ActionTypeIsServers'
  BY ActionTypesKept
<1> QED
  BY <1>1, <1>2, <1>3, QueriesInitially, QueriesKept, PTL DEF QuerySpec

===============================================================================
