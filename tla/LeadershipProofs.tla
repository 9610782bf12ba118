-------------------------- MODULE LeadershipProofs --------------------------
(***************************************************************************)
(* The Kubernetes monitors: the leader notification, for any monitors and  *)
(* nodes and any number of elections, and what the cluster monitor of the  *)
(* leader knows, for any pods, services, workloads, events and failing     *)
(* watches.                                                                *)
(***************************************************************************)
EXTENDS Leadership, ClusterCache, SequenceTheorems, TLAPS

\* The call that holds the mutex: true is announced before isLeader is set,
\* false only afterwards, and only to subscribed channels.
CallShape ==
    /\ cb.notice = "none" => cb.rest = {}
    /\ cb.notice = "true" => isLeader = FALSE
    /\ cb.notice = "false" => isLeader = TRUE
    /\ cb.rest \subseteq noticeChans

\* Who has been sent something: nobody before the first true, and afterwards
\* every subscribed channel that the call does not have still to feed.
Told ==
    /\ isLeader = FALSE /\ cb.notice # "true" => \A m \in Monitors : sent[m] = <<>>
    /\ isLeader = TRUE => \A m \in noticeChans : sent[m] # <<>>
    /\ cb.notice = "true" => \A m \in cb.rest : sent[m] = <<>>
    /\ cb.notice = "true" => \A m \in noticeChans \ cb.rest : sent[m] # <<>>
    /\ \A m \in Monitors : sent[m] = <<>> => ch[m] = <<>>

\* The life of a monitor's subscription.
Subscribed ==
    /\ \A m \in Monitors : mon[m] \in {"new", "failed"} => sent[m] = <<>> /\ reporting[m] = "off"
    /\ \A m \in noticeChans : mon[m] \in {"loop", "stopping"} /\ m \notin Always
    /\ \A m \in Monitors : mon[m] = "done" => reporting[m] = "off"

\* Where a report comes from: a notice, a true, an election.
Elected ==
    /\ \A m \in Monitors \ Always : reporting[m] = "on" => sent[m] # <<>>
    /\ isLeader = TRUE \/ cb.notice = "true" => led = TRUE
    /\ \A c \in pending : c.id = Self => led = TRUE

LInv == TypeOK /\ CallShape /\ Told /\ Subscribed /\ Elected /\ FirstNoticeTrue

\* The initial states satisfy the inductive invariant.
LEMMA LInvInit == Init => LInv
  <1> SUFFICES ASSUME Init PROVE LInv
    OBVIOUS
  <1>1. TypeOK
    <2>1. ch \in [Monitors -> Seq(Notices)] /\ sent \in [Monitors -> Seq(Notices)]
      BY DEF Init
    <2>2. \A m \in Monitors : Len(ch[m]) <= 1
      BY DEF Init
    <2>3. cb \in [notice: Notices \union {"none"}, rest: SUBSET Monitors]
      BY DEF Init, NoCall
    <2>4. elections \in 0..MaxElections /\ pending \subseteq Calls
      BY LeadershipAssumption DEF Init
    <2>5. /\ mon \in [Monitors -> {"new", "loop", "stopping", "done", "failed"}]
          /\ stop \in [Monitors -> {"open", "closed"}]
          /\ reporting \in [Monitors -> {"off", "on"}]
      BY DEF Init
    <2> QED
      BY <2>1, <2>2, <2>3, <2>4, <2>5, Zenon DEF Init, TypeOK
  <1>2. CallShape
    BY DEF Init, CallShape, NoCall
  <1>3. Told /\ FirstNoticeTrue
    BY DEF Init, Told, NoCall, FirstNoticeTrue
  <1>4. Subscribed /\ Elected
    BY DEF Init, Subscribed, Elected, NoCall
  <1> QED
    BY <1>1, <1>2, <1>3, <1>4 DEF LInv

\* A notice appended to a channel: what Send(m, v) does to ch and sent.
LEMMA SendFacts ==
  ASSUME LInv, NEW m \in Monitors, NEW v \in Notices, Send(m, v), ch[m] = <<>>
  PROVE  /\ ch' \in [Monitors -> Seq(Notices)]
         /\ sent' \in [Monitors -> Seq(Notices)]
         /\ \A k \in Monitors : Len(ch'[k]) <= 1
         /\ \A k \in Monitors : k # m => ch'[k] = ch[k] /\ sent'[k] = sent[k]
         /\ sent'[m] # <<>>
         /\ sent[m] = <<>> => sent'[m][1] = v
         /\ sent[m] # <<>> => sent'[m][1] = sent[m][1]
  <1>1. ch \in [Monitors -> Seq(Notices)] /\ sent \in [Monitors -> Seq(Notices)]
        /\ \A k \in Monitors : Len(ch[k]) <= 1
    BY DEF LInv, TypeOK
  <1>2. ch' = [ch EXCEPT ![m] = Append(@, v)] /\ sent' = [sent EXCEPT ![m] = Append(@, v)]
    BY DEF Send
  <1>3. Append(ch[m], v) \in Seq(Notices) /\ Append(sent[m], v) \in Seq(Notices)
    BY <1>1
  <1>4. Len(Append(ch[m], v)) = 1
    BY <1>1
  <1>5. Append(sent[m], v) # <<>>
        /\ (sent[m] = <<>> => Append(sent[m], v)[1] = v)
        /\ (sent[m] # <<>> => Append(sent[m], v)[1] = sent[m][1])
    <2>1. sent[m] \in Seq(Notices) /\ (sent[m] = <<>> <=> Len(sent[m]) = 0)
      BY <1>1, EmptySeq
    <2>2. Append(sent[m], v) \in Seq(Notices) /\ Len(Append(sent[m], v)) = Len(sent[m]) + 1
      BY <2>1
    <2>3. Len(sent[m]) \in Nat
      BY <2>1
    <2>4. Append(sent[m], v) # <<>>
      BY <2>2, <2>3, EmptySeq
    <2>5. sent[m] = <<>> => Append(sent[m], v)[1] = v
      BY <2>1
    <2>6. sent[m] # <<>> => Append(sent[m], v)[1] = sent[m][1]
      BY <2>1, <2>3
    <2> QED
      BY <2>4, <2>5, <2>6
  <1> QED
    BY <1>1, <1>2, <1>3, <1>4, <1>5

\* The invariant is kept by a step that leaves it alone.
LEMMA LInvStutter == LInv /\ UNCHANGED vars => LInv'
  BY DEF LInv, TypeOK, CallShape, Told, Subscribed, Elected, FirstNoticeTrue, vars,
     Calls, Notices

\* The elector and its callbacks keep the inductive invariant.
LEMMA ElectorInd ==
  ASSUME LInv,
         (\E n \in Nodes : NewHolder(n)) \/ (\E c \in pending : OnNewLeader(c)) \/ OnNewLeaderDone
  PROVE  LInv'
  <1>1. ASSUME NEW n \in Nodes, NewHolder(n) PROVE LInv'
    <2>1. pending' \subseteq Calls /\ elections' \in 0..MaxElections
      BY <1>1, LeadershipAssumption DEF NewHolder, LInv, TypeOK, Calls
    <2>2. TypeOK'
      BY <1>1, <2>1 DEF NewHolder, LInv, TypeOK, flags, chans, goroutines
    <2>3. CallShape' /\ Told' /\ Subscribed' /\ FirstNoticeTrue'
      BY <1>1 DEF NewHolder, LInv, CallShape, Told, Subscribed, FirstNoticeTrue, flags,
         chans, goroutines
    <2>4. Elected'
      <3>1. led = TRUE \/ n = Self => led' = TRUE
        BY <1>1, Zenon DEF NewHolder
      <3>2. \A c \in pending' : c \in pending \/ c.id = n
        BY <1>1 DEF NewHolder
      <3> QED
        BY <1>1, <3>1, <3>2 DEF NewHolder, LInv, Elected, flags, chans, goroutines
    <2> QED
      BY <2>2, <2>3, <2>4 DEF LInv
  <1>2. ASSUME NEW c \in pending, OnNewLeader(c) PROVE LInv'
    <2>1. cb = NoCall /\ cb.notice = "none" /\ cb.rest = {}
      BY <1>2 DEF OnNewLeader, Free, NoCall
    <2>2. c.id \in Nodes /\ (c.id = Self => led = TRUE)
      BY <1>2 DEF LInv, TypeOK, Calls, Elected
    <2>3. \/ cb' = NoCall
          \/ cb' = [notice |-> "true", rest |-> noticeChans] /\ c.id = Self /\ isLeader = FALSE
          \/ cb' = [notice |-> "false", rest |-> noticeChans] /\ isLeader = TRUE
      BY <1>2 DEF OnNewLeader, NoticeOf, LInv, TypeOK
    <2>4. cb' \in [notice: Notices \union {"none"}, rest: SUBSET Monitors]
      BY <2>3 DEF LInv, TypeOK, NoCall, Notices
    <2>5. /\ pending' = pending \ {c} /\ leaderIdentity' = c.id
          /\ UNCHANGED <<elector, started, isLeader, noticeChans, chans, goroutines>>
      BY <1>2 DEF OnNewLeader
    <2>6. TypeOK'
      BY <2>2, <2>4, <2>5 DEF LInv, TypeOK, elector, chans, goroutines
    <2>7. CallShape'
      BY <2>3, <2>5 DEF CallShape, NoCall
    <2>8. Told'
      BY <2>1, <2>3, <2>5 DEF LInv, TypeOK, Told, NoCall, chans
    <2>9. Subscribed' /\ FirstNoticeTrue'
      BY <2>5 DEF LInv, Subscribed, FirstNoticeTrue, goroutines, chans
    <2>10. Elected'
      BY <2>1, <2>2, <2>3, <2>5 DEF LInv, Elected, NoCall, goroutines, chans, elector
    <2> QED
      BY <2>6, <2>7, <2>8, <2>9, <2>10 DEF LInv
  <1>3. ASSUME OnNewLeaderDone PROVE LInv'
    <2>1. /\ cb' = NoCall /\ cb.rest = {} /\ cb # NoCall
          /\ isLeader' = (isLeader \/ cb.notice = "true")
          /\ UNCHANGED <<elector, leaderIdentity, started, noticeChans, chans, pending, goroutines>>
      BY <1>3 DEF OnNewLeaderDone, Free
    <2>2. cb.notice \in Notices
      BY <2>1 DEF LInv, TypeOK, NoCall, Notices
    <2>3. isLeader' = TRUE
      <3>1. isLeader = TRUE \/ cb.notice = "true"
        BY <2>2 DEF LInv, CallShape, Notices
      <3> QED
        BY <2>1, <3>1, Zenon
    <2>4. cb' \in [notice: Notices \union {"none"}, rest: SUBSET Monitors]
      BY <2>1 DEF NoCall
    <2>5. TypeOK'
      BY <2>1, <2>3, <2>4 DEF LInv, TypeOK, elector, chans, goroutines
    <2>6. CallShape' /\ Subscribed' /\ FirstNoticeTrue'
      BY <2>1 DEF LInv, CallShape, Subscribed, FirstNoticeTrue, NoCall, goroutines,
         chans
    <2>7. Told'
      BY <2>1, <2>2, <2>3 DEF LInv, CallShape, Told, NoCall, chans, Notices
    <2>8. Elected'
      BY <2>1, <2>2, <2>3 DEF LInv, CallShape, Elected, NoCall, goroutines, chans,
         elector, Notices
    <2> QED
      BY <2>5, <2>6, <2>7, <2>8 DEF LInv
  <1> QED
    BY <1>1, <1>2, <1>3

\* A send to a channel keeps the inductive invariant.
LEMMA SendInd ==
  ASSUME LInv, NEW m \in Monitors, OnNewLeaderSend(m)
  PROVE  LInv'
  <1>1. /\ m \in cb.rest /\ ch[m] = <<>> /\ Send(m, cb.notice)
        /\ cb' = [cb EXCEPT !.rest = @ \ {m}]
        /\ UNCHANGED <<elector, noticeChans, flags, pending, goroutines>>
    BY DEF OnNewLeaderSend
  <1>2. cb.notice \in Notices /\ m \in noticeChans
    BY <1>1 DEF LInv, TypeOK, CallShape, Notices
  <1>3. /\ ch' \in [Monitors -> Seq(Notices)]
        /\ sent' \in [Monitors -> Seq(Notices)]
        /\ \A k \in Monitors : Len(ch'[k]) <= 1
        /\ \A k \in Monitors : k # m => ch'[k] = ch[k] /\ sent'[k] = sent[k]
        /\ sent'[m] # <<>>
        /\ sent[m] = <<>> => sent'[m][1] = cb.notice
        /\ sent[m] # <<>> => sent'[m][1] = sent[m][1]
    BY <1>1, <1>2, SendFacts
  <1>4. /\ cb' \in [notice: Notices \union {"none"}, rest: SUBSET Monitors]
        /\ cb'.notice = cb.notice /\ cb'.rest = cb.rest \ {m}
    BY Zenon, <1>1 DEF LInv, TypeOK
  <1>5. TypeOK'
    BY <1>1, <1>3, <1>4 DEF LInv, TypeOK, elector, flags, goroutines
  <1>6. CallShape'
    BY <1>1, <1>2, <1>4 DEF LInv, CallShape, flags, Notices
  <1>7. sent[m] = <<>> => cb.notice = "true"
    BY <1>2 DEF LInv, CallShape, Told, Notices
  <1>8. FirstNoticeTrue'
    BY <1>3, <1>7 DEF LInv, FirstNoticeTrue
  <1>9. Told'
    <2>1. isLeader' = isLeader /\ noticeChans' = noticeChans /\ noticeChans \subseteq Monitors
      BY <1>1 DEF flags, LInv, TypeOK
    <2>2. isLeader = FALSE => cb.notice = "true"
      BY <1>2 DEF LInv, CallShape, Notices
    <2> QED
      BY Zenon, <1>2, <1>3, <1>4, <2>1, <2>2 DEF LInv, CallShape, Told
  <1>10. Subscribed'
    BY Zenon, <1>1, <1>2, <1>3 DEF LInv, Subscribed, goroutines
  <1>11. Elected'
    BY Zenon, <1>1, <1>3, <1>4 DEF LInv, Elected, goroutines, flags, elector
  <1> QED
    BY <1>5, <1>6, <1>8, <1>9, <1>10, <1>11 DEF LInv

\* A monitor's start keeps the inductive invariant.
LEMMA StartInd ==
  ASSUME LInv, NEW m \in Monitors, StartMonitor(m)
  PROVE  LInv'
  <1>1. /\ mon[m] = "new" /\ m \notin Always
        /\ cb = NoCall /\ started' = TRUE /\ noticeChans' = noticeChans \union {m}
        /\ mon' = [mon EXCEPT ![m] = "loop"]
        /\ UNCHANGED <<elector, leaderIdentity, isLeader, pending, cb, stop, reporting, panicked>>
    BY DEF StartMonitor, RequestLeaderNotification, Free
  <1>2. sent[m] = <<>> /\ ch[m] = <<>> /\ cb.notice = "none" /\ cb.rest = {} /\ m \notin noticeChans
    BY <1>1 DEF LInv, Subscribed, Told, NoCall
  <1>3. /\ ch' \in [Monitors -> Seq(Notices)]
        /\ sent' \in [Monitors -> Seq(Notices)]
        /\ \A k \in Monitors : Len(ch'[k]) <= 1
        /\ \A k \in Monitors : k # m => ch'[k] = ch[k] /\ sent'[k] = sent[k]
        /\ isLeader = TRUE => sent'[m] # <<>> /\ sent'[m][1] = "true"
        /\ isLeader = FALSE => sent'[m] = <<>> /\ ch'[m] = <<>>
    <2>1. CASE isLeader = TRUE
      <3>1. Send(m, "true") /\ "true" \in Notices
        BY <2>1 DEF StartMonitor, RequestLeaderNotification, Notices
      <3> QED
        BY <2>1, <3>1, <1>2, SendFacts
    <2>2. CASE isLeader = FALSE
      <3>1. ch' = ch /\ sent' = sent
        BY <2>2 DEF StartMonitor, RequestLeaderNotification, chans
      <3> QED
        BY <2>2, <3>1, <1>2 DEF LInv, TypeOK
    <2> QED
      BY Zenon, <2>1, <2>2 DEF LInv, TypeOK
  <1>4. TypeOK'
    BY Zenon, <1>1, <1>3 DEF LInv, TypeOK, elector
  <1>5. CallShape'
    BY <1>1, <1>2 DEF LInv, CallShape
  <1>6. FirstNoticeTrue'
    BY <1>3 DEF LInv, TypeOK, FirstNoticeTrue
  <1>7. Told'
    <2>1. noticeChans \subseteq Monitors /\ isLeader' = isLeader /\ isLeader \in BOOLEAN /\ cb' = cb
      BY <1>1 DEF LInv, TypeOK
    <2>2. isLeader' = FALSE => \A k \in Monitors : sent'[k] = <<>>
      BY Zenon, <1>2, <1>3, <2>1 DEF LInv, Told
    <2>3. isLeader' = TRUE => \A k \in noticeChans' : sent'[k] # <<>>
      BY Zenon, <1>1, <1>3, <2>1 DEF LInv, Told
    <2>4. \A k \in Monitors : sent'[k] = <<>> => ch'[k] = <<>>
      BY Zenon, <1>3, <2>1 DEF LInv, Told
    <2> QED
      BY <1>2, <2>1, <2>2, <2>3, <2>4 DEF Told
  <1>8. Subscribed'
    <2>1. \A k \in Monitors : mon'[k] = IF k = m THEN "loop" ELSE mon[k]
      BY <1>1 DEF LInv, TypeOK
    <2>2. \A k \in noticeChans' : k = m \/ k \in noticeChans
      BY <1>1
    <2>3. noticeChans' \subseteq Monitors /\ reporting' = reporting
      BY <1>1 DEF LInv, TypeOK
    <2>4. \A k \in Monitors : mon'[k] \in {"new", "failed"} => sent'[k] = <<>> /\ reporting'[k] = "off"
      BY Zenon, <1>3, <2>1, <2>3 DEF LInv, Subscribed
    <2>5. \A k \in noticeChans' : mon'[k] \in {"loop", "stopping"} /\ k \notin Always
      BY <1>1, <2>1, <2>2, <2>3 DEF LInv, Subscribed
    <2>6. \A k \in Monitors : mon'[k] = "done" => reporting'[k] = "off"
      BY <2>1, <2>3 DEF LInv, Subscribed
    <2> QED
      BY <2>4, <2>5, <2>6, Zenon DEF Subscribed
  <1>9. Elected'
    <2>1. reporting[m] = "off"
      BY <1>1 DEF LInv, Subscribed
    <2> QED
      BY <2>1, <1>1, <1>3 DEF LInv, TypeOK, Elected, elector
  <1> QED
    BY <1>4, <1>5, <1>6, <1>7, <1>8, <1>9 DEF LInv

\* A received notice keeps the inductive invariant.
LEMMA ReceiveInd ==
  ASSUME LInv, NEW m \in Monitors, Receive(m)
  PROVE  LInv'
  <1>1. /\ mon[m] = "loop" /\ ch[m] # <<>>
        /\ ch' = [ch EXCEPT ![m] = Tail(@)]
        /\ reporting' = [reporting EXCEPT ![m] = IF Head(ch[m]) = "true" THEN "on" ELSE "off"]
        /\ UNCHANGED <<elector, noticeChans, flags, pending, cb, mon, stop, sent>>
    BY DEF Receive
  <1>2. /\ Tail(ch[m]) \in Seq(Notices) /\ Tail(ch[m]) = <<>>
        /\ Len(Tail(ch[m])) <= 1
    <2>1. ch[m] \in Seq(Notices) /\ Len(ch[m]) <= 1
      BY DEF LInv, TypeOK
    <2>2. Len(ch[m]) \in Nat \ {0}
      BY <1>1, <2>1, EmptySeq, Zenon
    <2>3. Tail(ch[m]) \in Seq(Notices) /\ Len(Tail(ch[m])) = 0
      <3>1. Tail(ch[m]) \in Seq(Notices) /\ Len(Tail(ch[m])) = Len(ch[m]) - 1
        BY <1>1, <2>1, HeadTailProperties, Zenon
      <3>2. \A n \in Nat \ {0} : n <= 1 => n = 1 /\ n - 1 = 0
        OBVIOUS
      <3> QED
        BY <2>1, <2>2, <3>1, <3>2, Zenon
    <2>4. 0 \notin Nat \ {0}
      OBVIOUS
    <2>5. Tail(ch[m]) = <<>>
      BY <2>3, <2>4, EmptySeq, Zenon
    <2> QED
      BY <2>3, <2>5
  <1>3. panicked' \in BOOLEAN
    BY Zenon DEF Receive
  <1>4. \A k \in Monitors : ch'[k] = IF k = m THEN <<>> ELSE ch[k]
    BY Zenon, <1>1, <1>2 DEF LInv, TypeOK
  <1>5. \A k \in Monitors : k # m => reporting'[k] = reporting[k]
    BY <1>1 DEF LInv, TypeOK
  <1>6. TypeOK'
    <2>1. ch' \in [Monitors -> Seq(Notices)] /\ \A k \in Monitors : Len(ch'[k]) <= 1
      BY <1>1, <1>2 DEF LInv, TypeOK
    <2>2. reporting' \in [Monitors -> {"off", "on"}]
      BY <1>1 DEF LInv, TypeOK
    <2> QED
      BY <1>1, <1>3, <2>1, <2>2 DEF LInv, TypeOK, elector, flags
  <1>7. CallShape' /\ FirstNoticeTrue'
    BY <1>1 DEF LInv, CallShape, FirstNoticeTrue, flags
  <1>8. Told'
    BY <1>1, <1>4 DEF LInv, Told, flags
  <1>9. Subscribed'
    BY <1>1, <1>5 DEF LInv, Subscribed
  <1>10. Elected'
    <2>1. sent[m] # <<>>
      BY <1>1 DEF LInv, Told
    <2> QED
      BY <2>1, <1>1, <1>5 DEF LInv, Elected, flags, elector
  <1> QED
    BY <1>6, <1>7, <1>8, <1>9, <1>10 DEF LInv

\* The other steps of a monitor keep the inductive invariant.
LEMMA MonitorInd ==
  ASSUME LInv, NEW m \in Monitors, MonitorStep(m)
  PROVE  LInv'
  <1>1. CASE StartFails(m)
    <2>1. TypeOK'
      BY <1>1 DEF LInv, TypeOK, StartFails, elector, flags, chans
    <2>2. CallShape' /\ Told' /\ FirstNoticeTrue' /\ Elected'
      BY <1>1 DEF LInv, StartFails, CallShape, Told, FirstNoticeTrue, Elected, elector,
         flags, chans
    <2>3. Subscribed'
      BY <1>1 DEF LInv, TypeOK, StartFails, Subscribed, chans
    <2> QED
      BY <2>1, <2>2, <2>3 DEF LInv
  <1>2. CASE StartAlways(m)
    <2>1. TypeOK'
      BY <1>2, Zenon DEF LInv, TypeOK, StartAlways, elector, flags, chans
    <2>2. CallShape' /\ Told' /\ FirstNoticeTrue'
      BY <1>2 DEF LInv, StartAlways, CallShape, Told, FirstNoticeTrue, elector, flags,
         chans
    <2>3. Subscribed'
      BY <1>2 DEF LInv, TypeOK, StartAlways, Subscribed, chans
    <2>4. Elected'
      BY <1>2 DEF LInv, TypeOK, StartAlways, Elected, elector, flags, chans
    <2> QED
      BY <2>1, <2>2, <2>3, <2>4 DEF LInv
  <1>3. CASE Shutdown(m)
    <2>1. TypeOK'
      BY <1>3, Zenon DEF LInv, TypeOK, Shutdown, elector, flags, chans
    <2>2. CallShape' /\ Told' /\ FirstNoticeTrue' /\ Elected' /\ Subscribed'
      BY <1>3 DEF LInv, Shutdown, CallShape, Told, FirstNoticeTrue, Elected,
         Subscribed, elector, flags, chans
    <2> QED
      BY <2>1, <2>2 DEF LInv
  <1>4. CASE TakeStop(m)
    <2>1. TypeOK'
      BY <1>4, Zenon DEF LInv, TypeOK, TakeStop, elector, flags, chans
    <2>2. CallShape' /\ Told' /\ FirstNoticeTrue' /\ Elected'
      BY <1>4 DEF LInv, TakeStop, CallShape, Told, FirstNoticeTrue, Elected, elector,
         flags, chans
    <2>3. Subscribed'
      BY <1>4 DEF LInv, TypeOK, TakeStop, Subscribed, chans
    <2> QED
      BY <2>1, <2>2, <2>3 DEF LInv
  <1>5. CASE Finish(m)
    <2>1. /\ noticeChans' = noticeChans \ {m}
          /\ cb.rest \subseteq noticeChans'
      <3>1. CASE m \in Always
        BY <1>5, <3>1 DEF LInv, Finish, Subscribed, CallShape
      <3>2. CASE m \notin Always
        BY <1>5, <3>2 DEF LInv, Finish, Unregister, Free, NoCall
      <3> QED
        BY <3>1, <3>2, Zenon
    <2>2. TypeOK'
      BY <1>5, <2>1 DEF LInv, TypeOK, Finish, elector, flags, chans
    <2>3. CallShape' /\ FirstNoticeTrue'
      <3>1. cb' = cb /\ isLeader' = isLeader /\ sent' = sent
        BY <1>5, Zenon DEF Finish, flags, chans
      <3>2. CallShape'
        BY <2>1, <3>1 DEF LInv, CallShape
      <3>3. FirstNoticeTrue'
        BY <3>1 DEF LInv, FirstNoticeTrue
      <3> QED
        BY <3>2, <3>3
    <2>4. Told'
      BY <1>5, <2>1 DEF LInv, Finish, Told, flags, chans
    <2>5. Subscribed' /\ Elected'
      BY <1>5, <2>1 DEF LInv, TypeOK, Finish, Subscribed, Elected, elector, flags, chans
    <2> QED
      BY <2>2, <2>3, <2>4, <2>5 DEF LInv
  <1> QED
    BY <1>1, <1>2, <1>3, <1>4, <1>5, StartInd, ReceiveInd DEF MonitorStep

\* LInv is an invariant of the specification.
THEOREM LeadershipInvariance == Spec => []LInv
  <1>1. LInv /\ [Next]_vars => LInv'
    BY LInvStutter, ElectorInd, SendInd, MonitorInd DEF Next
  <1> QED
    BY LInvInit, <1>1, PTL DEF Spec

\* The package's and the monitors' state stays well typed; no channel is ever
\* given more than the one notice it has room for.
THEOREM LeadershipTypeOK == Spec => []TypeOK
  <1>1. LInv => TypeOK
    BY DEF LInv
  <1> QED
    BY LeadershipInvariance, <1>1, PTL

\* The first value sent to a channel is true, as RequestLeaderNotification's
\* comment promises, for any number of monitors, nodes and elections.
THEOREM LeadershipFirstNoticeTrue == Spec => []FirstNoticeTrue
  <1>1. LInv => FirstNoticeTrue
    BY DEF LInv
  <1> QED
    BY LeadershipInvariance, <1>1, PTL

\* OnNewLeader never blocks while it announces that this node leads.
THEOREM LeadershipTrueNeverBlocks == Spec => []TrueNeverBlocks
  <1>1. LInv => TrueNeverBlocks
    BY DEF LInv, TypeOK, Told, TrueNeverBlocks
  <1> QED
    BY LeadershipInvariance, <1>1, PTL

\* A monitor that has ended neither reports nor is sent anything.
THEOREM LeadershipStoppedIsSilent == Spec => []StoppedIsSilent
  <1>1. LInv => StoppedIsSilent
    BY DEF LInv, CallShape, Subscribed, StoppedIsSilent
  <1> QED
    BY LeadershipInvariance, <1>1, PTL

\* A monitor reports only after this node has been elected.
THEOREM LeadershipReportsOnlyIfElected == Spec => []ReportsOnlyIfElected
  <1>1. LInv => ReportsOnlyIfElected
    BY DEF LInv, TypeOK, Told, Elected, ReportsOnlyIfElected
  <1> QED
    BY LeadershipInvariance, <1>1, PTL

-----------------------------------------------------------------------------
(* The Kubernetes cluster monitor                                          *)

ClusterSpec == ClusterInit /\ [][ClusterNext]_clusterVars

\* What the handlers know and have sent, with TagsComplete for it, and every
\* object but the services reported as it is cached.
HandlerState == [known : Knowledge, sent : Dimensions]
Tagged(st) ==
    \A p \in Pods : st.known.cache[p] # Absent =>
        /\ \A s \in Services : st.known.cache[p] = st.known.cache[s] => s \in st.sent.tags[p]
        /\ st.known.cache[Owner[p]] # Absent => Owner[p] \in st.sent.workload[p]
Reported(st) == \A o \in Objects \ Services : st.known.dps[o] = st.known.cache[o]

\* ReplaceFunc drops what keysSeen has: that is all that is cached.
SeenIsCached == \A k \in Kinds : keysSeen[k] = {o \in Of(k) : cached.cache[o] # Absent}

\* An object as the caches should have it, and as an event leaves it.
Current(o) == IF Exists(o) THEN api[o] ELSE Absent
After(label) == IF label = Gone THEN Absent ELSE label

\* No event about the object comes after the first n.
NoneAfter(k, o, n) == \A j \in (n + 1)..Len(events[k]) : events[k][j].object # o

\* The last event about an object says what it is now, and an object of which
\* no event is outstanding is as it was listed or cached.
LastIsCurrent(k, o) ==
    \A i \in 1..Len(events[k]) :
        events[k][i].object = o /\ NoneAfter(k, o, i) => After(events[k][i].label) = Current(o)
ListedOf(k, o) == IF o \in DOMAIN list[k] THEN list[k][o] ELSE Absent
NothingMissed(k, o) ==
    NoneAfter(k, o, position[k]) =>
        /\ reflector[k] = "replace" => ListedOf(k, o) = Current(o)
        /\ reflector[k] = "watch" => cached.cache[o] = Current(o)

ClusterInv ==
    /\ ClusterTypeOK /\ Tagged(Handlers) /\ Reported(Handlers) /\ SeenIsCached
    /\ \A k \in Kinds : \A o \in Of(k) : LastIsCurrent(k, o) /\ NothingMissed(k, o)

\* When a reflector has delivered every event, what is cached and reported of
\* its kind is what the cluster has (the safety half of CacheConverges).
CaughtUp ==
    \A k \in Kinds : \A o \in Of(k) :
        reflector[k] = "watch" /\ position[k] = Len(events[k]) =>
            /\ cached.cache[o] = Current(o)
            /\ o \notin Services => cached.dps[o] = Current(o)

\* Labels are told from objects that do not exist, and objects have one kind.
LEMMA LabelFacts == Absent \notin Labels /\ Gone \notin Labels /\ Gone # Absent
  BY DEF Labels, Absent, Gone

LEMMA KindFacts ==
    ASSUME NEW k \in Kinds
    PROVE  Of(k) \subseteq Objects /\ \A j \in Kinds \ {k} : Of(j) \intersect Of(k) = {}
  BY ClusterAssumption DEF Kinds, Of, Objects

\* The handlers told of new objects: they are cached with their labels, and
\* what was complete stays so.
LEMMA AddKept ==
    ASSUME NEW st \in HandlerState, NEW new \in Lists, Tagged(st), Reported(st)
    PROVE  /\ HandleAdd(st, new) \in HandlerState
           /\ \A o \in Objects : HandleAdd(st, new).known.cache[o] =
                 IF o \in DOMAIN new THEN new[o] ELSE st.known.cache[o]
           /\ Tagged(HandleAdd(st, new)) /\ Reported(HandleAdd(st, new))
<1> DEFINE now == With(st.known.cache, new)
           workload(p) == PodWorkload(now, new, p) \union AddWorkload(now, new, p)
           dps == CacheAdd(st.known.dps, new)
           tags == [p \in Pods |->
                      st.sent.tags[p] \union AddPod(now, new, p) \union AddService(now, new, p)]
           work == [p \in Pods |->
                      IF workload(p) = {} THEN st.sent.workload[p] ELSE workload(p)]
           res == HandleAdd(st, new)
<1>1. /\ res = [known |-> [dps |-> dps, cache |-> now], sent |-> [tags |-> tags, workload |-> work]]
      /\ res.known.cache = now /\ res.known.dps = dps /\ res.sent.tags = tags
      /\ res.sent.workload = work
      BY Zenon DEF HandleAdd
<1>2. /\ st.known.cache \in [Objects -> Labels \union {Absent}]
      /\ st.known.dps \in [Objects -> Labels \union {Absent}]
      /\ st.sent.tags \in [Pods -> SUBSET Services]
      /\ st.sent.workload \in [Pods -> SUBSET Workloads]
      BY Zenon DEF HandlerState, Knowledge, Dimensions
<1>3. \A o \in DOMAIN new : new[o] \in Labels
      BY Zenon DEF Lists
<1>4. /\ now \in [Objects -> Labels \union {Absent}] /\ dps \in [Objects -> Labels \union {Absent}]
      BY Zenon, <1>2, <1>3 DEF With, CacheAdd
<1>5. /\ \A o \in Objects : now[o] = IF o \in DOMAIN new THEN new[o] ELSE st.known.cache[o]
      /\ \A o \in Objects : dps[o] = IF o \in DOMAIN new \ Services THEN new[o] ELSE st.known.dps[o]
      BY Zenon DEF With, CacheAdd
<1> HIDE DEF now, dps
<1>6. tags \in [Pods -> SUBSET Services]
      BY Zenon, <1>2 DEF AddPod, AddService
<1>7. work \in [Pods -> SUBSET Workloads]
  <2>1. \A p \in Pods : workload(p) \subseteq Workloads
        BY Zenon, ClusterAssumption DEF PodWorkload, AddWorkload
  <2> HIDE DEF workload
  <2> QED BY Zenon, <1>2, <2>1
<1>8. res \in HandlerState
  <2> HIDE DEF tags, work
  <2>1. [dps |-> dps, cache |-> now] \in Knowledge
        BY Zenon, <1>4 DEF Knowledge
  <2>2. [tags |-> tags, workload |-> work] \in Dimensions
        BY Zenon, <1>6, <1>7 DEF Dimensions
  <2> QED BY <1>1, <2>1, <2>2 DEF HandlerState
<1>9. ASSUME NEW p \in Pods, NEW s \in Services, now[p] # Absent, now[p] = now[s]
      PROVE  s \in tags[p]
  <2>0. p \in Objects /\ s \in Objects
        BY Zenon DEF Objects
  <2>1. CASE p \in DOMAIN new
    <3>1. s \in AddPod(now, new, p)
          BY Zenon, <1>5, <1>9, <2>0, <2>1 DEF AddPod
    <3> QED BY Zenon, <3>1
  <2>2. CASE s \in DOMAIN new
    <3>1. s \in AddService(now, new, p)
          BY Zenon, <1>5, <1>9, <2>0, <2>2 DEF AddService
    <3> QED BY Zenon, <3>1
  <2>3. CASE p \notin DOMAIN new /\ s \notin DOMAIN new
    <3>1. now[p] = st.known.cache[p] /\ now[s] = st.known.cache[s]
          BY Zenon, <1>5, <2>0, <2>3
    <3>2. s \in st.sent.tags[p]
          BY Zenon, <1>9, <3>1 DEF Tagged
    <3> QED BY Zenon, <3>2
  <2> QED BY Zenon, <2>1, <2>2, <2>3
<1>10. \A o \in Objects \ Services : dps[o] = now[o]
       BY Zenon, <1>5 DEF Reported
<1>11. ASSUME NEW p \in Pods, now[p] # Absent, now[Owner[p]] # Absent
       PROVE  Owner[p] \in work[p]
  <2>0. p \in Objects /\ Owner[p] \in Objects
        BY Zenon, ClusterAssumption DEF Objects
  <2>1. CASE p \in DOMAIN new \/ Owner[p] \in DOMAIN new
    <3>1. Owner[p] \in workload(p)
          BY Zenon, <1>11, <2>1 DEF PodWorkload, AddWorkload
    <3> HIDE DEF workload
    <3> QED BY Zenon, <3>1
  <2>2. CASE p \notin DOMAIN new /\ Owner[p] \notin DOMAIN new
    <3>1. now[p] = st.known.cache[p] /\ now[Owner[p]] = st.known.cache[Owner[p]]
          BY Zenon, <1>5, <2>0, <2>2
    <3>2. Owner[p] \in st.sent.workload[p]
          BY Zenon, <1>11, <3>1 DEF Tagged
    <3>3. workload(p) \subseteq {Owner[p]}
          BY Zenon DEF PodWorkload, AddWorkload
    <3> HIDE DEF workload
    <3> QED BY <3>2, <3>3
  <2> QED BY Zenon, <2>1, <2>2
<1> HIDE DEF res, tags, work
<1>12. Tagged(res) /\ Reported(res)
       BY Zenon, <1>1, <1>9, <1>10, <1>11 DEF Tagged, Reported
<1> QED BY Zenon, <1>1, <1>5, <1>8, <1>12 DEF res

\* The handlers told of objects that are gone: nothing of them stays cached.
LEMMA DeleteKept ==
    ASSUME NEW st \in HandlerState, NEW old \in SUBSET Objects, Tagged(st), Reported(st)
    PROVE  /\ DeleteByKey(st, old) \in HandlerState
           /\ \A o \in Objects : DeleteByKey(st, old).known.cache[o] =
                 IF o \in old THEN Absent ELSE st.known.cache[o]
           /\ Tagged(DeleteByKey(st, old)) /\ Reported(DeleteByKey(st, old))
<1> DEFINE now == Without(st.known.cache, old)
           dps == CacheDelete(st.known.dps, old)
           tags == [p \in Pods |-> st.sent.tags[p] \ DeleteService(st.known.cache, old, p)]
           res == DeleteByKey(st, old)
<1>1. /\ res = [known |-> [dps |-> dps, cache |-> now],
                sent |-> [tags |-> tags, workload |-> st.sent.workload]]
      /\ res.known.cache = now /\ res.known.dps = dps /\ res.sent.tags = tags
      /\ res.sent.workload = st.sent.workload
      BY Zenon DEF DeleteByKey
<1>2. /\ st.known.cache \in [Objects -> Labels \union {Absent}]
      /\ st.known.dps \in [Objects -> Labels \union {Absent}]
      /\ st.sent.tags \in [Pods -> SUBSET Services]
      /\ st.sent.workload \in [Pods -> SUBSET Workloads]
      BY Zenon DEF HandlerState, Knowledge, Dimensions
<1>3. /\ now \in [Objects -> Labels \union {Absent}] /\ dps \in [Objects -> Labels \union {Absent}]
      BY Zenon, <1>2 DEF Without, CacheDelete
<1>4. /\ \A o \in Objects : now[o] = IF o \in old THEN Absent ELSE st.known.cache[o]
      /\ \A o \in Objects : dps[o] = IF o \in old THEN Absent ELSE st.known.dps[o]
      BY Zenon DEF Without, CacheDelete
<1> HIDE DEF now, dps
<1>5. tags \in [Pods -> SUBSET Services]
      BY Zenon, <1>2
<1>6. res \in HandlerState
  <2> HIDE DEF tags
  <2>1. [dps |-> dps, cache |-> now] \in Knowledge
        BY Zenon, <1>3 DEF Knowledge
  <2>2. [tags |-> tags, workload |-> st.sent.workload] \in Dimensions
        BY Zenon, <1>2, <1>5 DEF Dimensions
  <2> QED BY <1>1, <2>1, <2>2 DEF HandlerState
<1>7. ASSUME NEW p \in Pods, NEW s \in Services, now[p] # Absent, now[p] = now[s]
      PROVE  s \in tags[p]
  <2>0. p \in Objects /\ s \in Objects
        BY Zenon DEF Objects
  <2>1. s \notin old /\ now[p] = st.known.cache[p] /\ now[s] = st.known.cache[s]
        BY Zenon, <1>4, <1>7, <2>0
  <2>2. s \in st.sent.tags[p]
        BY Zenon, <1>7, <2>1 DEF Tagged
  <2>3. s \notin DeleteService(st.known.cache, old, p)
        BY Zenon, <2>1 DEF DeleteService
  <2> QED BY Zenon, <2>2, <2>3
<1>8. \A o \in Objects \ Services : dps[o] = now[o]
      BY Zenon, <1>4 DEF Reported
<1>9. ASSUME NEW p \in Pods, now[p] # Absent, now[Owner[p]] # Absent
      PROVE  Owner[p] \in st.sent.workload[p]
  <2>0. p \in Objects /\ Owner[p] \in Objects
        BY Zenon, ClusterAssumption DEF Objects
  <2>1. now[p] = st.known.cache[p] /\ now[Owner[p]] = st.known.cache[Owner[p]]
        BY Zenon, <1>4, <1>9, <2>0
  <2> QED BY Zenon, <1>9, <2>1 DEF Tagged
<1> HIDE DEF res, tags
<1>10. Tagged(res) /\ Reported(res)
       BY Zenon, <1>1, <1>7, <1>8, <1>9 DEF Tagged, Reported
<1> QED BY Zenon, <1>1, <1>4, <1>6, <1>10 DEF res

\* The initial states satisfy the inductive invariant.
LEMMA ClusterInitInv == ClusterInit => ClusterInv
<1> SUFFICES ASSUME ClusterInit PROVE ClusterInv
    BY Zenon
<1>1. /\ cached = [dps |-> [o \in Objects |-> Absent], cache |-> [o \in Objects |-> Absent]]
      /\ dims = [tags |-> [p \in Pods |-> {}], workload |-> [p \in Pods |-> {}]]
      /\ keysSeen = [k \in Kinds |-> {}] /\ events = [k \in Kinds |-> <<>>]
      /\ reflector = [k \in Kinds |-> "none"]
      /\ list = [k \in Kinds |-> [o \in {} |-> Absent]] /\ position = [k \in Kinds |-> 0]
      BY Zenon DEF ClusterInit
<1>2. cached \in Knowledge /\ dims \in Dimensions
      BY Zenon, <1>1 DEF Knowledge, Dimensions
<1>3. \A o \in Objects : cached.cache[o] = Absent /\ cached.dps[o] = Absent
      BY Zenon, <1>1
<1>4. [o \in {} |-> Absent] \in Lists /\ DOMAIN [o \in {} |-> Absent] = {}
  <2>1. [o \in {} |-> Absent] \in [{} -> Labels]
        BY Zenon
  <2> QED BY Zenon, <2>1 DEF Lists
<1>5. list \in [Kinds -> Lists] /\ \A k \in Kinds : DOMAIN list[k] = {}
      BY Zenon, <1>1, <1>4
<1>6. events \in [Kinds -> Seq([object : Objects, label : Labels \union {Gone}])]
        /\ \A k \in Kinds : Len(events[k]) = 0
      BY <1>1
<1>7. ClusterTypeOK
  <2>1. api \in [Objects -> Labels \union {Absent, Gone}]
        BY DEF ClusterInit, Labels
  <2>2. /\ breaks \in 0..MaxBreaks /\ sync \in {"no", "yes", "cancelled"}
        /\ position \in [Kinds -> Nat] /\ \A k \in Kinds : position[k] <= Len(events[k])
    <3>1. 0 \in 0..MaxBreaks /\ 0 \in Nat /\ 0 <= 0
          BY ClusterAssumption
    <3> QED BY Zenon, <1>6, <3>1 DEF ClusterInit
  <2>3. \A k \in Kinds : \A i \in 1..Len(events[k]) : events[k][i].object \in Of(k)
        BY <1>6
  <2>4. /\ reflector \in [Kinds -> {"none", "list", "replace", "watch", "ended"}]
        /\ keysSeen \in [Kinds -> SUBSET Objects]
        /\ \A k \in Kinds : DOMAIN list[k] \union keysSeen[k] \subseteq Of(k)
        BY Zenon, <1>1, <1>5
  <2> QED BY Zenon, <1>2, <1>5, <1>6, <2>1, <2>2, <2>3, <2>4 DEF ClusterTypeOK
<1>8. Tagged(Handlers) /\ Reported(Handlers)
  <2>1. \A p \in Pods : p \in Objects
        BY Zenon DEF Objects
  <2> QED BY Zenon, <1>3, <2>1 DEF Tagged, Reported, Handlers
<1>9. SeenIsCached
      BY Zenon, <1>1, <1>3, KindFacts DEF SeenIsCached
<1>10. \A k \in Kinds : \A o \in Of(k) : LastIsCurrent(k, o) /\ NothingMissed(k, o)
       BY <1>1, <1>6 DEF LastIsCurrent, NothingMissed
<1> QED BY Zenon, <1>7, <1>8, <1>9, <1>10 DEF ClusterInv

\* Steps that touch neither the cluster, its events nor the stores, and begin
\* no watch, keep the invariant.
LEMMA QuietCluster ==
    ASSUME ClusterInv, UNCHANGED <<api, events, position, list, keysSeen, cached, dims>>,
           breaks' \in 0..MaxBreaks, sync' \in {"no", "yes", "cancelled"},
           reflector' \in [Kinds -> {"none", "list", "replace", "watch", "ended"}],
           \A k \in Kinds : reflector'[k] \in {"replace", "watch"} => reflector'[k] = reflector[k]
    PROVE  ClusterInv'
<1>1. ClusterTypeOK'
      BY Zenon DEF ClusterInv, ClusterTypeOK
<1>2. (Tagged(Handlers) /\ Reported(Handlers))'
      BY Zenon DEF ClusterInv, Tagged, Reported, Handlers
<1>3. SeenIsCached'
      BY Zenon DEF ClusterInv, SeenIsCached
<1>4. ASSUME NEW k \in Kinds, NEW o \in Of(k)
      PROVE  (LastIsCurrent(k, o) /\ NothingMissed(k, o))'
  <2>1. LastIsCurrent(k, o) /\ NothingMissed(k, o)
        BY Zenon DEF ClusterInv
  <2>2. LastIsCurrent(k, o)'
        BY Zenon, <2>1 DEF LastIsCurrent, NoneAfter, Current, Exists
  <2>3. NothingMissed(k, o)'
        BY Zenon, <2>1 DEF NothingMissed, NoneAfter, Current, Exists, ListedOf
  <2> QED BY Zenon, <2>2, <2>3
<1> QED BY Zenon, <1>1, <1>2, <1>3, <1>4 DEF ClusterInv

\* A watch fails, the monitor starts or stops to synchronise, a reflector ends.
LEMMA QuietSteps ==
    ASSUME ClusterInv,
           \/ StartSync \/ StopSync \/ UNCHANGED clusterVars
           \/ \E k \in Kinds : WatchBreaks(k) \/ ReflectorEnds(k)
    PROVE  ClusterInv'
<1>0. /\ breaks \in 0..MaxBreaks /\ sync \in {"no", "yes", "cancelled"}
      /\ reflector \in [Kinds -> {"none", "list", "replace", "watch", "ended"}]
      BY Zenon DEF ClusterInv, ClusterTypeOK
<1>1. UNCHANGED <<api, events, position, list, keysSeen, cached, dims>>
      BY Zenon DEF StartSync, StopSync, WatchBreaks, ReflectorEnds, clusterVars, server, stores
<1>2. breaks' \in 0..MaxBreaks
      BY <1>0, ClusterAssumption DEF StartSync, StopSync, WatchBreaks, ReflectorEnds, clusterVars
<1>3. sync' \in {"no", "yes", "cancelled"}
      BY Zenon, <1>0 DEF StartSync, StopSync, WatchBreaks, ReflectorEnds, clusterVars
<1>4. /\ reflector' \in [Kinds -> {"none", "list", "replace", "watch", "ended"}]
      /\ \A k \in Kinds : reflector'[k] = reflector[k] \/ reflector'[k] \in {"list", "ended"}
      BY Zenon, <1>0 DEF StartSync, StopSync, WatchBreaks, ReflectorEnds, clusterVars
<1>5. \A k \in Kinds : reflector'[k] \in {"replace", "watch"} => reflector'[k] = reflector[k]
      BY <1>4
<1> QED BY Zenon, <1>1, <1>2, <1>3, <1>4, <1>5, QuietCluster

\* An event in the log of its kind is the last about its object, and leaves the
\* events of the other objects as they are.
LEMMA LogFacts ==
    ASSUME ClusterTypeOK, NEW k \in Kinds, NEW o \in Of(k), NEW to \in Labels \union {Gone},
           events' = [events EXCEPT ![k] = Append(@, [object |-> o, label |-> to])]
    PROVE  /\ events' \in [Kinds -> Seq([object : Objects, label : Labels \union {Gone}])]
           /\ \A j \in Kinds \ {k} : events'[j] = events[j]
           /\ Len(events[k]) \in Nat /\ Len(events'[k]) = Len(events[k]) + 1
           /\ \A i \in 1..Len(events[k]) : events'[k][i] = events[k][i]
           /\ events'[k][Len(events[k]) + 1] = [object |-> o, label |-> to]
<1> DEFINE T == [object : Objects, label : Labels \union {Gone}]
           e == [object |-> o, label |-> to]
<1>1. events \in [Kinds -> Seq(T)] /\ o \in Objects
      BY Zenon, KindFacts DEF ClusterTypeOK
<1>2. e \in T
      BY Zenon, <1>1
<1> HIDE DEF T, e
<1>3. events[k] \in Seq(T)
      BY Zenon, <1>1
<1>4. /\ Append(events[k], e) \in Seq(T) /\ Len(events[k]) \in Nat
      /\ Len(Append(events[k], e)) = Len(events[k]) + 1
      /\ \A i \in 1..Len(events[k]) : Append(events[k], e)[i] = events[k][i]
      /\ Append(events[k], e)[Len(events[k]) + 1] = e
      BY <1>2, <1>3
<1>5. /\ events' \in [Kinds -> Seq(T)] /\ events'[k] = Append(events[k], e)
      /\ \A j \in Kinds \ {k} : events'[j] = events[j]
  <2>1. events' = [events EXCEPT ![k] = Append(events[k], e)]
        BY Zenon DEF e
  <2> QED BY Zenon, <1>1, <1>4, <2>1
<1> QED BY Zenon, <1>4, <1>5 DEF T, e

\* An object changes: its last event says what it is now.
LEMMA ObjectChangesInv ==
    ASSUME ClusterInv, NEW k \in Kinds, NEW o \in Of(k), ObjectChanges(k, o)
    PROVE  ClusterInv'
<1>0. ClusterTypeOK /\ o \in Objects
      BY Zenon, KindFacts DEF ClusterInv
<1>1. PICK to \in Labels \union {Gone} :
         /\ api' = [api EXCEPT ![o] = to]
         /\ events' = [events EXCEPT ![k] = Append(@, [object |-> o, label |-> to])]
      BY Zenon DEF ObjectChanges
<1>2. UNCHANGED <<breaks, sync, reflector, position, list, keysSeen, cached, dims>>
      BY Zenon DEF ObjectChanges, stores
<1> DEFINE n == Len(events[k])
           e == [object |-> o, label |-> to]
<1>3. /\ events' \in [Kinds -> Seq([object : Objects, label : Labels \union {Gone}])]
      /\ \A j \in Kinds \ {k} : events'[j] = events[j]
      /\ n \in Nat /\ Len(events'[k]) = n + 1
      /\ \A i \in 1..n : events'[k][i] = events[k][i]
      /\ events'[k][n + 1] = e
  <2>1. events' = [events EXCEPT ![k] = Append(@, e)]
        BY Zenon, <1>1
  <2> QED BY Zenon, <1>0, <2>1, LogFacts
<1>4. events'[k][n + 1].object = o /\ events'[k][n + 1].label = to
  <2>1. e.object = o /\ e.label = to
        OBVIOUS
  <2> HIDE DEF e
  <2> QED BY Zenon, <1>3, <2>1
<1>5. api' \in [Objects -> Labels \union {Absent, Gone}] /\ api'[o] = to
        /\ \A x \in Objects \ {o} : api'[x] = api[x]
      BY Zenon, <1>0, <1>1 DEF ClusterTypeOK
<1>6. Current(o)' = After(to) /\ \A x \in Objects \ {o} : Current(x)' = Current(x)
      BY Zenon, <1>5, LabelFacts DEF Current, Exists, After
<1>7. ClusterTypeOK'
  <2>1. ASSUME NEW j \in Kinds
        PROVE  /\ position[j] <= Len(events'[j])
               /\ \A i \in 1..Len(events'[j]) : events'[j][i].object \in Of(j)
    <3>1. /\ position[j] <= Len(events[j]) /\ position[j] \in Nat
          /\ \A i \in 1..Len(events[j]) : events[j][i].object \in Of(j)
          BY Zenon, <1>0 DEF ClusterTypeOK
    <3>2. CASE j = k
      <4> HIDE DEF n
      <4>1. position[k] <= n /\ position[k] \in Nat
            BY Zenon, <3>1, <3>2 DEF n
      <4>2. position[k] <= n + 1 /\ \A i \in 1..(n + 1) : i \in 1..n \/ i = n + 1
            BY <1>3, <4>1
      <4>3. \A i \in 1..n : events[k][i].object \in Of(k)
            BY Zenon, <3>1, <3>2 DEF n
      <4> QED BY Zenon, <1>3, <1>4, <3>2, <4>2, <4>3
    <3>3. CASE j # k
          BY Zenon, <1>3, <3>1, <3>3
    <3> QED BY Zenon, <3>2, <3>3
  <2> QED BY Zenon, <1>0, <1>2, <1>3, <1>5, <2>1 DEF ClusterTypeOK
<1>8. (Tagged(Handlers) /\ Reported(Handlers))' /\ SeenIsCached'
      BY Zenon, <1>2 DEF ClusterInv, Tagged, Reported, Handlers, SeenIsCached
<1>9. ASSUME NEW j \in Kinds, NEW x \in Of(j)
      PROVE  (LastIsCurrent(j, x) /\ NothingMissed(j, x))'
  <2>1. LastIsCurrent(j, x) /\ NothingMissed(j, x) /\ x \in Objects
        BY Zenon, KindFacts DEF ClusterInv
  <2>2. CASE j # k
    <3>1. Current(x)' = Current(x) /\ events'[j] = events[j]
          BY Zenon, <1>3, <1>6, <2>1, <2>2, KindFacts
    <3>2. LastIsCurrent(j, x)'
          BY Zenon, <2>1, <3>1 DEF LastIsCurrent, NoneAfter
    <3>3. NothingMissed(j, x)'
          BY Zenon, <1>2, <2>1, <3>1 DEF NothingMissed, NoneAfter, ListedOf
    <3> QED BY Zenon, <3>2, <3>3
  <2>3. CASE j = k
    <3>1. ASSUME NEW m \in Nat, m <= n, NoneAfter(k, x, m)'
          PROVE  x # o /\ NoneAfter(k, x, m)
      <4>1. n + 1 \in (m + 1)..Len(events'[k]) /\ (m + 1)..n \subseteq (m + 1)..Len(events'[k])
        <5>1. PICK b \in Nat : b = n /\ Len(events'[k]) = b + 1
              BY Zenon, <1>3
        <5>2. b + 1 \in (m + 1)..(b + 1) /\ (m + 1)..b \subseteq (m + 1)..(b + 1)
              BY <3>1, <5>1
        <5> QED BY Zenon, <5>1, <5>2
      <4>2. \A i \in (m + 1)..n : events'[k][i] = events[k][i]
        <5>1. PICK b \in Nat : b = n
              BY Zenon, <1>3
        <5>2. \A i \in (m + 1)..b : i \in 1..b
              BY <3>1, <5>1
        <5> QED BY Zenon, <1>3, <5>1, <5>2
      <4>3. \A i \in (m + 1)..Len(events'[k]) : events'[k][i].object # x
            BY Zenon, <3>1 DEF NoneAfter
      <4>4. x # o
            BY Zenon, <1>4, <4>1, <4>3
      <4>5. \A i \in (m + 1)..n : events[k][i].object # x
            BY Zenon, <4>1, <4>2, <4>3
      <4> QED BY Zenon, <4>4, <4>5 DEF NoneAfter
    <3>2. ASSUME NEW i \in 1..Len(events'[k]), events'[k][i].object = x, NoneAfter(k, x, i)'
          PROVE  After(events'[k][i].label) = Current(x)'
      <4>1. CASE i = n + 1
            BY Zenon, <1>4, <1>6, <3>2, <4>1
      <4>2. CASE i # n + 1
        <5>1. i \in Nat /\ i <= n /\ i \in 1..n
              BY <1>3, <4>2
        <5>2. x # o /\ NoneAfter(k, x, i) /\ events'[k][i] = events[k][i]
              BY Zenon, <1>3, <3>1, <3>2, <5>1
        <5>3. After(events[k][i].label) = Current(x)
              BY Zenon, <2>1, <2>3, <3>2, <5>1, <5>2 DEF LastIsCurrent
        <5>4. Current(x)' = Current(x)
              BY Zenon, <1>6, <2>1, <5>2
        <5>5. After(events'[k][i].label) = After(events[k][i].label)
              BY Zenon, <5>2
        <5> QED BY Zenon, <5>3, <5>4, <5>5
      <4> QED BY Zenon, <4>1, <4>2
    <3>3. LastIsCurrent(j, x)'
          BY Zenon, <2>3, <3>2 DEF LastIsCurrent, NoneAfter
    <3>4. position[k] \in Nat /\ position[k] <= n
          BY Zenon, <1>0 DEF ClusterTypeOK
    <3>5. NoneAfter(k, x, position[k])' => x # o /\ NoneAfter(k, x, position[k])
          BY Zenon, <1>2, <3>1, <3>4 DEF NoneAfter
    <3>6. NothingMissed(j, x)'
          BY Zenon, <1>2, <1>6, <2>1, <2>3, <3>5 DEF NothingMissed, ListedOf
    <3> QED BY Zenon, <3>3, <3>6
  <2> QED BY Zenon, <2>2, <2>3
<1> QED BY Zenon, <1>7, <1>8, <1>9 DEF ClusterInv

\* A list has every object of the kind as it is, and covers the events so far.
LEMMA ListKindInv ==
    ASSUME ClusterInv, NEW k \in Kinds, ListKind(k)
    PROVE  ClusterInv'
<1> DEFINE now == [o \in {x \in Of(k) : Exists(x)} |-> api[o]]
<1>0. ClusterTypeOK
      BY Zenon DEF ClusterInv
<1>1. /\ list' = [list EXCEPT ![k] = now] /\ position' = [position EXCEPT ![k] = Len(events[k])]
      /\ reflector' = [reflector EXCEPT ![k] = "replace"]
      /\ UNCHANGED <<api, events, breaks, sync, keysSeen, cached, dims>>
      BY Zenon DEF ListKind, server, stores
<1>2. now \in Lists /\ DOMAIN now \subseteq Of(k)
  <2>1. now \in [{x \in Of(k) : Exists(x)} -> Labels]
        BY Zenon DEF Exists
  <2>2. {x \in Of(k) : Exists(x)} \in SUBSET Objects
        BY Zenon, KindFacts
  <2> QED BY Zenon, <2>1, <2>2 DEF Lists
<1>3. \A o \in Of(k) : Current(o) = IF o \in DOMAIN now THEN now[o] ELSE Absent
      BY Zenon DEF Current
<1> HIDE DEF now
<1>4. Len(events[k]) \in Nat /\ Len(events[k]) <= Len(events[k])
      BY <1>0 DEF ClusterTypeOK
<1>5. /\ list' \in [Kinds -> Lists] /\ list'[k] = now
      /\ position' \in [Kinds -> Nat] /\ position'[k] = Len(events[k])
      /\ reflector' \in [Kinds -> {"none", "list", "replace", "watch", "ended"}]
      /\ reflector'[k] = "replace"
      /\ \A j \in Kinds \ {k} :
            list'[j] = list[j] /\ position'[j] = position[j] /\ reflector'[j] = reflector[j]
      BY Zenon, <1>0, <1>1, <1>2, <1>4 DEF ClusterTypeOK
<1>6. ClusterTypeOK'
  <2>1. ASSUME NEW j \in Kinds
        PROVE  position'[j] <= Len(events[j]) /\ DOMAIN list'[j] \union keysSeen[j] \subseteq Of(j)
    <3>1. position[j] <= Len(events[j]) /\ DOMAIN list[j] \union keysSeen[j] \subseteq Of(j)
          BY Zenon, <1>0 DEF ClusterTypeOK
    <3>2. CASE j = k
          BY Zenon, <1>2, <1>4, <1>5, <3>1, <3>2
    <3>3. CASE j # k
          BY Zenon, <1>5, <3>1, <3>3
    <3> QED BY Zenon, <3>2, <3>3
  <2> QED BY Zenon, <1>0, <1>1, <1>5, <2>1 DEF ClusterTypeOK
<1>7. (Tagged(Handlers) /\ Reported(Handlers))' /\ SeenIsCached'
      BY Zenon, <1>1 DEF ClusterInv, Tagged, Reported, Handlers, SeenIsCached
<1>8. ASSUME NEW j \in Kinds, NEW x \in Of(j)
      PROVE  (LastIsCurrent(j, x) /\ NothingMissed(j, x))'
  <2>1. LastIsCurrent(j, x) /\ NothingMissed(j, x) /\ Current(x)' = Current(x)
        BY Zenon, <1>1 DEF ClusterInv, Current, Exists
  <2>2. LastIsCurrent(j, x)'
        BY Zenon, <1>1, <2>1 DEF LastIsCurrent, NoneAfter
  <2>3. CASE j = k
    <3>1. ListedOf(k, x)' = Current(x) /\ reflector'[k] # "watch"
          BY <1>3, <1>5, <2>3 DEF ListedOf
    <3> QED BY Zenon, <2>1, <2>2, <2>3, <3>1 DEF NothingMissed
  <2>4. CASE j # k
    <3>1. NothingMissed(j, x)'
          BY Zenon, <1>1, <1>5, <2>1, <2>4 DEF NothingMissed, NoneAfter, ListedOf
    <3> QED BY Zenon, <2>2, <3>1
  <2> QED BY Zenon, <2>3, <2>4
<1> QED BY Zenon, <1>6, <1>7, <1>8 DEF ClusterInv

\* A function of a store keeps the invariant when it leaves the other kinds
\* alone, and its own kind as the events that it covers say.
LEMMA StoreStep ==
    ASSUME ClusterInv, NEW k \in Kinds, NEW st \in HandlerState, Tagged(st), Reported(st),
           cached' = st.known, dims' = st.sent, NEW seen,
           keysSeen' = [keysSeen EXCEPT ![k] = seen],
           seen = {o \in Of(k) : st.known.cache[o] # Absent},
           \A o \in Objects \ Of(k) : st.known.cache[o] = cached.cache[o],
           UNCHANGED <<api, events, breaks, sync, list>>,
           position' \in [Kinds -> Nat], position'[k] <= Len(events[k]),
           reflector' \in [Kinds -> {"none", "list", "replace", "watch", "ended"}],
           reflector'[k] = "watch",
           \A j \in Kinds \ {k} : position'[j] = position[j] /\ reflector'[j] = reflector[j],
           \A o \in Of(k) : NoneAfter(k, o, position'[k]) => st.known.cache[o] = Current(o)
    PROVE  ClusterInv'
<1>0. ClusterTypeOK
      BY Zenon DEF ClusterInv
<1>1. /\ keysSeen' \in [Kinds -> SUBSET Objects] /\ keysSeen'[k] = seen
      /\ \A j \in Kinds \ {k} : keysSeen'[j] = keysSeen[j]
  <2>1. seen \in SUBSET Objects
        BY Zenon, KindFacts
  <2> QED BY Zenon, <1>0, <2>1 DEF ClusterTypeOK
<1>2. cached' \in Knowledge /\ dims' \in Dimensions
      BY Zenon DEF HandlerState
<1>3. ClusterTypeOK'
  <2>1. ASSUME NEW j \in Kinds
        PROVE  position'[j] <= Len(events[j]) /\ DOMAIN list[j] \union keysSeen'[j] \subseteq Of(j)
    <3>1. position[j] <= Len(events[j]) /\ DOMAIN list[j] \union keysSeen[j] \subseteq Of(j)
          BY Zenon, <1>0 DEF ClusterTypeOK
    <3>2. CASE j = k
          BY Zenon, <1>1, <3>1, <3>2
    <3>3. CASE j # k
          BY Zenon, <1>1, <3>1, <3>3
    <3> QED BY Zenon, <3>2, <3>3
  <2> QED BY Zenon, <1>0, <1>1, <1>2, <2>1 DEF ClusterTypeOK
<1>4. (Tagged(Handlers) /\ Reported(Handlers))'
      BY Zenon DEF Tagged, Reported, Handlers
<1>5. ASSUME NEW j \in Kinds, j # k, NEW o \in Of(j)
      PROVE  st.known.cache[o] = cached.cache[o]
      BY Zenon, <1>5, KindFacts
<1>6. SeenIsCached'
  <2>1. ASSUME NEW j \in Kinds
        PROVE  keysSeen'[j] = {o \in Of(j) : st.known.cache[o] # Absent}
    <3>1. CASE j = k
          BY Zenon, <1>1, <3>1
    <3>2. CASE j # k
      <4>1. keysSeen[j] = {o \in Of(j) : cached.cache[o] # Absent}
            BY Zenon DEF ClusterInv, SeenIsCached
      <4>2. \A o \in Of(j) : st.known.cache[o] = cached.cache[o]
            BY Zenon, <1>5, <3>2
      <4>3. keysSeen'[j] = keysSeen[j]
            BY Zenon, <1>1, <3>2
      <4> QED BY Zenon, <4>1, <4>2, <4>3
    <3> QED BY Zenon, <3>1, <3>2
  <2> QED BY Zenon, <2>1 DEF SeenIsCached
<1>7. ASSUME NEW j \in Kinds, NEW x \in Of(j)
      PROVE  (LastIsCurrent(j, x) /\ NothingMissed(j, x))'
  <2>1. LastIsCurrent(j, x) /\ NothingMissed(j, x) /\ Current(x)' = Current(x)
        BY Zenon DEF ClusterInv, Current, Exists
  <2>2. LastIsCurrent(j, x)'
        BY Zenon, <2>1 DEF LastIsCurrent, NoneAfter
  <2>3. CASE j = k
    <3>1. NoneAfter(k, x, position[k])' => st.known.cache[x] = Current(x)
          BY Zenon, <2>3 DEF NoneAfter
    <3>2. reflector'[k] # "replace"
          OBVIOUS
    <3>3. NothingMissed(j, x)'
          BY Zenon, <2>1, <2>3, <3>1, <3>2 DEF NothingMissed
    <3> QED BY Zenon, <2>2, <3>3
  <2>4. CASE j # k
    <3>1. st.known.cache[x] = cached.cache[x] /\ position'[j] = position[j] /\ reflector'[j] = reflector[j]
          BY Zenon, <1>5, <2>4
    <3>2. NothingMissed(j, x)'
          BY Zenon, <2>1, <3>1 DEF NothingMissed, NoneAfter, ListedOf
    <3> QED BY Zenon, <2>2, <3>2
  <2> QED BY Zenon, <2>3, <2>4
<1> QED BY Zenon, <1>3, <1>4, <1>6, <1>7 DEF ClusterInv

\* A list replaces what the store had of its kind.
LEMMA ReplaceKindInv ==
    ASSUME ClusterInv, NEW k \in Kinds, ReplaceKind(k)
    PROVE  ClusterInv'
<1> DEFINE d == DeleteByKey(Handlers, keysSeen[k])
           st == HandleAdd(d, list[k])
<1>0. ClusterTypeOK /\ Tagged(Handlers) /\ Reported(Handlers)
      BY Zenon DEF ClusterInv
<1>1. /\ reflector[k] = "replace" /\ reflector' = [reflector EXCEPT ![k] = "watch"]
      /\ cached' = st.known /\ dims' = st.sent
      /\ keysSeen' = [keysSeen EXCEPT ![k] = DOMAIN list[k]]
      /\ UNCHANGED <<api, events, breaks, sync, position, list>>
      BY Zenon DEF ReplaceKind, ReplaceFunc, Handled, server
<1>2. Handlers \in HandlerState /\ Handlers.known = cached
      BY Zenon, <1>0 DEF ClusterTypeOK, HandlerState, Handlers
<1>3. keysSeen[k] \in SUBSET Objects /\ list[k] \in Lists /\ DOMAIN list[k] \subseteq Of(k)
        /\ keysSeen[k] \subseteq Of(k) /\ Of(k) \subseteq Objects
      BY Zenon, <1>0, KindFacts DEF ClusterTypeOK
<1>4. /\ d \in HandlerState /\ Tagged(d) /\ Reported(d)
      /\ \A o \in Objects : d.known.cache[o] = IF o \in keysSeen[k] THEN Absent ELSE cached.cache[o]
  <2>1. /\ d \in HandlerState /\ Tagged(d) /\ Reported(d)
        /\ \A o \in Objects : d.known.cache[o] =
              IF o \in keysSeen[k] THEN Absent ELSE Handlers.known.cache[o]
        BY Zenon, <1>0, <1>2, <1>3, DeleteKept
  <2> HIDE DEF d
  <2> QED BY Zenon, <1>2, <2>1
<1> HIDE DEF d
<1>5. /\ st \in HandlerState /\ Tagged(st) /\ Reported(st)
      /\ \A o \in Objects : st.known.cache[o] =
            IF o \in DOMAIN list[k] THEN list[k][o] ELSE d.known.cache[o]
      BY Zenon, <1>3, <1>4, AddKept
<1> HIDE DEF st
<1>6. \A o \in Of(k) : st.known.cache[o] = ListedOf(k, o)
  <2>1. \A o \in Of(k) : o \notin keysSeen[k] => cached.cache[o] = Absent
        BY Zenon DEF ClusterInv, SeenIsCached
  <2> QED BY Zenon, <1>3, <1>4, <1>5, <2>1 DEF ListedOf
<1>7. \A o \in Objects \ Of(k) : st.known.cache[o] = cached.cache[o]
      BY Zenon, <1>3, <1>4, <1>5
<1>8. DOMAIN list[k] = {o \in Of(k) : st.known.cache[o] # Absent}
  <2>1. \A o \in DOMAIN list[k] : list[k][o] # Absent
    <3>1. PICK S \in SUBSET Objects : list[k] \in [S -> Labels]
          BY Zenon, <1>3 DEF Lists
    <3> QED BY Zenon, <3>1, LabelFacts
  <2> QED BY Zenon, <1>3, <1>6, <2>1 DEF ListedOf
<1>9. \A o \in Of(k) : NoneAfter(k, o, position'[k]) => st.known.cache[o] = Current(o)
      BY Zenon, <1>1, <1>6 DEF ClusterInv, NothingMissed
<1>10. /\ position' \in [Kinds -> Nat] /\ position'[k] <= Len(events[k])
       /\ reflector' \in [Kinds -> {"none", "list", "replace", "watch", "ended"}]
       /\ reflector'[k] = "watch"
       /\ \A j \in Kinds \ {k} : position'[j] = position[j] /\ reflector'[j] = reflector[j]
       BY Zenon, <1>0, <1>1 DEF ClusterTypeOK
<1>11. PICK seen : /\ seen = {o \in Of(k) : st.known.cache[o] # Absent}
                   /\ keysSeen' = [keysSeen EXCEPT ![k] = seen]
       BY Zenon, <1>1, <1>8
<1>12. cached' = st.known /\ dims' = st.sent /\ UNCHANGED <<api, events, breaks, sync, list>>
       BY Zenon, <1>1
<1> QED BY Zenon, <1>5, <1>7, <1>9, <1>10, <1>11, <1>12, StoreStep

\* An event leaves its object cached as it says.
LEMMA DeliverEventInv ==
    ASSUME ClusterInv, NEW k \in Kinds, DeliverEvent(k)
    PROVE  ClusterInv'
<1> DEFINE n == position[k] + 1
           e == events[k][n]
<1>0. ClusterTypeOK /\ Tagged(Handlers) /\ Reported(Handlers)
      BY Zenon DEF ClusterInv
<1>1. /\ reflector[k] = "watch" /\ position[k] < Len(events[k])
      /\ IF e.label = Gone THEN DeleteFunc(k, e.object) ELSE AddFunc(k, e.object, e.label)
      /\ position' = [position EXCEPT ![k] = n]
      /\ UNCHANGED <<api, events, breaks, sync, reflector, list>>
      BY Zenon DEF DeliverEvent, server
<1>2. /\ n \in 1..Len(events[k]) /\ n \in Nat /\ n <= Len(events[k]) /\ position[k] \in Nat
  <2>1. Len(events[k]) \in Nat /\ position[k] \in Nat
        BY <1>0 DEF ClusterTypeOK
  <2>2. \A a, b \in Nat : a < b => a + 1 \in 1..b /\ a + 1 \in Nat /\ a + 1 <= b
        OBVIOUS
  <2> QED BY Zenon, <1>1, <2>1, <2>2
<1>3. e \in [object : Objects, label : Labels \union {Gone}] /\ e.object \in Of(k)
  <2>1. events[k] \in Seq([object : Objects, label : Labels \union {Gone}])
        BY Zenon, <1>0 DEF ClusterTypeOK
  <2> DEFINE Event == [object : Objects, label : Labels \union {Gone}]
  <2>2. \A f \in Seq(Event) : \A i \in 1..Len(f) : f[i] \in Event
    <3> HIDE DEF Event
    <3> QED OBVIOUS
  <2>3. e \in Event
        BY Zenon, <1>2, <2>1, <2>2
  <2> QED BY Zenon, <1>0, <1>2, <2>3 DEF ClusterTypeOK
<1>4. PICK o \in Of(k), label \in Labels \union {Gone} : o = e.object /\ label = e.label
      BY Zenon, <1>3
<1>5. Handlers \in HandlerState /\ Handlers.known = cached /\ o \in Objects
      BY Zenon, <1>0, KindFacts DEF ClusterTypeOK, HandlerState, Handlers
<1>6. keysSeen[k] = {x \in Of(k) : cached.cache[x] # Absent}
      BY Zenon DEF ClusterInv, SeenIsCached
<1>7. PICK st \in HandlerState :
         /\ Tagged(st) /\ Reported(st) /\ cached' = st.known /\ dims' = st.sent
         /\ \A x \in Objects : st.known.cache[x] = IF x = o THEN After(label) ELSE cached.cache[x]
         /\ keysSeen' = [keysSeen EXCEPT ![k] = {x \in Of(k) : st.known.cache[x] # Absent}]
  <2>1. CASE label = Gone
    <3> DEFINE st == DeleteByKey(Handlers, {o})
    <3>1. cached' = st.known /\ dims' = st.sent /\ keysSeen' = [keysSeen EXCEPT ![k] = @ \ {o}]
          BY Zenon, <1>1, <1>4, <2>1 DEF DeleteFunc, Handled
    <3>2. /\ st \in HandlerState /\ Tagged(st) /\ Reported(st)
          /\ \A x \in Objects : st.known.cache[x] = IF x \in {o} THEN Absent ELSE cached.cache[x]
      <4>1. {o} \in SUBSET Objects
            BY Zenon, <1>5
      <4>2. /\ st \in HandlerState /\ Tagged(st) /\ Reported(st)
            /\ \A x \in Objects : st.known.cache[x] =
                  IF x \in {o} THEN Absent ELSE Handlers.known.cache[x]
            BY Zenon, <1>0, <1>5, <4>1, DeleteKept
      <4> HIDE DEF st
      <4> QED BY Zenon, <1>5, <4>2
    <3> HIDE DEF st
    <3>3. \A x \in Objects : st.known.cache[x] = IF x = o THEN After(label) ELSE cached.cache[x]
          BY Zenon, <2>1, <3>2 DEF After
    <3>4. keysSeen[k] \ {o} = {x \in Of(k) : st.known.cache[x] # Absent}
          BY Zenon, <1>6, <3>2, KindFacts
    <3> QED BY Zenon, <3>1, <3>2, <3>3, <3>4
  <2>2. CASE label # Gone
    <3> DEFINE new == [x \in {o} |-> label]
               st == HandleAdd(Handlers, new)
    <3>1. cached' = st.known /\ dims' = st.sent /\ keysSeen' = [keysSeen EXCEPT ![k] = @ \union {o}]
          BY Zenon, <1>1, <1>4, <2>2 DEF AddFunc, Handled
    <3>2. label \in Labels /\ label # Absent
          BY Zenon, <2>2, LabelFacts
    <3>3. new \in Lists /\ DOMAIN new = {o} /\ new[o] = label
      <4>1. new \in [{o} -> Labels] /\ {o} \in SUBSET Objects
            BY Zenon, <1>5, <3>2
      <4> QED BY Zenon, <4>1 DEF Lists
    <3> HIDE DEF new
    <3>4. /\ st \in HandlerState /\ Tagged(st) /\ Reported(st)
          /\ \A x \in Objects : st.known.cache[x] = IF x \in DOMAIN new THEN new[x] ELSE cached.cache[x]
          BY Zenon, <1>0, <1>5, <3>3, AddKept
    <3> HIDE DEF st
    <3>5. \A x \in Objects : st.known.cache[x] = IF x = o THEN After(label) ELSE cached.cache[x]
          BY Zenon, <2>2, <3>3, <3>4 DEF After
    <3>6. keysSeen[k] \union {o} = {x \in Of(k) : st.known.cache[x] # Absent}
          BY Zenon, <1>6, <3>2, <3>3, <3>4, KindFacts
    <3> QED BY Zenon, <3>1, <3>4, <3>5, <3>6
  <2> QED BY Zenon, <2>1, <2>2
<1>8. \A x \in Objects \ Of(k) : st.known.cache[x] = cached.cache[x]
      BY Zenon, <1>7
<1>9. /\ position' \in [Kinds -> Nat] /\ position'[k] = n
      /\ reflector' \in [Kinds -> {"none", "list", "replace", "watch", "ended"}]
      /\ reflector'[k] = "watch"
      /\ \A j \in Kinds \ {k} : position'[j] = position[j] /\ reflector'[j] = reflector[j]
      BY Zenon, <1>0, <1>1, <1>2 DEF ClusterTypeOK
<1>10. ASSUME NEW x \in Of(k), NoneAfter(k, x, n)
       PROVE  st.known.cache[x] = Current(x)
  <2>0. LastIsCurrent(k, x) /\ NothingMissed(k, x) /\ x \in Objects
        BY Zenon, KindFacts DEF ClusterInv
  <2>1. CASE x = o
    <3>1. After(label) = Current(x)
          BY Zenon, <1>2, <1>4, <1>10, <2>0, <2>1 DEF LastIsCurrent
    <3> QED BY Zenon, <1>7, <2>0, <2>1, <3>1
  <2>2. CASE x # o
    <3>1. \A j \in (position[k] + 1)..Len(events[k]) : j = n \/ j \in (n + 1)..Len(events[k])
          BY <1>2
    <3>2. NoneAfter(k, x, position[k])
          BY Zenon, <1>4, <1>10, <2>2, <3>1 DEF NoneAfter
    <3> QED BY Zenon, <1>1, <1>7, <2>0, <2>2, <3>2 DEF NothingMissed
  <2> QED BY Zenon, <2>1, <2>2
<1> HIDE DEF n, e
<1>11. \A x \in Of(k) : NoneAfter(k, x, position'[k]) => st.known.cache[x] = Current(x)
       BY Zenon, <1>9, <1>10
<1> QED BY Zenon, <1>1, <1>2, <1>7, <1>8, <1>9, <1>11, StoreStep

\* Every step keeps the inductive invariant.
LEMMA ClusterNextInv == ClusterInv /\ [ClusterNext]_clusterVars => ClusterInv'
<1> SUFFICES ASSUME ClusterInv, [ClusterNext]_clusterVars PROVE ClusterInv'
    BY Zenon
<1>1. ASSUME NEW k \in Kinds,
             ListKind(k) \/ ReplaceKind(k) \/ DeliverEvent(k) \/ ReflectorEnds(k) \/ WatchBreaks(k)
      PROVE  ClusterInv'
      BY Zenon, <1>1, ListKindInv, ReplaceKindInv, DeliverEventInv, QuietSteps
<1> QED BY Zenon, <1>1, ObjectChangesInv, QuietSteps DEF ClusterNext, ReflectorStep

\* The state of the cluster monitor stays well typed.
THEOREM ClusterTypes == ClusterSpec => []ClusterTypeOK
<1>1. ClusterInv => ClusterTypeOK
      BY Zenon DEF ClusterInv
<1> QED BY <1>1, ClusterInitInv, ClusterNextInv, PTL DEF ClusterSpec

\* A cached pod has the tag of every cached service that selects it, in whatever
\* order the reflectors list, relabel and delete pods and services (HandleAdd
\* and DeleteByKey of the dimension handler).
THEOREM ClusterTagsComplete == ClusterSpec => []TagsComplete
<1>1. ClusterInv => TagsComplete
      BY Zenon DEF ClusterInv, Tagged, Handlers, TagsComplete
<1> QED BY <1>1, ClusterInitInv, ClusterNextInv, PTL DEF ClusterSpec

\* When a reflector has delivered all events, the caches of its kind have what
\* the cluster has: neither a list (ReplaceFunc) nor a failing watch leaves an
\* object behind that is gone, or misses one that exists.
THEOREM ClusterCaughtUp == ClusterSpec => []CaughtUp
<1>1. ClusterInv => CaughtUp
  <2> SUFFICES ASSUME ClusterInv, NEW k \in Kinds, NEW o \in Of(k),
                      reflector[k] = "watch", position[k] = Len(events[k])
               PROVE  /\ cached.cache[o] = Current(o)
                      /\ o \notin Services => cached.dps[o] = Current(o)
      BY Zenon DEF CaughtUp
  <2>1. NoneAfter(k, o, position[k])
    <3>1. Len(events[k]) \in Nat
          BY DEF ClusterInv, ClusterTypeOK
    <3>2. \A b \in Nat : (b + 1)..b = {}
          OBVIOUS
    <3> QED BY Zenon, <3>1, <3>2 DEF NoneAfter
  <2>2. cached.cache[o] = Current(o)
        BY Zenon, <2>1 DEF ClusterInv, NothingMissed
  <2> QED BY Zenon, <2>2, KindFacts DEF ClusterInv, Reported, Handlers
<1> QED BY <1>1, ClusterInitInv, ClusterNextInv, PTL DEF ClusterSpec
=============================================================================
