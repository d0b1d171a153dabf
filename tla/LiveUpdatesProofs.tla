-------------------------- MODULE LiveUpdatesProofs --------------------------
(***************************************************************************)
(* Proofs about LiveUpdates for any size of the hub's buffer and any       *)
(* number of events on their way: its types, that a subscription never     *)
(* gives up, and that what a page shows is old only while something that   *)
(* will renew it is still on its way.                                      *)
(***************************************************************************)
EXTENDS LiveUpdates, TLAPS

-----------------------------------------------------------------------------
(* The backend's side and the connection keep their types, in each step of *)
(* theirs.                                                                 *)
LEMMA ConnectionStepTypes ==
    ASSUME ConnectionTypeOK,
           \/ Subscribe \/ Unsubscribe \/ Resubscribe \/ Arrive \/ Respond
           \/ \E n \in 1 .. WireRoom : ReadEvents(n)
           \/ Break \/ Fail \/ TimerFires \/ GoOffline \/ GoOnline \/ Online
    PROVE  ConnectionTypeOK'
<1> USE StreamAssumption DEF ConnectionTypeOK, StreamTypeOK, connectionVars, streamVars,
        Closed, Connecting
<1>1. CASE Subscribe \/ Unsubscribe \/ Resubscribe
    BY <1>1 DEF Subscribe, Unsubscribe, Resubscribe
<1>2. CASE Arrive \/ Respond
    BY <1>2 DEF Arrive, Accept, Respond
<1>3. CASE \E n \in 1 .. WireRoom : ReadEvents(n)
    BY <1>3 DEF ReadEvents
<1>4. CASE Break \/ Fail
    BY <1>4 DEF Break, Fail
<1>5. CASE TimerFires \/ GoOffline \/ GoOnline \/ Online
    BY <1>5 DEF TimerFires, GoOffline, GoOnline, Online
<1> QED BY <1>1, <1>2, <1>3, <1>4, <1>5

(* So do the steps at the server. *)
LEMMA ServerStepTypes ==
    ASSUME ConnectionTypeOK, UNCHANGED connectionVars,
           \/ Announce \/ WriteEvent \/ Heartbeat \/ ListenBreaks \/ ListenAgain
    PROVE  ConnectionTypeOK'
<1> USE StreamAssumption DEF ConnectionTypeOK, StreamTypeOK, connectionVars
<1>1. CASE Announce
    BY <1>1 DEF Announce, Publish
<1>2. CASE WriteEvent \/ Heartbeat
    BY <1>2 DEF WriteEvent, Heartbeat, Unread
<1>3. CASE ListenBreaks \/ ListenAgain
    BY <1>3 DEF ListenBreaks, ListenAgain
<1> QED BY <1>1, <1>2, <1>3

(* A step that changes neither side keeps their types. *)
LEMMA SameConnectionTypes ==
    ASSUME ConnectionTypeOK, UNCHANGED sseVars PROVE ConnectionTypeOK'
BY DEF ConnectionTypeOK, StreamTypeOK, sseVars, streamVars, connectionVars

(* What is pending after a mutation was sent or carried out. *)
LEMMA Ops ==
    SendJoin \/ SendLeave \/ SendStart \/ Join \/ Leave \/ Start => mutation' \in Operations
<1>1. \A op \in {"join", "leave", "start"}, done \in BOOLEAN :
          Op(op, done) \in Operations
    BY DEF Op, Operations
<1>2. \/ mutation' \in {Op("join", FALSE), Op("join", TRUE)}
      \/ mutation' \in {Op("leave", FALSE), Op("leave", TRUE)}
      \/ mutation' \in {Op("start", FALSE), Op("start", TRUE)}
      \/ ~ (SendJoin \/ SendLeave \/ SendStart \/ Join \/ Leave \/ Start)
    BY DEF SendJoin, SendLeave, SendStart, Join, Leave, Start
<1> QED BY <1>1, <1>2

(* Every step keeps the types. *)
LEMMA LiveNextTypes == LiveTypeOK /\ [LiveNext]_liveVars => LiveTypeOK'
<1> SUFFICES ASSUME LiveTypeOK, [LiveNext]_liveVars PROVE LiveTypeOK'
    OBVIOUS
<1> DEFINE ClientOK ==
              /\ server \in Status
              /\ cache \in {None} \cup Status
              /\ request \in {None, "sent"} \cup Status
              /\ mutation \in {None} \cup Operations
              /\ {failed, again, watched, missed} \subseteq BOOLEAN
<1>0. ConnectionTypeOK /\ ClientOK
    BY DEF LiveTypeOK
<1>9. ConnectionTypeOK' /\ ClientOK' => LiveTypeOK'
    BY DEF LiveTypeOK
<1>1. CASE Granted \/ Ended \/ OtherEvent
    <2>1. Announce /\ UNCHANGED connectionVars
        BY <1>1 DEF Granted, Ended, OtherEvent, Commit, Announce
    <2>2. ClientOK'
        BY <1>0, <1>1 DEF Granted, Ended, OtherEvent, Commit, clientVars, cacheVars,
           Status, Watchable
    <2> QED BY <1>0, <1>9, <2>1, <2>2, ServerStepTypes
<1>2. CASE Serve \/ Receive \/ RequestFails \/ OpenPage \/ SendJoin \/ SendLeave \/ SendStart
    <2>1. UNCHANGED sseVars
        BY <1>2 DEF Serve, Receive, RequestFails, OpenPage, SendJoin, SendLeave, SendStart
    <2>2. ClientOK'
        <3>1. CASE Serve \/ OpenPage
            BY <1>0, <3>1 DEF Serve, OpenPage, Refetch
        <3>2. CASE SendJoin \/ SendLeave \/ SendStart
            <4>1. mutation' \in Operations
                BY <3>2, Ops
            <4>2. UNCHANGED <<server, cache, request, failed, again, watched, missed>>
                BY <3>2 DEF SendJoin, SendLeave, SendStart, cacheVars
            <4> QED BY <1>0, <4>1, <4>2
        <3>3. CASE Receive
            <4>1. request' \in {None, "sent"} /\ again' \in BOOLEAN
                BY <3>3 DEF Receive, FetchEnds
            <4>2. failed' = FALSE /\ watched' \in BOOLEAN
                BY <3>3 DEF Receive
            <4>3. cache' \in Status
                BY <3>3 DEF Receive
            <4>4. UNCHANGED <<server, mutation, missed>>
                BY <3>3 DEF Receive
            <4> QED BY <1>0, <4>1, <4>2, <4>3, <4>4
        <3>4. CASE RequestFails
            BY <1>0, <3>4 DEF RequestFails, FetchEnds
        <3> QED BY <1>2, <3>1, <3>2, <3>3, <3>4
    <2> QED BY <1>0, <1>9, <2>1, <2>2, SameConnectionTypes
<1>3. CASE Join \/ Leave \/ Start
    <2>4. (missed \/ ~ listening) \in BOOLEAN
        OBVIOUS
    <2>1. (Announce /\ UNCHANGED connectionVars) \/ UNCHANGED sseVars
        BY <1>3 DEF Join, Leave, Start, Commit, Announce
    <2>2. ClientOK'
        <3>1. server' \in Status /\ missed' \in BOOLEAN
            BY <1>0, <1>3, <2>4 DEF Join, Leave, Start, Commit, Status, Watchable, sseVars
        <3>2. mutation' \in Operations
            BY <1>3, Ops
        <3>3. UNCHANGED <<cache, request, failed, again, watched>>
            BY <1>3 DEF Join, Leave, Start, cacheVars
        <3> QED BY <1>0, <3>1, <3>2, <3>3
    <2>3. ConnectionTypeOK'
        BY <1>0, <2>1, ServerStepTypes, SameConnectionTypes
    <2> QED BY <1>9, <2>2, <2>3
<1>4. CASE MutationAnswered \/ MutationFails
    <2>1. UNCHANGED sseVars
        BY <1>4 DEF MutationAnswered, MutationFails
    <2>2. ClientOK'
        BY <1>0, <1>4 DEF MutationAnswered, MutationFails, MutationEnds
    <2> QED BY <1>0, <1>9, <2>1, <2>2, SameConnectionTypes
<1>5. CASE RunEffect \/ RerunEffect \/ Connected \/ Read
    <2>1. \/ Subscribe \/ Unsubscribe \/ Resubscribe \/ Respond
          \/ \E n \in 1 .. WireRoom : ReadEvents(n)
        BY <1>5 DEF RunEffect, RerunEffect, Connected, Read
    <2>2. ClientOK'
        BY <1>0, <1>5 DEF RunEffect, RerunEffect, Connected, Read, Refetch, Invalidate
    <2> QED BY <1>0, <1>9, <2>1, <2>2, ConnectionStepTypes
<1>6. CASE \/ Quietly(Arrive) \/ Quietly(Break) \/ Quietly(Fail) \/ Quietly(TimerFires)
           \/ Quietly(GoOffline) \/ Quietly(GoOnline) \/ Quietly(Online)
    <2>1. Arrive \/ Break \/ Fail \/ TimerFires \/ GoOffline \/ GoOnline \/ Online
        BY <1>6 DEF Quietly
    <2>2. ClientOK'
        BY <1>0, <1>6 DEF Quietly, clientVars, cacheVars
    <2> QED BY <1>0, <1>9, <2>1, <2>2, ConnectionStepTypes
<1>7. CASE \/ Quietly(AtServer(WriteEvent)) \/ Quietly(AtServer(Heartbeat))
           \/ Quietly(AtServer(ListenBreaks)) \/ Quietly(AtServer(ListenAgain))
    <2>1. /\ UNCHANGED connectionVars
          /\ WriteEvent \/ Heartbeat \/ ListenBreaks \/ ListenAgain
        BY <1>7 DEF Quietly, AtServer
    <2>2. ClientOK'
        BY <1>0, <1>7 DEF Quietly, clientVars, cacheVars
    <2> QED BY <1>0, <1>9, <2>1, <2>2, ServerStepTypes
<1>8. CASE UNCHANGED liveVars
    <2>1. UNCHANGED sseVars
        BY <1>8 DEF liveVars
    <2>2. ClientOK'
        BY <1>0, <1>8 DEF liveVars, clientVars, cacheVars
    <2> QED BY <1>0, <1>9, <2>1, <2>2, SameConnectionTypes
<1> QED BY <1>1, <1>2, <1>3, <1>4, <1>5, <1>6, <1>7, <1>8 DEF LiveNext

(* The hub's buffer stays within its size and the cache holds answers,     *)
(* whatever requests, signals and connections do.                          *)
THEOREM LiveTypeCorrect == LiveSpec => []LiveTypeOK
<1>1. LiveInit => LiveTypeOK
    BY StreamAssumption DEF LiveInit, LiveTypeOK, ConnectionInit, ConnectionTypeOK,
       StreamInit, StreamTypeOK, Status, Watchable
<1> QED BY <1>1, LiveNextTypes, PTL DEF LiveSpec

-----------------------------------------------------------------------------
(* NeverGivesUp is inductive with what a cleanup leaves behind: nothing.   *)
Tries ==
    /\ ConnectionTypeOK
    /\ NeverGivesUp
    /\ ~ subscribed => phase = "idle" /\ ~ timer

(* Every step of the connection, and every step that leaves it alone,      *)
(* keeps a subscription trying.                                            *)
LEMMA ConnectionStepTries ==
    ASSUME Tries, ConnectionTypeOK',
           \/ Subscribe \/ Unsubscribe \/ Resubscribe \/ Arrive \/ Respond
           \/ \E n \in 1 .. WireRoom : ReadEvents(n)
           \/ Break \/ Fail \/ TimerFires \/ GoOffline \/ GoOnline \/ Online
           \/ UNCHANGED connectionVars
    PROVE  Tries'
<1> USE DEF Tries, NeverGivesUp, ConnectionTypeOK
<1>1. CASE Subscribe \/ Unsubscribe \/ Resubscribe
    BY <1>1 DEF Subscribe, Unsubscribe, Resubscribe, Connecting
<1>2. CASE Arrive \/ Break \/ (\E n \in 1 .. WireRoom : ReadEvents(n)) \/ UNCHANGED connectionVars
    BY <1>2 DEF Arrive, Break, ReadEvents, connectionVars
<1>3. CASE Respond \/ Fail
    BY <1>3 DEF Respond, Fail
<1>4. CASE TimerFires \/ Online
    BY <1>4 DEF TimerFires, Online, Connecting
<1>5. CASE GoOffline \/ GoOnline
    BY <1>5 DEF GoOffline, GoOnline
<1> QED BY <1>1, <1>2, <1>3, <1>4, <1>5

(* Which steps of the whole system are steps of the connection. *)
LEMMA LiveNextConnection ==
    [LiveNext]_liveVars =>
        \/ Subscribe \/ Unsubscribe \/ Resubscribe \/ Arrive \/ Respond
        \/ \E n \in 1 .. WireRoom : ReadEvents(n)
        \/ Break \/ Fail \/ TimerFires \/ GoOffline \/ GoOnline \/ Online
        \/ UNCHANGED connectionVars
<1> SUFFICES ASSUME [LiveNext]_liveVars
             PROVE  \/ Subscribe \/ Unsubscribe \/ Resubscribe \/ Arrive \/ Respond
                    \/ \E n \in 1 .. WireRoom : ReadEvents(n)
                    \/ Break \/ Fail \/ TimerFires \/ GoOffline \/ GoOnline \/ Online
                    \/ UNCHANGED connectionVars
    OBVIOUS
<1>1. CASE \/ Granted \/ Ended \/ OtherEvent \/ Join \/ Leave \/ Start
    BY <1>1 DEF Granted, Ended, OtherEvent, Join, Leave, Start, Commit, Announce, sseVars
<1>2. CASE \/ Serve \/ Receive \/ RequestFails \/ OpenPage \/ SendJoin \/ SendLeave \/ SendStart
           \/ MutationAnswered \/ MutationFails \/ UNCHANGED liveVars
    BY <1>2 DEF Serve, Receive, RequestFails, OpenPage, SendJoin, SendLeave, SendStart,
       MutationAnswered, MutationFails, liveVars, sseVars
<1>3. CASE RunEffect \/ RerunEffect \/ Connected \/ Read
    BY <1>3 DEF RunEffect, RerunEffect, Connected, Read
<1>4. CASE \/ Quietly(Arrive) \/ Quietly(Break) \/ Quietly(Fail) \/ Quietly(TimerFires)
           \/ Quietly(GoOffline) \/ Quietly(GoOnline) \/ Quietly(Online)
           \/ Quietly(AtServer(WriteEvent)) \/ Quietly(AtServer(Heartbeat))
           \/ Quietly(AtServer(ListenBreaks)) \/ Quietly(AtServer(ListenAgain))
    BY <1>4 DEF Quietly, AtServer
<1> QED BY <1>1, <1>2, <1>3, <1>4 DEF LiveNext

(* Whatever the rest of the system does, the connection tries. *)
LEMMA AlwaysTries == LiveSpec => []Tries
<1>1. LiveInit => Tries
    BY StreamAssumption DEF LiveInit, Tries, ConnectionInit, ConnectionTypeOK, StreamInit,
       StreamTypeOK, NeverGivesUp
<1>2. Tries /\ LiveTypeOK' /\ [LiveNext]_liveVars => Tries'
    BY LiveNextConnection, ConnectionStepTries DEF LiveTypeOK
<1> QED BY <1>1, <1>2, LiveTypeCorrect, PTL DEF LiveSpec

(* A subscription that is not connected has a retry scheduled, or waits    *)
(* for the browser to be online: in any order of errors, timers, online    *)
(* events, subscriptions and cleanups, and whatever the rest of the system *)
(* does.                                                                   *)
THEOREM KeepsTrying == LiveSpec => []NeverGivesUp
<1>1. Tries => NeverGivesUp
    BY DEF Tries
<1> QED BY <1>1, AlwaysTries, PTL

-----------------------------------------------------------------------------
(***************************************************************************)
(* A page is not left with an old state.  What it shows, and the answer    *)
(* that is on its way to it, may differ from the database's state only     *)
(* with a reason: something that fetches again is pending, a signal is on  *)
(* its way, or the subscription that would bring one is not there yet.     *)
(***************************************************************************)

(* The stream has something to tell, or is going to be made again.         *)
Signal == subscribed /\ (phase # "reading" \/ hub = None \/ hub > 0 \/ wire > 0)

Pending == again \/ mutation # None

(* Only a join leads from no entry to an entry, and its end fetches.       *)
AnswerCovered ==
    /\ request = "OUT" /\ server # "OUT" => Pending
    /\ request \in Watchable /\ request # server => Pending \/ missed \/ Signal \/ ~ subscribed

CacheCovered ==
    /\ cache = None => request # None \/ failed
    /\ request = None /\ cache \notin Watchable /\ server # "OUT" => Pending \/ failed
    /\ request = None /\ cache \in Watchable /\ cache # server
           => Pending \/ failed \/ missed \/ Signal \/ subscribed # watched
    /\ request = None /\ mutation = None /\ ~ failed => (watched <=> cache \in Watchable)

(* A response that is read has begun. *)
ReadingBegun == phase = "reading" /\ hub # None => wire # None

Fresh == LiveTypeOK /\ ReadingBegun /\ AnswerCovered /\ CacheCovered

LEMMA FreshImplies == Fresh => StaleIsTemporary
BY LiveAssumption DEF Fresh, LiveTypeOK, AnswerCovered, CacheCovered, StaleIsTemporary,
   Unsettled, Signal, Pending, Status, Watchable

(* What does not concern the page: it still comes with its reason. *)
LEMMA QuietFresh ==
    ASSUME Fresh, LiveTypeOK', UNCHANGED <<server, clientVars, missed, subscribed>>,
           Signal => Signal', ReadingBegun'
    PROVE  Fresh'
<1>1. UNCHANGED <<cache, failed, request, again, mutation, watched>>
    BY DEF clientVars, cacheVars
<1>2. AnswerCovered' /\ CacheCovered'
    BY <1>1 DEF Fresh, AnswerCovered, CacheCovered, Pending
<1> QED BY <1>2 DEF Fresh

(* The steps of the stream keep what it has to tell. *)
LEMMA StreamSignals ==
    ASSUME ConnectionTypeOK, ConnectionTypeOK', ReadingBegun,
           \/ Arrive \/ Break \/ Fail \/ TimerFires \/ GoOffline \/ GoOnline \/ Online
           \/ /\ Announce \/ WriteEvent \/ Heartbeat \/ ListenBreaks \/ ListenAgain
              /\ UNCHANGED connectionVars
    PROVE  UNCHANGED subscribed /\ (Signal => Signal') /\ ReadingBegun'
<1> USE StreamAssumption DEF ConnectionTypeOK, StreamTypeOK, Signal, ReadingBegun, connectionVars,
        streamVars
<1>1. CASE Arrive \/ Break \/ Fail
    BY <1>1 DEF Arrive, Accept, Break, Fail, Closed
<1>2. CASE TimerFires \/ GoOffline \/ GoOnline \/ Online
    BY <1>2 DEF TimerFires, GoOffline, GoOnline, Online, Connecting
<1>3. CASE Announce /\ UNCHANGED connectionVars
    BY <1>3 DEF Announce, Publish
<1>4. CASE (WriteEvent \/ Heartbeat) /\ UNCHANGED connectionVars
    BY <1>4 DEF WriteEvent, Heartbeat, Unread
<1>5. CASE (ListenBreaks \/ ListenAgain) /\ UNCHANGED connectionVars
    BY <1>5 DEF ListenBreaks, ListenAgain
<1> QED BY <1>1, <1>2, <1>3, <1>4, <1>5

(* A change that is announced reaches a subscription, or LISTEN was down. *)
LEMMA CommitSignals ==
    ASSUME ConnectionTypeOK, ConnectionTypeOK', ReadingBegun, NEW status, Commit(status)
    PROVE  /\ UNCHANGED subscribed /\ (Signal => Signal') /\ ReadingBegun'
           /\ missed => missed'
           /\ missed' \/ Signal' \/ ~ subscribed
<1>1. Announce /\ UNCHANGED connectionVars /\ missed' = (missed \/ ~ listening)
    BY DEF Commit, Announce
<1>2. UNCHANGED subscribed /\ (Signal => Signal') /\ ReadingBegun'
    BY <1>1, StreamSignals
<1>3. ASSUME listening, subscribed PROVE Signal'
    BY <1>1, <1>3, StreamAssumption DEF Announce, Publish, Signal, ConnectionTypeOK, StreamTypeOK,
       connectionVars
<1> QED BY <1>1, <1>2, <1>3

-----------------------------------------------------------------------------
(* Transactions of others, and of the mutation that is pending.            *)
LEMMA ServerFresh ==
    ASSUME Fresh, LiveTypeOK', Granted \/ Ended \/ Join \/ Leave \/ Start
    PROVE  Fresh'
<1>1. ConnectionTypeOK /\ ConnectionTypeOK' /\ ReadingBegun
    BY DEF Fresh, LiveTypeOK
<1>2. /\ UNCHANGED <<cache, failed, request, again, watched>>
      /\ mutation # None => mutation' # None
      /\ server' # "OUT" => server # "OUT" \/ mutation' # None
    <2>1. CASE Granted \/ Ended
        BY <2>1 DEF Granted, Ended, Commit, clientVars, cacheVars, Watchable
    <2>2. CASE Join \/ Leave \/ Start
        <3>1. mutation' # None
            BY <2>2, Ops, LiveAssumption
        <3> QED BY <2>2, <3>1 DEF Join, Leave, Start, cacheVars
    <2> QED BY <2>1, <2>2
<1>3. /\ UNCHANGED subscribed /\ (Signal => Signal') /\ ReadingBegun'
      /\ missed => missed'
      /\ missed' \/ Signal' \/ ~ subscribed \/ mutation' # None
    <2>1. CASE Commit("GRANTED") \/ Commit("CHECKOUT_PENDING") \/ Commit("OUT")
        BY <1>1, <2>1, CommitSignals
    <2>2. CASE UNCHANGED <<sseVars, missed>> /\ mutation' # None
        BY <1>1, <2>2 DEF sseVars, streamVars, connectionVars, Signal, ReadingBegun
    <2>3. CASE Join \/ Leave \/ Start
        <3>1. mutation' # None
            BY <2>3, Ops, LiveAssumption
        <3> QED BY <2>1, <2>2, <2>3, <3>1 DEF Join, Leave, Start
    <2> QED BY <2>1, <2>3 DEF Granted, Ended
<1>4. request \in Status => request # None
    BY LiveAssumption
<1>5. AnswerCovered'
    BY <1>2, <1>3 DEF Fresh, AnswerCovered, Pending
<1>6. CacheCovered'
    BY <1>2, <1>3 DEF Fresh, CacheCovered, Pending
<1> QED BY <1>3, <1>5, <1>6 DEF Fresh

(* Requests and their answers. *)
LEMMA RequestFresh ==
    ASSUME Fresh, LiveTypeOK', Serve \/ Receive \/ RequestFails \/ OpenPage
    PROVE  Fresh'
<1> USE LiveAssumption
<1>1. UNCHANGED <<sseVars, server, mutation>>
    BY DEF Serve, Receive, RequestFails, OpenPage
<1>2. UNCHANGED <<subscribed, Signal>> /\ ReadingBegun'
    BY <1>1 DEF Fresh, sseVars, streamVars, connectionVars, Signal, ReadingBegun
<1>3. LiveTypeOK /\ AnswerCovered /\ CacheCovered
    BY DEF Fresh
<1>4. AnswerCovered' /\ CacheCovered'
    <2>1. CASE Serve
        BY <1>1, <1>2, <1>3, <2>1 DEF Serve, AnswerCovered, CacheCovered, Pending, LiveTypeOK, Status,
           Watchable
    <2>2. CASE OpenPage
        BY <1>1, <1>2, <1>3, <2>2 DEF OpenPage, Refetch, AnswerCovered, CacheCovered, Pending, Status,
           Watchable
    <2>3. CASE Receive
        BY <1>1, <1>2, <1>3, <2>3 DEF Receive, FetchEnds, AnswerCovered, CacheCovered, Pending,
           LiveTypeOK, Status, Watchable
    <2>4. CASE RequestFails
        BY <1>1, <1>2, <1>3, <2>4 DEF RequestFails, FetchEnds, AnswerCovered, CacheCovered, Pending,
           LiveTypeOK, Status, Watchable
    <2> QED BY <2>1, <2>2, <2>3, <2>4
<1> QED BY <1>2, <1>4 DEF Fresh

(* A mutation is sent, and ends: then the state is fetched. *)
LEMMA MutationFresh ==
    ASSUME Fresh, LiveTypeOK',
           SendJoin \/ SendLeave \/ SendStart \/ MutationAnswered \/ MutationFails
    PROVE  Fresh'
<1> USE LiveAssumption
<1>1. UNCHANGED <<sseVars, server, cache, failed, missed>>
    BY DEF SendJoin, SendLeave, SendStart, MutationAnswered, MutationFails, cacheVars
<1>2. UNCHANGED <<subscribed, Signal>> /\ ReadingBegun'
    BY <1>1 DEF Fresh, sseVars, streamVars, connectionVars, Signal, ReadingBegun
<1>3. LiveTypeOK /\ AnswerCovered /\ CacheCovered
    BY DEF Fresh
<1>4. CASE SendJoin \/ SendLeave \/ SendStart
    <2>1. mutation' # None
        BY <1>4, Ops
    <2>2. UNCHANGED <<request, again, watched>>
        BY <1>4 DEF SendJoin, SendLeave, SendStart, cacheVars
    <2> QED BY <1>1, <1>2, <1>3, <2>1, <2>2 DEF Fresh, AnswerCovered, CacheCovered, Pending
<1>5. CASE MutationAnswered \/ MutationFails
    <2>1. \/ request = None /\ request' = "sent"
          \/ request # None /\ again' /\ request' = request
        BY <1>5 DEF MutationAnswered, MutationFails, MutationEnds
    <2> QED BY <1>1, <1>2, <1>3, <2>1 DEF Fresh, AnswerCovered, CacheCovered, Pending, Status,
        Watchable
<1> QED BY <1>4, <1>5

(* A subscription begins with a fetch; the one that ends was of a product  *)
(* that is not watched, and not watched is what has no entry.              *)
LEMMA EffectFresh ==
    ASSUME Fresh, Tries, LiveTypeOK', RunEffect \/ RerunEffect
    PROVE  Fresh'
<1> USE LiveAssumption
<1>1. UNCHANGED <<server, cache, failed, again, mutation, watched, missed>>
    BY DEF RunEffect, RerunEffect
<1>2. LiveTypeOK /\ AnswerCovered /\ CacheCovered /\ ConnectionTypeOK /\ ReadingBegun
    BY DEF Fresh, LiveTypeOK
<1>3. CASE watched /\ Refetch /\ (Subscribe \/ Resubscribe)
    <2>1. request' # None /\ (request' = request \/ request' = "sent")
        BY <1>3 DEF Refetch
    <2>2. subscribed' /\ phase' # "reading"
        BY <1>2, <1>3 DEF Subscribe, Resubscribe, Connecting, Tries, ConnectionTypeOK
    <2>3. Signal' /\ ReadingBegun'
        BY <2>2 DEF Signal, ReadingBegun
    <2> QED BY <1>1, <1>2, <2>1, <2>3 DEF Fresh, AnswerCovered, CacheCovered, Pending, Status,
        Watchable
<1>4. CASE ~ watched /\ Unsubscribe /\ UNCHANGED request
    <2>1. ~ subscribed' /\ ReadingBegun'
        BY <1>4 DEF Unsubscribe, Closed, ReadingBegun
    <2> QED BY <1>1, <1>2, <1>4, <2>1 DEF Fresh, AnswerCovered, CacheCovered, Pending
<1> QED BY <1>3, <1>4 DEF RunEffect, RerunEffect

(* A stream that is there, and an event, are answered with a fetch.        *)
LEMMA SignalFresh ==
    ASSUME Fresh, LiveTypeOK', Connected \/ Read
    PROVE  Fresh'
<1> USE LiveAssumption
<1>1. UNCHANGED <<server, cache, failed, mutation, watched, missed, subscribed>>
    BY DEF Connected, Read, Respond, ReadEvents, connectionVars
<1>2. LiveTypeOK /\ AnswerCovered /\ CacheCovered /\ ConnectionTypeOK /\ ReadingBegun
    BY DEF Fresh, LiveTypeOK
<1>3. ReadingBegun'
    BY <1>2, StreamAssumption DEF Connected, Read, Respond, ReadEvents, connectionVars,
       streamVars, ReadingBegun, ConnectionTypeOK, StreamTypeOK
<1>4. /\ request' = request \/ (request = None /\ request' = "sent")
      /\ request' = None => again' /\ mutation' # None
      /\ request # None => again'
    BY <1>1 DEF Connected, Read, Invalidate, Refetch
<1>5. AnswerCovered'
    BY <1>1, <1>2, <1>4 DEF AnswerCovered, Pending, Status, Watchable
<1>6. CacheCovered'
    BY <1>1, <1>2, <1>4 DEF CacheCovered, Pending, Status, Watchable
<1> QED BY <1>3, <1>5, <1>6 DEF Fresh

-----------------------------------------------------------------------------
(* A step that concerns the stream alone, or nothing.                      *)
LEMMA StreamFresh ==
    ASSUME Fresh, LiveTypeOK',
           \/ OtherEvent
           \/ Quietly(Arrive) \/ Quietly(Break) \/ Quietly(Fail) \/ Quietly(TimerFires)
           \/ Quietly(GoOffline) \/ Quietly(GoOnline) \/ Quietly(Online)
           \/ Quietly(AtServer(WriteEvent)) \/ Quietly(AtServer(Heartbeat))
           \/ Quietly(AtServer(ListenBreaks)) \/ Quietly(AtServer(ListenAgain))
    PROVE  Fresh'
<1>1. ConnectionTypeOK /\ ConnectionTypeOK' /\ ReadingBegun
    BY DEF Fresh, LiveTypeOK
<1>2. /\ UNCHANGED <<server, clientVars, missed>>
      /\ \/ Arrive \/ Break \/ Fail \/ TimerFires \/ GoOffline \/ GoOnline \/ Online
         \/ /\ Announce \/ WriteEvent \/ Heartbeat \/ ListenBreaks \/ ListenAgain
            /\ UNCHANGED connectionVars
    BY DEF OtherEvent, Quietly, AtServer, Announce
<1>3. UNCHANGED subscribed /\ (Signal => Signal') /\ ReadingBegun'
    BY <1>1, <1>2, StreamSignals
<1> QED BY <1>2, <1>3, QuietFresh

LEMMA FreshNext == Fresh /\ Tries /\ LiveTypeOK' /\ [LiveNext]_liveVars => Fresh'
<1> SUFFICES ASSUME Fresh, Tries, LiveTypeOK', [LiveNext]_liveVars
             PROVE  Fresh'
    OBVIOUS
<1>1. CASE UNCHANGED liveVars
    BY <1>1 DEF liveVars, sseVars, streamVars, connectionVars, clientVars, cacheVars, Fresh,
       ReadingBegun, AnswerCovered, CacheCovered, Signal, Pending
<1>2. CASE \/ OtherEvent
           \/ Quietly(Arrive) \/ Quietly(Break) \/ Quietly(Fail) \/ Quietly(TimerFires)
           \/ Quietly(GoOffline) \/ Quietly(GoOnline) \/ Quietly(Online)
           \/ Quietly(AtServer(WriteEvent)) \/ Quietly(AtServer(Heartbeat))
           \/ Quietly(AtServer(ListenBreaks)) \/ Quietly(AtServer(ListenAgain))
    BY <1>2, StreamFresh
<1>3. CASE Granted \/ Ended \/ Join \/ Leave \/ Start
    BY <1>3, ServerFresh
<1>4. CASE Serve \/ Receive \/ RequestFails \/ OpenPage
    BY <1>4, RequestFresh
<1>5. CASE SendJoin \/ SendLeave \/ SendStart \/ MutationAnswered \/ MutationFails
    BY <1>5, MutationFresh
<1>6. CASE RunEffect \/ RerunEffect
    BY <1>6, EffectFresh
<1>7. CASE Connected \/ Read
    BY <1>7, SignalFresh
<1> QED BY <1>1, <1>2, <1>3, <1>4, <1>5, <1>6, <1>7 DEF LiveNext

(* A page is not left with an old state: when nothing is under way that    *)
(* makes it fetch again, and no change was notified while LISTEN was down, *)
(* it shows what the database holds and watches what goes with it, however *)
(* signals, answers, reconnections and mutations interleave and however    *)
(* small the buffer of the hub is.                                         *)
THEOREM NotLeftStale == LiveSpec => []StaleIsTemporary
<1>1. LiveInit /\ LiveTypeOK => Fresh
    BY LiveAssumption, StreamAssumption DEF LiveInit, ConnectionInit, StreamInit, Fresh, ReadingBegun,
       AnswerCovered, CacheCovered, Pending, Watchable
<1> QED BY <1>1, FreshNext, FreshImplies, AlwaysTries, LiveTypeCorrect, PTL DEF LiveSpec
=============================================================================
