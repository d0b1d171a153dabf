----------------------------- MODULE LiveUpdates -----------------------------
(***************************************************************************)
(* How a page keeps up with the queue: one signed-in user, one product,    *)
(* one tab.  QueueRealtime subscribes to the events of the products the    *)
(* user watches and answers each by fetching the user's state again; the   *)
(* answers, through queueApi, decide what is watched.                      *)
(*                                                                         *)
(* The status stands for what GET queue/me answers, "OUT" for no entry and *)
(* for every final status.  The position of a waiting user is left out:    *)
(* its changes are not announced, which is the subject of                  *)
(* PositionChangesAnnounced of FairQueue.                                  *)
(***************************************************************************)
EXTENDS SseConnection

(* shouldWatch; no query answers its other two, "JOINING" and "ERROR". *)
Watchable == {"WAITING", "GRANTED", "CHECKOUT_PENDING"}
Status == Watchable \cup {"OUT"}

Operations == [op : {"join", "leave", "start"}, done : BOOLEAN]

ASSUME LiveAssumption == None \notin Status \cup {"sent"} \cup Operations

VARIABLES
    server,     \* the user's state in the database
    cache,      \* the query cache: the last answer; None before the first
    failed,     \* the last fetch ended in an error, which the page shows
    request,    \* the fetch that is pending: "sent", then its answer
    again,      \* RTK: an invalidation that waits until nothing is pending
    mutation,   \* the join, leave or startCheckout that is pending, and whether
                \* it is done
    watched,    \* the product is in queueWatch.byUser of the user
    missed      \* auxiliary: a change since the last answer was notified
                \* while no LISTEN connection was up

cacheVars == <<cache, failed, request, again>>
clientVars == <<cacheVars, mutation, watched>>
liveVars == <<sseVars, server, clientVars, missed>>

Op(op, done) == [op |-> op, done |-> done]

LiveTypeOK ==
    /\ ConnectionTypeOK
    /\ server \in Status
    /\ cache \in {None} \cup Status
    /\ request \in {None, "sent"} \cup Status
    /\ mutation \in {None} \cup Operations
    /\ {failed, again, watched, missed} \subseteq BOOLEAN

(* The page is opened, or loaded again: what is watched was stored.        *)
LiveInit ==
    /\ ConnectionInit
    /\ server \in Status
    /\ cache = None /\ failed = FALSE /\ request = "sent" /\ again = FALSE
    /\ mutation = None
    /\ watched \in BOOLEAN
    /\ missed = FALSE

-----------------------------------------------------------------------------
(***************************************************************************)
(* The query cache (RTK).  A fetch of what is being fetched is not sent;   *)
(* an invalidation fetches again, but not while a request is pending.      *)
(***************************************************************************)

Refetch ==
    request' = IF request = None THEN "sent" ELSE request

(* invalidateTags, with nothing else to fetch. *)
Invalidate ==
    IF request = None /\ mutation = None
    THEN request' = "sent" /\ again' = FALSE
    ELSE again' = TRUE /\ UNCHANGED request

(* What is left to do when a fetch ends.                                   *)
FetchEnds ==
    /\ request' = IF again /\ mutation = None THEN "sent" ELSE None
    /\ again' = (again /\ mutation # None)

(* A mutation ends, and invalidates the queue's tag even when it failed.   *)
MutationEnds ==
    /\ mutation' = None
    /\ IF request = None THEN request' = "sent" /\ again' = FALSE
       ELSE again' = TRUE /\ UNCHANGED request

-----------------------------------------------------------------------------
Announce == hub' = Publish /\ UNCHANGED <<listening, wire, connectionVars>>

(* A change of the user's state that the transaction announces.            *)
Commit(status) ==
    /\ server' = status
    /\ Announce
    /\ missed' = (missed \/ ~ listening)

Granted == server = "WAITING" /\ Commit("GRANTED") /\ UNCHANGED clientVars
Ended == server \in Watchable /\ Commit("OUT") /\ UNCHANGED clientVars

(* An event of the product that is about somebody else's entry.            *)
OtherEvent == hub # None /\ Announce /\ UNCHANGED <<server, clientVars, missed>>

-----------------------------------------------------------------------------
(***************************************************************************)
(* queueApi: the answers, and what they make of the watched products.      *)
(***************************************************************************)

(* The server reads the user's state. *)
Serve ==
    /\ request = "sent"
    /\ request' = server
    /\ missed' = FALSE
    /\ UNCHANGED <<sseVars, server, cache, failed, again, mutation, watched>>

Receive ==
    /\ request \in Status
    /\ cache' = request /\ failed' = FALSE
    /\ watched' = (request \in Watchable)
    /\ FetchEnds
    /\ UNCHANGED <<sseVars, server, mutation, missed>>

(* The request fails, at any stage.  Nothing repeats it.                   *)
RequestFails ==
    /\ request # None
    /\ failed' = TRUE
    /\ FetchEnds
    /\ UNCHANGED <<sseVars, server, cache, mutation, watched, missed>>

(* refetchOnMountOrArgChange: a page that shows the product is opened.     *)
OpenPage ==
    /\ request = None
    /\ Refetch
    /\ UNCHANGED <<sseVars, server, cache, failed, again, mutation, watched, missed>>

SendJoin ==
    /\ mutation = None /\ cache # None /\ cache \notin Watchable
    /\ mutation' = Op("join", FALSE)
    /\ UNCHANGED <<sseVars, server, cacheVars, watched, missed>>

SendLeave ==
    /\ mutation = None /\ cache \in Watchable
    /\ mutation' = Op("leave", FALSE)
    /\ UNCHANGED <<sseVars, server, cacheVars, watched, missed>>

SendStart ==
    /\ mutation = None /\ cache = "GRANTED"
    /\ mutation' = Op("start", FALSE)
    /\ UNCHANGED <<sseVars, server, cacheVars, watched, missed>>

(* JoinQueue: an active entry is returned as it is; a place in the line is *)
(* not announced, a right is.                                              *)
Join ==
    /\ mutation = Op("join", FALSE)
    /\ \E status \in Watchable :
          /\ IF server \in Watchable THEN status = server ELSE status # "CHECKOUT_PENDING"
          /\ mutation' = Op("join", TRUE)
          /\ IF status = "GRANTED" /\ server # status THEN Commit(status)
             ELSE server' = status /\ UNCHANGED <<sseVars, missed>>
    /\ UNCHANGED <<cacheVars, watched>>

(* LeaveQueue: giving up a right is announced, leaving the line is not; a  *)
(* checkout is not left.                                                   *)
Leave ==
    /\ mutation = Op("leave", FALSE) /\ server \in {"WAITING", "GRANTED"}
    /\ mutation' = Op("leave", TRUE)
    /\ IF server = "GRANTED" THEN Commit("OUT")
       ELSE server' = "OUT" /\ UNCHANGED <<sseVars, missed>>
    /\ UNCHANGED <<cacheVars, watched>>

(* StartCheckout, of a right that has not run out, is announced. *)
Start ==
    /\ mutation = Op("start", FALSE) /\ server = "GRANTED"
    /\ mutation' = Op("start", TRUE)
    /\ Commit("CHECKOUT_PENDING")
    /\ UNCHANGED <<cacheVars, watched>>

MutationAnswered ==
    /\ mutation # None /\ mutation.done
    /\ watched' = IF mutation.op = "start" THEN watched ELSE mutation.op = "join"
    /\ MutationEnds
    /\ UNCHANGED <<sseVars, server, cache, failed, missed>>

(* Refused, or lost on its way there or back.                              *)
MutationFails ==
    /\ mutation # None
    /\ MutationEnds
    /\ UNCHANGED <<sseVars, server, cache, failed, watched, missed>>

-----------------------------------------------------------------------------
(***************************************************************************)
(* QueueRealtime.                                                          *)
(***************************************************************************)

(* The effect follows the list of watched products; a new subscription     *)
(* fetches the state at once.                                              *)
RunEffect ==
    /\ \/ watched /\ Subscribe /\ Refetch
       \/ ~ watched /\ Unsubscribe /\ UNCHANGED request
    /\ UNCHANGED <<server, cache, failed, again, mutation, watched, missed>>

(* Another product is watched or unwatched: the list is a new one, and     *)
(* every subscription is made anew.                                        *)
RerunEffect ==
    /\ watched /\ Resubscribe /\ Refetch
    /\ UNCHANGED <<server, cache, failed, again, mutation, watched, missed>>

(* Mutant: the first answer of a new stream is not taken as a reason to    *)
(* fetch.                                                                  *)
ConnectedSilently == Respond /\ UNCHANGED <<server, clientVars, missed>>

(* onConnectionChange(true) *)
Connected ==
    /\ Respond
    /\ Invalidate
    /\ UNCHANGED <<server, cache, failed, mutation, watched, missed>>

(* Mutant: the fetch that is pending is taken to answer the signal too.    *)
ReadShared ==
    /\ \E n \in 1 .. WireRoom : ReadEvents(n)
    /\ Refetch
    /\ UNCHANGED <<server, cache, failed, again, mutation, watched, missed>>

(* onSignal: invalidate, and fetch anyway.     *)
Read ==
    /\ \E n \in 1 .. WireRoom : ReadEvents(n)
    /\ Refetch
    /\ again' = (again \/ request # None \/ mutation # None)
    /\ UNCHANGED <<server, cache, failed, mutation, watched, missed>>

(* The rest of the connection's life concerns nobody else.                 *)
Quietly(A) == A /\ UNCHANGED <<server, clientVars, missed>>
AtServer(A) == A /\ UNCHANGED connectionVars

LiveNext ==
    \/ Granted \/ Ended \/ OtherEvent
    \/ Serve \/ Receive \/ RequestFails \/ OpenPage
    \/ SendJoin \/ SendLeave \/ SendStart \/ Join \/ Leave \/ Start \/ MutationAnswered \/ MutationFails
    \/ RunEffect \/ RerunEffect \/ Connected \/ Read
    \/ Quietly(Arrive) \/ Quietly(Break) \/ Quietly(Fail) \/ Quietly(TimerFires)
    \/ Quietly(GoOffline) \/ Quietly(GoOnline) \/ Quietly(Online)
    \/ Quietly(AtServer(WriteEvent)) \/ Quietly(AtServer(Heartbeat))
    \/ Quietly(AtServer(ListenBreaks)) \/ Quietly(AtServer(ListenAgain))

(* A request and a mutation are answered or fail in the end; React, timers *)
(* and browser events are not held up for ever, and a stream that has      *)
(* ended is noticed.  The browser may go offline, and connections may be   *)
(* refused and lost, without end; but a browser that is online again and   *)
(* again is so while an event or a timer is handled, and a connection that *)
(* is tried again and again reaches the server and is answered.            *)
LiveFairness ==
    /\ WF_liveVars(Serve \/ Receive \/ RequestFails)
    /\ WF_liveVars(MutationAnswered \/ MutationFails)
    /\ WF_liveVars(RunEffect) /\ WF_liveVars(Read)
    /\ WF_liveVars(Quietly(GoOnline)) /\ WF_liveVars(Quietly(Fail /\ phase = "reading"))
    /\ WF_liveVars(Quietly(AtServer(WriteEvent)))
    /\ SF_liveVars(Quietly((Online \/ TimerFires) /\ onLine))
    /\ SF_liveVars(Quietly(Arrive)) /\ SF_liveVars(Quietly(AtServer(Heartbeat)))
    /\ SF_liveVars(Connected)

LiveSpec == LiveInit /\ [][LiveNext]_liveVars /\ LiveFairness

-----------------------------------------------------------------------------
(* Something is under way that will make the page fetch the state again,   *)
(* or the page shows that it could not.                                    *)
Unsettled ==
    \/ request # None \/ again \/ mutation # None \/ failed
    \/ subscribed # watched
    \/ subscribed /\ (phase # "reading" \/ hub = None \/ hub > 0 \/ wire > 0)

(* A page is not left with an old state.  When it shows another state than *)
(* the database holds, or a state that goes with another list of watched   *)
(* products, something is under way: whatever the order of answers,        *)
(* signals, reconnections and mutations, and although the hub drops events.*)
(* The one exception is a change notified while LISTEN was down.           *)
StaleIsTemporary ==
    ~ Unsettled /\ ~ missed => cache = server /\ (watched <=> cache \in Watchable)

(* Once the user's state no longer changes the page comes to show it, or   *)
(* that it could not ask, and stays so: however often connections are lost *)
(* and made again, requests overlap and events are dropped.                *)
CatchesUp ==
    <>[][FALSE]_server => <>[](cache = server \/ failed \/ missed)
=============================================================================
