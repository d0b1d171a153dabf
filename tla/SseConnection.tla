---------------------------- MODULE SseConnection ----------------------------
(***************************************************************************)
(* The browser's side of one event stream: the connection that             *)
(* createSseConnection.ts keeps up against errors and against the online   *)
(* and offline events of the browser.                                      *)
(*                                                                         *)
(* The variable `connecting` of the code is phase # "idle": it stays true  *)
(* while the stream is read.  The number of retries only sets the delay of *)
(* the timer and is left out.                                              *)
(***************************************************************************)
EXTENDS EventStream

VARIABLES
    subscribed,    \* subscribe has been called and its cleanup has not
    phase,         \* "idle"; "fetching": before the response; "reading": the stream
    timer,         \* the retry timer is set
    onLine,        \* navigator.onLine
    onlineEvent    \* an online event that has not been handled

connectionVars == <<subscribed, phase, timer, onLine, onlineEvent>>
sseVars == <<streamVars, connectionVars>>

ConnectionTypeOK ==
    /\ StreamTypeOK
    /\ {subscribed, timer, onLine, onlineEvent} \subseteq BOOLEAN
    /\ phase \in {"idle", "fetching", "reading"}

ConnectionInit ==
    /\ StreamInit
    /\ subscribed = FALSE /\ phase = "idle" /\ timer = FALSE
    /\ onLine \in BOOLEAN /\ onlineEvent = FALSE

(* connect(), where it does not return at once.                            *)
Connecting == IF onLine /\ phase = "idle" THEN "fetching" ELSE phase

Subscribe ==
    /\ ~ subscribed
    /\ subscribed' = TRUE
    /\ phase' = Connecting
    /\ UNCHANGED <<streamVars, timer, onLine, onlineEvent>>

(* The cleanup: the fetch is aborted, the timer cleared.                   *)
Unsubscribe ==
    /\ subscribed
    /\ subscribed' = FALSE
    /\ phase' = "idle" /\ timer' = FALSE
    /\ Closed
    /\ UNCHANGED <<onLine, onlineEvent>>

(* The cleanup and a new subscription at once.                             *)
Resubscribe ==
    /\ subscribed
    /\ phase' = IF onLine THEN "fetching" ELSE "idle"
    /\ timer' = FALSE
    /\ Closed
    /\ UNCHANGED <<subscribed, onLine, onlineEvent>>

(* The request reaches the server. *)
Arrive ==
    /\ phase = "fetching"
    /\ Accept
    /\ UNCHANGED connectionVars

(* The response begins; onConnectionChange(true).                          *)
Respond ==
    /\ phase = "fetching" /\ wire # None
    /\ phase' = "reading"
    /\ UNCHANGED <<streamVars, subscribed, timer, onLine, onlineEvent>>

(* Chunks with the last tokens of n events; onSignal is called for each.   *)
ReadEvents(n) ==
    /\ phase = "reading" /\ wire # None /\ n \in 1 .. wire
    /\ wire' = wire - n
    /\ UNCHANGED <<listening, hub, connectionVars>>

(* The connection is lost, or the server ends the stream; and what is on   *)
(* the way with it.                                                        *)
Break ==
    /\ phase = "reading" /\ hub # None
    /\ Closed
    /\ UNCHANGED connectionVars

(* The catch block: of a fetch that is refused or fails, of a read after   *)
(* the stream has ended.                                                   *)
Fail ==
    /\ phase = "fetching" \/ (phase = "reading" /\ hub = None)
    /\ phase' = "idle" /\ timer' = TRUE
    /\ Closed
    /\ UNCHANGED <<subscribed, onLine, onlineEvent>>

(* The timer has no second try: offline, it is left to the online event.   *)
TimerFires ==
    /\ timer
    /\ timer' = FALSE
    /\ phase' = Connecting
    /\ UNCHANGED <<streamVars, subscribed, onLine, onlineEvent>>

GoOffline == onLine /\ onLine' = FALSE /\ UNCHANGED <<streamVars, subscribed, phase, timer, onlineEvent>>

(* The browser sets navigator.onLine and queues the event.                 *)
GoOnline ==
    /\ ~ onLine
    /\ onLine' = TRUE /\ onlineEvent' = TRUE
    /\ UNCHANGED <<streamVars, subscribed, phase, timer>>

(* Mutant: a timer that is pending is taken for a connection to come, and  *)
(* cleared all the same.                                                   *)
OnlineTrustsTimer ==
    /\ onlineEvent
    /\ onlineEvent' = FALSE
    /\ timer' = FALSE
    /\ phase' = IF subscribed /\ ~ timer THEN Connecting ELSE phase
    /\ UNCHANGED <<streamVars, subscribed, onLine>>

(* The listener `online`, when somebody is subscribed.                     *)
Online ==
    /\ onlineEvent
    /\ onlineEvent' = FALSE
    /\ timer' = FALSE
    /\ phase' = IF subscribed THEN Connecting ELSE phase
    /\ UNCHANGED <<streamVars, subscribed, onLine>>

-----------------------------------------------------------------------------
(* A subscription that is neither connected nor connecting is going to try *)
(* again, whatever the order of errors, timers and online events: a retry  *)
(* is scheduled, or the browser is offline, or has not yet told of being   *)
(* online.  And while a connection is open or opening no timer is set that *)
(* would be forgotten or open a second one.                                *)
NeverGivesUp ==
    /\ subscribed /\ phase = "idle" => timer \/ ~ onLine \/ onlineEvent
    /\ phase # "idle" => ~ timer
=============================================================================
