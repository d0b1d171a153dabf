----------------------------- MODULE EventStream -----------------------------
(***************************************************************************)
(* The backend's side of one event stream: the LISTEN connection of the    *)
(* API process, the hub with its buffer for the subscriber, and what the   *)
(* handler has written and the client has not yet read.                    *)
(*                                                                         *)
(* The content of an event does not matter to its readers, which only      *)
(* fetch again, nor does the way its text is cut into chunks               *)
(* (CutsDoNotMatter of ParseSse): events are counted.                      *)
(***************************************************************************)
EXTENDS Naturals

CONSTANTS None,
          BufferSize,   \* events the hub keeps for a subscriber; 16 in the code
          WireRoom      \* bound: events on their way at a time

ASSUME StreamAssumption ==
    BufferSize \in Nat \ {0} /\ WireRoom \in Nat \ {0} /\ None \notin Nat

VARIABLES
    listening,   \* the LISTEN connection is up
    hub,         \* the events buffered for the subscriber; None without one
    wire         \* the events on their way; None before the response begins

streamVars == <<listening, hub, wire>>

StreamTypeOK ==
    /\ listening \in BOOLEAN
    /\ hub \in {None} \cup 0 .. BufferSize
    /\ wire \in {None} \cup 0 .. WireRoom

StreamInit == listening \in BOOLEAN /\ hub = None /\ wire = None

(* The buffer after a NOTIFY: unchanged without LISTEN, without a          *)
(* subscriber, and when it is full.                                        *)
Publish ==
    IF listening /\ hub # None /\ hub < BufferSize THEN hub + 1 ELSE hub

(* The handler of the request subscribes.  It does not send the header of  *)
(* the response before it has something to write.                          *)
Accept == hub = None /\ hub' = 0 /\ wire' = None /\ UNCHANGED listening

Unread == IF wire = None THEN 0 ELSE wire

WriteEvent ==
    /\ hub # None /\ hub > 0 /\ Unread < WireRoom
    /\ hub' = hub - 1
    /\ wire' = Unread + 1
    /\ UNCHANGED listening

(* A heartbeat is a comment: it begins the response, and nothing else.     *)
Heartbeat == hub # None /\ wire = None /\ wire' = 0 /\ UNCHANGED <<listening, hub>>

(* The request's context is done: by the client or by the network.         *)
Closed == hub' = None /\ wire' = None /\ UNCHANGED listening

(* An error of WaitForNotification; LISTEN again after a second.  What is  *)
(* notified in between is lost, and no subscriber is told.                 *)
ListenBreaks == listening /\ listening' = FALSE /\ UNCHANGED <<hub, wire>>
ListenAgain == ~ listening /\ listening' = TRUE /\ UNCHANGED <<hub, wire>>
=============================================================================
