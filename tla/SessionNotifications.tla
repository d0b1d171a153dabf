------------------------- MODULE SessionNotifications -------------------------
(***************************************************************************)
(* What one tab remembers of its users: the session, the notifications     *)
(* with their copy in localStorage, the watched products and the query     *)
(* cache, for one product and users who sign in and out of the same tab    *)
(* while requests of theirs are still running.                             *)
(*                                                                         *)
(* A state of the queue is the id of the notification made of it.  Every   *)
(* state, note and watched product carries the user it is about, which the *)
(* program does not: it is there for the properties to ask whether users   *)
(* were mixed up.  React runs the effects of a change of user before the   *)
(* next event; RTK forgets a request of the cache that was reset.          *)
(***************************************************************************)
EXTENDS Naturals

CONSTANTS
    Users,
    Ids,          \* ids of notifications, one for each state of the queue
    WatchedIds,   \* of the states in which the product is watched
    None

State == [about : Users, id : Ids]

ASSUME SessionAssumption ==
    WatchedIds \subseteq Ids /\ None \notin Users \cup Ids \cup State

VARIABLES
    user,         \* session.user, kept in localStorage
    signing,      \* users whose sign-in or sign-up runs: a password is hashed
    active,       \* notifications.activeUserId
    items,        \* notifications.items
    dismissed,    \* notifications.dismissedIds
    stored,       \* the slice's storage; with one tab localStorage is the same
    cache,        \* the answer of queue/me in the cache
    request,      \* whose request for it is pending
    refresh,      \* a refreshQueue that runs: whose it is and what it waits for
    watched,      \* queueWatch.byUser, for the one product
    returned      \* auxiliary: users for whom a refresh of an earlier session
                  \* of theirs ended while they were signed in again

shownVars == <<active, items, dismissed>>
noteVars == <<shownVars, stored>>
queryVars == <<cache, request, refresh>>
loginVars == <<user, signing>>
sessionVars == <<loginVars, noteVars, queryVars, watched, returned>>

Note == [id : Ids, read : BOOLEAN, about : Users]
NoNotes == [notes |-> {}, dismissed |-> {}]

(* A refresh waits for its request, "lost" when the cache was reset under  *)
(* it; then, with the state it got, for the product.                       *)
Refresh == [user : Users, at : {"sent", "lost", "product"}, got : State \cup {None}]

(* Everybody is signed out, and nothing was stored. *)
SessionInit ==
    /\ user = None /\ signing = {} /\ active = None /\ items = {} /\ dismissed = {}
    /\ stored = [u \in Users |-> NoNotes]
    /\ cache = None /\ request = None /\ refresh = None
    /\ watched = [u \in Users |-> {}]
    /\ returned = {}

IdsOf(notes) == {note.id : note \in notes}
Waiting == refresh # None /\ refresh.at = "sent"
GotIt(state) == [refresh EXCEPT !.at = "product", !.got = state]

-----------------------------------------------------------------------------
(***************************************************************************)
(* The session: the listener of the store resets the cache and loads the   *)
(* notifications of the user who came.                                     *)
(***************************************************************************)

Hydrate(u) ==
    /\ active' = u
    /\ items' = stored[u].notes
    /\ dismissed' = stored[u].dismissed

(* notificationsReset *)
Forget == active' = None /\ items' = {} /\ dismissed' = {}

(* baseApi.util.resetApiState.  What was asked is still answered, to the   *)
(* refresh that waits for it.                                              *)
ResetApiState ==
    /\ cache' = None
    /\ request' = None
    /\ refresh' = IF Waiting THEN [refresh EXCEPT !.at = "lost"] ELSE refresh

(* AuthModal, whichever of its modes: the password is hashed before the    *)
(* user is let in.  The dialogue does not ask whether somebody is signed   *)
(* in; when it is closed and opened again it can be submitted again.       *)
Submit(u) ==
    /\ signing' = signing \cup {u}
    /\ UNCHANGED <<user, noteVars, queryVars, watched, returned>>

(* The login is taken, or not known with this password.                    *)
SubmitFails(u) ==
    /\ u \in signing
    /\ signing' = signing \ {u}
    /\ UNCHANGED <<user, noteVars, queryVars, watched, returned>>

(* The account is there, or was made.  That the dialogue was closed does   *)
(* not hold it up.                                                         *)
SignIn(u) ==
    /\ u \in signing
    /\ signing' = signing \ {u}
    /\ user' = u
    /\ ResetApiState
    /\ Hydrate(u)
    /\ UNCHANGED <<stored, watched, returned>>

SignOut ==
    /\ user # None
    /\ user' = None
    /\ ResetApiState
    /\ Forget
    /\ UNCHANGED <<signing, stored, watched, returned>>

(* The page is loaded again; the effect of Layout loads the notifications. *)
Reload ==
    /\ user # None
    /\ Hydrate(user)
    /\ signing' = {}
    /\ cache' = None /\ request' = None /\ refresh' = None
    /\ UNCHANGED <<user, stored, watched, returned>>

-----------------------------------------------------------------------------
(***************************************************************************)
(* Notifications.                                                          *)
(***************************************************************************)

Persist == stored' = [stored EXCEPT ![active].notes = items']

(* Mutants of Add: without the test of activeUserId, of dismissedIds.      *)
AddForAnybody(u, note) ==
    IF active # None /\ note.id \notin dismissed \cup IdsOf(items)
    THEN items' = items \cup {note} /\ Persist /\ UNCHANGED <<active, dismissed>>
    ELSE UNCHANGED noteVars

AddDismissed(u, note) ==
    IF active = u /\ note.id \notin IdsOf(items)
    THEN items' = items \cup {note} /\ Persist /\ UNCHANGED <<active, dismissed>>
    ELSE UNCHANGED noteVars

(* notificationAdded *)
Add(u, note) ==
    IF active = u /\ note.id \notin dismissed \cup IdsOf(items)
    THEN items' = items \cup {note} /\ Persist /\ UNCHANGED <<active, dismissed>>
    ELSE UNCHANGED noteVars

NoteOf(state) == [id |-> state.id, read |-> FALSE, about |-> state.about]

(* The header has the menu for a user who is signed in; it has a button to *)
(* clear it when there is something to clear, and one for each note.       *)
MenuShown == user # None
ClearEnabled == MenuShown /\ items # {}
Listed(id) == MenuShown /\ id \in IdsOf(items)

ReadAll ==
    /\ MenuShown
    /\ items' = {[note EXCEPT !.read = TRUE] : note \in items}
    /\ Persist
    /\ UNCHANGED <<loginVars, active, dismissed, queryVars, watched, returned>>

(* The note is marked, and the item's page opened (Fetch). *)
ReadOne(id) ==
    /\ Listed(id)
    /\ items' = {[note EXCEPT !.read = note.read \/ note.id = id] : note \in items}
    /\ Persist
    /\ UNCHANGED <<loginVars, active, dismissed, queryVars, watched, returned>>

(* Mutant: the list is emptied, and what it showed not remembered. *)
ClearItemsOnly ==
    /\ ClearEnabled
    /\ stored' = [stored EXCEPT ![active].notes = {}]
    /\ items' = {} /\ dismissed' = IdsOf(items)
    /\ UNCHANGED <<loginVars, active, queryVars, watched, returned>>

(* What was dismissed before is forgotten. *)
Clear ==
    /\ ClearEnabled
    /\ stored' = [stored EXCEPT ![active] = [notes |-> {}, dismissed |-> IdsOf(items)]]
    /\ items' = {} /\ dismissed' = IdsOf(items)
    /\ UNCHANGED <<loginVars, active, queryVars, watched, returned>>

(* The order page warns and tells of the end, from the state it shows.     *)
PageNotifies ==
    /\ user # None /\ cache # None
    /\ Add(user, NoteOf(cache))
    /\ UNCHANGED <<loginVars, queryVars, watched, returned>>

-----------------------------------------------------------------------------
(***************************************************************************)
(* Queries.                                                                *)
(***************************************************************************)

(* A page that shows the product is opened. *)
Fetch ==
    /\ user # None /\ request = None
    /\ request' = user
    /\ UNCHANGED <<loginVars, noteVars, cache, refresh, watched, returned>>

(* refreshQueue, of a product that is watched; one at a time.              *)
BeginRefresh ==
    /\ user # None /\ watched[user] # {} /\ refresh = None
    /\ refresh' = [user |-> user, at |-> "sent", got |-> None]
    /\ request' = IF request = None THEN user ELSE request
    /\ UNCHANGED <<loginVars, noteVars, cache, watched, returned>>

(* queryFulfilled: the answer about u decides what u watches. *)
Watch(u, id) ==
    watched' = [watched EXCEPT ![u] = IF id \in WatchedIds THEN {u} ELSE {}]

(* A refresh that waits for the request selects its answer from the cache. *)
Answer(id) ==
    /\ request # None
    /\ cache' = [about |-> request, id |-> id]
    /\ refresh' = IF Waiting THEN GotIt(cache') ELSE refresh
    /\ request' = None
    /\ Watch(request, id)
    /\ UNCHANGED <<loginVars, noteVars, returned>>

AnswerFails ==
    /\ request # None
    /\ request' = None
    /\ refresh' = IF Waiting THEN None ELSE refresh
    /\ UNCHANGED <<loginVars, noteVars, cache, watched, returned>>

(* Mutant: the refresh goes on without a state. *)
LateAnswerUnchecked(id) ==
    /\ refresh # None /\ refresh.at = "lost"
    /\ Watch(refresh.user, id)
    /\ refresh' = GotIt(cache)
    /\ UNCHANGED <<loginVars, noteVars, cache, request, returned>>

(* The answer to a request from before the reset.  The refresh selects     *)
(* from the cache as it is now, and ends when there is nothing.            *)
LateAnswer(id) ==
    /\ refresh # None /\ refresh.at = "lost"
    /\ Watch(refresh.user, id)
    /\ refresh' = IF cache = None THEN None ELSE GotIt(cache)
    /\ UNCHANGED <<loginVars, noteVars, cache, request, returned>>

(* The product has come too. *)
EndRefresh ==
    /\ refresh # None /\ refresh.at = "product"
    /\ Add(refresh.user, NoteOf(refresh.got))
    /\ refresh' = None
    /\ returned' = IF refresh.got.about # refresh.user /\ active = refresh.user
                   THEN returned \cup {active} ELSE returned
    /\ UNCHANGED <<loginVars, cache, request, watched>>

RefreshFails ==
    /\ refresh # None /\ ~ Waiting
    /\ refresh' = None
    /\ UNCHANGED <<loginVars, noteVars, cache, request, watched, returned>>

SessionNext ==
    \/ \E u \in Users : Submit(u) \/ SubmitFails(u) \/ SignIn(u)
    \/ SignOut \/ Reload
    \/ ReadAll \/ (\E id \in Ids : ReadOne(id)) \/ Clear \/ PageNotifies
    \/ Fetch \/ BeginRefresh
    \/ \E id \in Ids : Answer(id) \/ LateAnswer(id)
    \/ AnswerFails \/ EndRefresh \/ RefreshFails

SessionSpec == SessionInit /\ [][SessionNext]_sessionVars

-----------------------------------------------------------------------------
(* The types; a refresh goes on to the product with a state. *)
SessionTypeOK ==
    /\ {user, active, request} \subseteq Users \cup {None} /\ signing \subseteq Users
    /\ items \subseteq Note /\ dismissed \subseteq Ids
    /\ stored \in [Users -> [notes : SUBSET Note, dismissed : SUBSET Ids]]
    /\ cache \in State \cup {None}
    /\ refresh \in Refresh \cup {None}
    /\ refresh # None => (refresh.at = "product" <=> refresh.got # None)
    /\ watched \in [Users -> SUBSET Users]
    /\ returned \subseteq Users

(* Nobody reads of another user's place in line: neither the notes of a    *)
(* user, nor the watched products, nor the cache mix users up, whoever     *)
(* signs in while whose requests run.  The test of refreshQueue for it     *)
(* (userId !== user.id) compares two copies of one value.  The exception   *)
(* is a refresh that outlives two changes of user, and ends for the user   *)
(* it began for with the state of the one in between.                      *)
NotesStayPrivate ==
    \A u \in Users :
        /\ u \notin returned => \A note \in stored[u].notes : note.about = u
        /\ watched[u] \subseteq {u}
        /\ cache # None => cache.about = user

(* What is shown is what the next page load shows: the user is the one     *)
(* signed in, and every note read, added or cleared is so in the storage.  *)
ShownIsStored ==
    /\ active = user
    /\ active # None => stored[active] = [notes |-> items, dismissed |-> dismissed]

(* A note is shown once and not after it was cleared, by whichever of the  *)
(* ways it comes again, unless a later clearing has forgotten it.          *)
ClearedStaysCleared ==
    \A u \in Users :
        /\ IdsOf(stored[u].notes) \cap stored[u].dismissed = {}
        /\ \A m, n \in stored[u].notes : m.id = n.id => m = n
=============================================================================
