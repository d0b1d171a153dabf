---------------------- MODULE SessionNotificationsProofs ----------------------
(***************************************************************************)
(* The notifications of a tab, for any users, any states of the queue and  *)
(* any number of changes of user: what is shown is what is stored, what    *)
(* was cleared stays cleared, and nobody reads of anybody else.            *)
(***************************************************************************)
EXTENDS SessionNotifications, TLAPS

Stored == [notes : SUBSET Note, dismissed : SUBSET Ids]

(* The slice and its storage. *)
NotesOK ==
    /\ active \in Users \cup {None}
    /\ items \subseteq Note /\ dismissed \subseteq Ids
    /\ stored \in [Users -> Stored]
    /\ active # None => stored[active] = [notes |-> items, dismissed |-> dismissed]
    /\ ClearedStaysCleared

(* The session, the queries and what is watched. *)
QueriesOK ==
    /\ user \in Users \cup {None} /\ signing \subseteq Users /\ request \in {None, user}
    /\ cache \in State \cup {None}
    /\ cache # None => cache.about = user
    /\ refresh \in Refresh \cup {None}
    /\ refresh # None => (refresh.at = "product" <=> refresh.got # None)
    /\ watched \in [Users -> SUBSET Users]
    /\ \A u \in Users : watched[u] \subseteq {u}

(* Whose notes are stored. *)
OwnNotes ==
    /\ returned \subseteq Users
    /\ \A u \in Users \ returned : \A note \in stored[u].notes : note.about = u

(* A request that is pending is of the user who is signed in, since every  *)
(* change of user resets the cache: with this, the properties are          *)
(* inductive together.                                                     *)
SessionInv == NotesOK /\ QueriesOK /\ OwnNotes /\ active = user

LEMMA SessionInvImplies ==
    SessionInv => SessionTypeOK /\ NotesStayPrivate /\ ShownIsStored /\ ClearedStaysCleared
BY SessionAssumption DEF SessionInv, NotesOK, QueriesOK, OwnNotes, Stored,
   SessionTypeOK, NotesStayPrivate, ShownIsStored

LEMMA SessionInitInv == SessionInit => SessionInv
<1> SUFFICES ASSUME SessionInit PROVE SessionInv
    OBVIOUS
<1>1. NoNotes \in Stored /\ NoNotes.notes = {} /\ NoNotes.dismissed = {}
    BY DEF NoNotes, Stored
<1>2. stored \in [Users -> Stored] /\ \A u \in Users : stored[u] = NoNotes
    BY <1>1 DEF SessionInit
<1>3. NotesOK
    BY <1>1, <1>2 DEF SessionInit, NotesOK, ClearedStaysCleared, IdsOf
<1>4. QueriesOK /\ OwnNotes /\ active = user
    BY <1>1, <1>2 DEF SessionInit, QueriesOK, OwnNotes
<1> QED BY <1>3, <1>4 DEF SessionInv

-----------------------------------------------------------------------------
(* What Persist writes: the notes of the user they are shown to.           *)
LEMMA PersistWrites ==
    ASSUME stored \in [Users -> Stored], active \in Users, items' \subseteq Note, Persist
    PROVE  /\ stored' \in [Users -> Stored]
           /\ stored'[active] = [notes |-> items', dismissed |-> stored[active].dismissed]
           /\ \A u \in Users \ {active} : stored'[u] = stored[u]
BY DEF Persist, Stored

(* Notes that are written keep the slice right, if they are notes of their *)
(* own ids, none of which was dismissed.                                   *)
LEMMA PersistKeeps ==
    ASSUME NotesOK, active # None, Persist, UNCHANGED <<active, dismissed>>,
           items' \subseteq Note, IdsOf(items') \cap dismissed = {},
           \A m, n \in items' : m.id = n.id => m = n
    PROVE  NotesOK'
<1>1. active \in Users /\ stored[active].dismissed = dismissed
    BY DEF NotesOK
<1>2. /\ stored' \in [Users -> Stored]
      /\ stored'[active] = [notes |-> items', dismissed |-> dismissed]
      /\ \A u \in Users \ {active} : stored'[u] = stored[u]
    BY <1>1, PersistWrites DEF NotesOK
<1>3. ClearedStaysCleared'
    BY <1>2 DEF NotesOK, ClearedStaysCleared, IdsOf
<1> QED BY <1>2, <1>3 DEF NotesOK

(* And they stay a user's own, if the new ones are.                        *)
LEMMA PersistOwn ==
    ASSUME NotesOK, OwnNotes, active # None, Persist, UNCHANGED active, items' \subseteq Note,
           returned' \subseteq Users, returned \subseteq returned',
           active \in returned' \/ \A note \in items' : note.about = active
    PROVE  OwnNotes'
<1>1. /\ active \in Users
      /\ stored'[active].notes = items'
      /\ \A u \in Users \ {active} : stored'[u] = stored[u]
    BY PersistWrites DEF NotesOK
<1> QED BY <1>1 DEF OwnNotes

(* A note is added, unless it is not for the user shown, was dismissed or  *)
(* is there.                                                               *)
LEMMA AddKeeps ==
    ASSUME NotesOK, OwnNotes, NEW u \in Users, NEW note \in Note, Add(u, note),
           returned' \subseteq Users, returned \subseteq returned',
           active # u \/ u \in returned' \/ note.about = u
    PROVE  NotesOK' /\ OwnNotes' /\ UNCHANGED active
<1>1. CASE UNCHANGED noteVars
    BY <1>1 DEF noteVars, shownVars, NotesOK, OwnNotes, ClearedStaysCleared
<1>2. CASE ~ UNCHANGED noteVars
    <2>1. /\ active = u /\ note.id \notin dismissed \cup IdsOf(items)
          /\ items' = items \cup {note} /\ Persist /\ UNCHANGED <<active, dismissed>>
        BY <1>2 DEF Add
    <2>2. active # None /\ items' \subseteq Note
        BY <2>1, SessionAssumption DEF NotesOK
    <2>3. stored[active].notes = items /\ stored[active].dismissed = dismissed
        BY <2>2 DEF NotesOK
    <2>4. IdsOf(items) \cap dismissed = {} /\ \A m, n \in items : m.id = n.id => m = n
        BY <2>1, <2>3 DEF NotesOK, ClearedStaysCleared
    <2>5. IdsOf(items') \cap dismissed = {} /\ \A m, n \in items' : m.id = n.id => m = n
        BY <2>1, <2>4 DEF IdsOf
    <2>6. active \in returned' \/ \A m \in items' : m.about = active
        BY <2>1, <2>3 DEF OwnNotes
    <2> QED BY <2>1, <2>2, <2>5, <2>6, PersistKeeps, PersistOwn
<1> QED BY <1>1, <1>2

(* Notes that are read are the notes that were there.                      *)
LEMMA ReadKeeps ==
    ASSUME NotesOK, OwnNotes, active = user, ReadAll \/ \E id \in Ids : ReadOne(id)
    PROVE  NotesOK' /\ OwnNotes'
<1>1. PICK f \in [Note -> BOOLEAN] :
          items' = {[note EXCEPT !.read = f[note]] : note \in items}
    <2>1. CASE ReadAll
        <3> DEFINE f == [note \in Note |-> TRUE]
        <3>1. items' = {[note EXCEPT !.read = f[note]] : note \in items}
            BY <2>1 DEF ReadAll, NotesOK
        <3> QED BY <3>1
    <2>2. ASSUME NEW id \in Ids, ReadOne(id)
          PROVE  \E f \in [Note -> BOOLEAN] :
                     items' = {[note EXCEPT !.read = f[note]] : note \in items}
        <3> DEFINE f == [note \in Note |-> note.read \/ note.id = id]
        <3>0. \A note \in Note : (note.read \/ note.id = id) \in BOOLEAN
            OBVIOUS
        <3>1. f \in [Note -> BOOLEAN]
            BY <3>0
        <3>2. items' = {[note EXCEPT !.read = f[note]] : note \in items}
            BY <2>2 DEF ReadOne, NotesOK
        <3> QED BY <3>1, <3>2
    <2> QED BY <2>1, <2>2
<1> DEFINE g(note) == [note EXCEPT !.read = f[note]]
<1>2. /\ active # None /\ Persist
      /\ UNCHANGED <<active, dismissed, returned>>
    BY DEF ReadAll, ReadOne, MenuShown, Listed
<1>3. \A note \in Note : g(note) \in Note /\ g(note).id = note.id /\ g(note).about = note.about
    BY DEF Note
<1>4. items \subseteq Note /\ stored[active].notes = items /\ stored[active].dismissed = dismissed
      /\ active \in Users
    BY <1>2 DEF NotesOK
<1>5. IdsOf(items) \cap dismissed = {} /\ \A m, n \in items : m.id = n.id => m = n
    BY <1>2, <1>4 DEF NotesOK, ClearedStaysCleared
<1>6. items' = {g(note) : note \in items}
    BY <1>1
<1> HIDE DEF g
<1>7. items' \subseteq Note
    BY <1>3, <1>4, <1>6
<1>8. IdsOf(items') \cap dismissed = {} /\ \A m, n \in items' : m.id = n.id => m = n
    BY <1>3, <1>4, <1>5, <1>6 DEF IdsOf
<1>9. active \in returned' \/ \A note \in items' : note.about = active
    BY <1>2, <1>3, <1>4, <1>6 DEF OwnNotes
<1> QED BY <1>2, <1>7, <1>8, <1>9, PersistKeeps, PersistOwn DEF OwnNotes

(* The list is cleared, and what it showed is what was dismissed. *)
LEMMA ClearKeeps ==
    ASSUME NotesOK, OwnNotes, active = user, Clear PROVE NotesOK' /\ OwnNotes'
<1>1. active \in Users /\ items' = {} /\ dismissed' = IdsOf(items)
      /\ UNCHANGED <<active, returned>>
    BY DEF Clear, ClearEnabled, MenuShown, NotesOK
<1>2. IdsOf(items) \subseteq Ids
    BY DEF NotesOK, Note, IdsOf
<1>3. [notes |-> {}, dismissed |-> IdsOf(items)] \in Stored
    BY <1>2 DEF Stored
<1>4. /\ stored' \in [Users -> Stored]
      /\ stored'[active] = [notes |-> {}, dismissed |-> IdsOf(items)]
      /\ \A u \in Users \ {active} : stored'[u] = stored[u]
    BY <1>1, <1>3 DEF Clear, NotesOK
<1>5. ClearedStaysCleared'
    BY <1>1, <1>4 DEF NotesOK, ClearedStaysCleared, IdsOf
<1>6. OwnNotes'
    BY <1>1, <1>4 DEF OwnNotes
<1> QED BY <1>1, <1>2, <1>4, <1>5, <1>6 DEF NotesOK

(* What a user finds on coming is what was stored for that user. *)
LEMMA HydrateKeeps ==
    ASSUME NotesOK, OwnNotes, UNCHANGED <<stored, returned>>,
           Forget \/ \E u \in Users : Hydrate(u)
    PROVE  NotesOK' /\ OwnNotes'
<1>1. OwnNotes' /\ ClearedStaysCleared'
    BY DEF NotesOK, OwnNotes, ClearedStaysCleared
<1>2. CASE Forget
    BY <1>1, <1>2 DEF Forget, NotesOK
<1>3. ASSUME NEW u \in Users, Hydrate(u) PROVE NotesOK'
    <2>1. stored[u] \in Stored
        BY DEF NotesOK
    <2> QED BY <1>1, <1>3, <2>1 DEF Hydrate, NotesOK, Stored
<1> QED BY <1>1, <1>2, <1>3

-----------------------------------------------------------------------------
(* Every step keeps the invariant. *)
LEMMA SessionNextInv == SessionInv /\ [SessionNext]_sessionVars => SessionInv'
<1> SUFFICES ASSUME SessionInv, [SessionNext]_sessionVars PROVE SessionInv'
    OBVIOUS
<1>0. NotesOK /\ QueriesOK /\ OwnNotes /\ active = user
    BY DEF SessionInv
<1>1. CASE SignOut \/ Reload \/ \E u \in Users : SignIn(u)
    <2>1. /\ Forget \/ \E u \in Users : Hydrate(u)
          /\ UNCHANGED <<stored, returned, watched>>
          /\ active' = user' /\ user' \in Users \cup {None} /\ signing' \subseteq Users
          /\ cache' = None /\ request' = None
          /\ \/ refresh' = None \/ refresh' = refresh
             \/ Waiting /\ refresh' = [refresh EXCEPT !.at = "lost"]
        BY <1>0, <1>1 DEF SignOut, Reload, SignIn, Forget, Hydrate, ResetApiState, QueriesOK
    <2>2. QueriesOK'
        BY <1>0, <2>1 DEF QueriesOK, Refresh, Waiting
    <2> QED BY <1>0, <2>1, <2>2, HydrateKeeps DEF SessionInv
<1>2. CASE ReadAll \/ Clear \/ \E id \in Ids : ReadOne(id)
    <2>1. UNCHANGED <<loginVars, active, queryVars, watched>>
        BY <1>2 DEF ReadAll, Clear, ReadOne
    <2>2. NotesOK' /\ OwnNotes'
        BY <1>0, <1>2, ReadKeeps, ClearKeeps
    <2>3. QueriesOK'
        BY <1>0, <2>1 DEF QueriesOK, queryVars, loginVars
    <2> QED BY <1>0, <2>1, <2>2, <2>3 DEF SessionInv, loginVars
<1>3. CASE PageNotifies
    <2>1. user \in Users /\ NoteOf(cache) \in Note /\ NoteOf(cache).about = user
        BY <1>0, <1>3 DEF PageNotifies, QueriesOK, NoteOf, Note, State
    <2>2. Add(user, NoteOf(cache)) /\ UNCHANGED <<loginVars, queryVars, watched, returned>>
        BY <1>3 DEF PageNotifies
    <2>3. NotesOK' /\ OwnNotes' /\ UNCHANGED active
        BY <1>0, <2>1, <2>2, AddKeeps DEF OwnNotes
    <2>4. QueriesOK'
        BY <1>0, <2>2 DEF QueriesOK, queryVars, loginVars
    <2> QED BY <1>0, <2>2, <2>3, <2>4 DEF SessionInv, loginVars
<1>4. CASE EndRefresh
    <2>1. refresh \in Refresh /\ refresh.got \in State
        BY <1>0, <1>4 DEF EndRefresh, QueriesOK, Refresh
    <2>2. refresh.user \in Users /\ NoteOf(refresh.got) \in Note
          /\ NoteOf(refresh.got).about = refresh.got.about
        BY <2>1 DEF Refresh, NoteOf, Note, State
    <2>3. /\ returned' \subseteq Users /\ returned \subseteq returned'
          /\ \/ active # refresh.user \/ refresh.user \in returned'
             \/ refresh.got.about = refresh.user
        BY <1>0, <1>4, <2>2 DEF EndRefresh, OwnNotes
    <2>4. Add(refresh.user, NoteOf(refresh.got))
        BY <1>4 DEF EndRefresh
    <2>5. NotesOK' /\ OwnNotes' /\ UNCHANGED active
        BY <1>0, <2>2, <2>3, <2>4, AddKeeps
    <2>6. QueriesOK' /\ UNCHANGED user
        BY <1>0, <1>4 DEF EndRefresh, QueriesOK, loginVars
    <2> QED BY <1>0, <2>5, <2>6 DEF SessionInv
<1>5. CASE \/ Fetch \/ BeginRefresh \/ AnswerFails \/ RefreshFails
           \/ \E id \in Ids : Answer(id) \/ LateAnswer(id)
    <2>1. UNCHANGED <<loginVars, noteVars, returned>>
        BY <1>5 DEF Fetch, BeginRefresh, AnswerFails, RefreshFails, Answer, LateAnswer
    <2>2. NotesOK' /\ OwnNotes' /\ active' = user'
        BY <1>0, <2>1 DEF loginVars, noteVars, shownVars, NotesOK, OwnNotes, ClearedStaysCleared
    <2>3. QueriesOK'
        <3>1. CASE Fetch \/ AnswerFails \/ RefreshFails
            BY <1>0, <3>1 DEF Fetch, AnswerFails, RefreshFails, QueriesOK, loginVars
        <3>2. CASE BeginRefresh
            BY <1>0, <3>2 DEF BeginRefresh, QueriesOK, Refresh, loginVars
        <3>3. ASSUME NEW id \in Ids, Answer(id) PROVE QueriesOK'
            <4>1. request = user /\ user \in Users
                BY <1>0, <3>3 DEF Answer, QueriesOK
            <4>2. cache' \in State /\ cache'.about = user
                BY <3>3, <4>1 DEF Answer, State
            <4>3. /\ watched' \in [Users -> SUBSET Users]
                  /\ \A u \in Users : watched'[u] \subseteq {u}
                BY <1>0, <3>3, <4>1 DEF Answer, Watch, QueriesOK
            <4>4. /\ refresh' \in Refresh \cup {None}
                  /\ refresh' # None => (refresh'.at = "product" <=> refresh'.got # None)
                <5>1. CASE Waiting
                    <6>1. refresh \in Refresh /\ refresh' = GotIt(cache')
                        BY <1>0, <3>3, <5>1 DEF Answer, QueriesOK, Waiting
                    <6>2. refresh' \in Refresh /\ refresh'.at = "product"
                          /\ refresh'.got = cache'
                        BY <4>2, <6>1 DEF GotIt, Refresh
                    <6> QED BY <4>2, <6>2, SessionAssumption
                <5>2. CASE ~ Waiting
                    BY <1>0, <3>3, <5>2 DEF Answer, QueriesOK
                <5> QED BY <5>1, <5>2
            <4> QED BY <1>0, <3>3, <4>2, <4>3, <4>4 DEF Answer, QueriesOK, loginVars
        <3>4. ASSUME NEW id \in Ids, LateAnswer(id) PROVE QueriesOK'
            <4>1. refresh \in Refresh /\ refresh.user \in Users
                BY <1>0, <3>4 DEF LateAnswer, QueriesOK, Refresh
            <4>2. /\ watched' \in [Users -> SUBSET Users]
                  /\ \A u \in Users : watched'[u] \subseteq {u}
                BY <1>0, <3>4, <4>1 DEF LateAnswer, Watch, QueriesOK
            <4>3. /\ refresh' \in Refresh \cup {None}
                  /\ refresh' # None => (refresh'.at = "product" <=> refresh'.got # None)
                BY <1>0, <3>4, <4>1 DEF LateAnswer, QueriesOK, Refresh, GotIt
            <4> QED BY <1>0, <3>4, <4>2, <4>3 DEF LateAnswer, QueriesOK, loginVars
        <3> QED BY <1>5, <3>1, <3>2, <3>3, <3>4
    <2> QED BY <2>2, <2>3 DEF SessionInv
<1>6. CASE UNCHANGED sessionVars \/ \E u \in Users : Submit(u) \/ SubmitFails(u)
    BY <1>0, <1>6 DEF Submit, SubmitFails, sessionVars, loginVars, noteVars, shownVars, queryVars, SessionInv, NotesOK,
       QueriesOK, OwnNotes, ClearedStaysCleared
<1> QED BY <1>1, <1>2, <1>3, <1>4, <1>5, <1>6 DEF SessionNext

LEMMA SessionAlways == SessionSpec => []SessionInv
BY SessionInitInv, SessionNextInv, PTL DEF SessionSpec

(* A refresh goes on to the product only with a state, and the slice and   *)
(* its storage hold notes.                                                 *)
THEOREM SessionTypes == SessionSpec => []SessionTypeOK
BY SessionAlways, SessionInvImplies, PTL

(* No user reads of another's place in line, whoever signs in and out of   *)
(* the tab while requests and refreshes run.                               *)
THEOREM Private == SessionSpec => []NotesStayPrivate
BY SessionAlways, SessionInvImplies, PTL

(* The notes shown are those of the user who is signed in, as stored.      *)
THEOREM Shown == SessionSpec => []ShownIsStored
BY SessionAlways, SessionInvImplies, PTL

(* A note that was cleared is not stored again, and none is there twice.   *)
THEOREM Cleared == SessionSpec => []ClearedStaysCleared
BY SessionAlways, SessionInvImplies, PTL
=============================================================================
