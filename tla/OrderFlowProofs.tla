---------------------------- MODULE OrderFlowProofs ----------------------------
(***************************************************************************)
(* The pages of one buyer, for any TTL and any number of entries: what the *)
(* order page shows is what the server recorded, and a retry is answered,  *)
(* whichever requests and answers are lost and whenever a page is left.    *)
(***************************************************************************)
EXTENDS OrderFlow, TLAPS

Submission == [result : Results, at : {"sent", "ok", "refused"}]

(* An entry with a status has a number: the address of an order names one. *)
HasNumber(e) == e.status # "NONE" => e.n # 0

(* The server's entry and the pages' copy of it. *)
EntriesOK ==
    /\ now \in 0 .. MaxNow /\ limited \in BOOLEAN
    /\ entry \in Entry /\ HasNumber(entry)
    /\ cache \in Entry \cup {None} /\ (cache # None => HasNumber(cache))
    /\ fetch \in {"none", "sent", "failed"}

(* The route; requests to the checkout are those of an order page. *)
RouteOK ==
    /\ page \in {"home", "item", "order"} /\ grantId \in 0 .. MaxEntries
    /\ page = "order" <=> grantId # 0
    /\ pageNow \in 0 .. now
    /\ start \in {"none", "sent", "ok", "refused"} /\ paymentOpen \in BOOLEAN
    /\ stray \in Request \cup {None}
    /\ submit # None \/ start # "none" => page = "order"

(* The payment: only what was chosen on the page is sent, recorded under   *)
(* the page's key, kept for a fetch and shown; an answer that is not a     *)
(* refusal says that something is recorded, and a refusal that nothing was.*)
PaymentOK ==
    /\ submit = None \/ submit \in Submission
    /\ recorded \in Results \cup {None} /\ settled \in BOOLEAN
    /\ result \in Results \cup {"idle"} /\ chosen \subseteq Results
    /\ submit # None => submit.result \in chosen
    /\ recorded # None => recorded \in chosen
    /\ submit # None /\ submit.at = "ok" => recorded # None
    /\ awaited \in Results \cup {None}
    /\ awaited # None => awaited \in chosen /\ recorded # None
    /\ result # "idle" => recorded # None
    /\ settled => recorded # None
    /\ RetryIsAnswered

(* What the page shows is right because of what it does not show: that any *)
(* answer it waited for was preceded by a record.                          *)
OrderInv == EntriesOK /\ RouteOK /\ PaymentOK

LEMMA OrderInvImplies == OrderInv => OrderTypeOK /\ ShownIsRecorded /\ RetryIsAnswered
BY OrderAssumption DEF OrderInv, EntriesOK, RouteOK, PaymentOK, Submission,
   OrderTypeOK, ShownIsRecorded

LEMMA OrderInitInv == OrderInit => OrderInv
<1> SUFFICES ASSUME OrderInit PROVE OrderInv
    OBVIOUS
<1>1. EntriesOK
    BY OrderAssumption DEF OrderInit, EntriesOK, Entry, Status, HasNumber
<1>2. RouteOK
    <2>1. paymentOpen \in BOOLEAN
        BY DEF OrderInit
    <2>2. 0 \in 0 .. MaxEntries /\ 0 \in 0 .. 0
        BY OrderAssumption
    <2> QED BY <2>1, <2>2 DEF OrderInit, RouteOK
<1>3. PaymentOK
    BY OrderAssumption DEF OrderInit, PaymentOK, RetryIsAnswered
<1> QED BY <1>1, <1>2, <1>3 DEF OrderInv

-----------------------------------------------------------------------------
(***************************************************************************)
(* The server and the queries.                                             *)
(***************************************************************************)

(* What happens to an entry that has a number leaves it with one. *)
LEMMA EntryMoves ==
    ASSUME EntriesOK, NEW status \in Status \ {"NONE"}, NEW deadline \in 0 .. MaxNow,
           entry.status # "NONE"
    PROVE  /\ [entry EXCEPT !.status = status, !.deadline = deadline] \in Entry
           /\ [entry EXCEPT !.status = status] \in Entry
           /\ HasNumber([entry EXCEPT !.status = status, !.deadline = deadline])
           /\ HasNumber([entry EXCEPT !.status = status])
BY DEF EntriesOK, Entry, HasNumber

LEMMA StartedEntry == ASSUME EntriesOK PROVE Started \in Entry /\ HasNumber(Started)
<1>1. CASE Started = entry
    BY <1>1 DEF EntriesOK
<1>2. CASE Started = [entry EXCEPT !.status = "CHECKOUT_PENDING"] /\ entry.status = "GRANTED"
    BY <1>2 DEF EntriesOK, Entry, HasNumber, Status, CheckoutAvailable
<1> QED BY <1>1, <1>2 DEF Started

LEMMA SettledEntry ==
    ASSUME EntriesOK, NEW r \in Results, entry.status = "CHECKOUT_PENDING"
    PROVE  /\ [entry EXCEPT !.status = Outcome(r)] \in Entry
           /\ HasNumber([entry EXCEPT !.status = Outcome(r)])
BY DEF EntriesOK, Entry, HasNumber, Status, Over, Outcome

LEMMA JoinedEntry ==
    ASSUME EntriesOK, NEW e \in Joined, e.n <= MaxEntries
    PROVE  e \in Entry /\ HasNumber(e)
<1>1. CASE e = entry
    BY <1>1 DEF EntriesOK
<1>2. CASE \/ e = [n |-> entry.n + 1, status |-> "WAITING", deadline |-> 0]
           \/ /\ e = [n |-> entry.n + 1, status |-> "GRANTED", deadline |-> now + TTL]
              /\ e.deadline <= MaxNow
    BY <1>2, OrderAssumption DEF EntriesOK, Entry, HasNumber, Status, CheckoutAvailable
<1> QED BY <1>1, <1>2 DEF Joined

(* Transactions of others, and the clock. *)
LEMMA ServerSteps ==
    ASSUME OrderInv, Granted \/ SoldOut \/ Expire \/ Tick
    PROVE  OrderInv'
<1>1. UNCHANGED <<queryVars, routeVars, payVars, stray>> /\ limited' = limited
    BY DEF Granted, SoldOut, Expire, Tick, AtServer
<1>2. now' \in 0 .. MaxNow /\ now <= now'
    BY OrderAssumption DEF OrderInv, EntriesOK, Granted, SoldOut, Expire, Tick, AtServer
<1>3. entry' \in Entry /\ HasNumber(entry')
    <2>1. CASE Granted
        <3>1. now + TTL \in 0 .. MaxNow /\ "GRANTED" \in Status \ {"NONE"}
            BY <2>1, OrderAssumption DEF Granted, OrderInv, EntriesOK, Status, CheckoutAvailable
        <3>2. entry.status # "NONE"
              /\ entry' = [entry EXCEPT !.status = "GRANTED", !.deadline = now + TTL]
            BY <2>1 DEF Granted, AtServer
        <3> QED BY <3>1, <3>2, EntryMoves DEF OrderInv
    <2>2. CASE SoldOut \/ Expire
        BY <2>2 DEF OrderInv, EntriesOK, SoldOut, Expire, AtServer, Entry, HasNumber, Status, Over
    <2>3. CASE Tick
        BY <2>3 DEF OrderInv, EntriesOK, Tick
    <2> QED BY <2>1, <2>2, <2>3
<1>4. EntriesOK'
    BY <1>1, <1>2, <1>3 DEF OrderInv, EntriesOK, queryVars, HasNumber
<1>5. RouteOK' /\ PaymentOK'
    BY <1>1, <1>2 DEF OrderInv, EntriesOK, RouteOK, PaymentOK, RetryIsAnswered, routeVars, payVars
<1> QED BY <1>4, <1>5 DEF OrderInv

LEMMA QuerySteps ==
    ASSUME OrderInv, Refetch \/ Receive \/ FetchFails \/ AskAgain \/ PageTick
    PROVE  OrderInv'
<1> USE DEF OrderInv
<1>1. EntriesOK' /\ UNCHANGED <<serverVars, page, grantId, stray>>
    BY DEF Refetch, Receive, FetchFails, AskAgain, PageTick, Ask, EntriesOK, HasNumber, serverVars,
       routeVars, queryVars
<1>2. pageNow' \in 0 .. now'
    BY DEF Refetch, Receive, FetchFails, AskAgain, PageTick, EntriesOK, RouteOK, serverVars,
       routeVars
<1>3. CASE UNCHANGED payVars
    BY <1>1, <1>2, <1>3 DEF RouteOK, PaymentOK, RetryIsAnswered, payVars, routeVars
<1>4. CASE ~ UNCHANGED payVars /\ Receive
    <2>1. /\ awaited # None /\ awaited' = None /\ paymentOpen' = FALSE /\ result' = awaited
          /\ UNCHANGED <<start, submit, recorded, chosen, settled>>
        BY <1>4 DEF Receive
    <2>2. awaited \in Results /\ recorded # None
        BY <2>1 DEF PaymentOK
    <2>3. PaymentOK'
        BY <2>1, <2>2 DEF PaymentOK, RetryIsAnswered
    <2>4. RouteOK'
        BY <1>1, <1>2, <2>1 DEF RouteOK
    <2> QED BY <1>1, <2>3, <2>4
<1>5. CASE ~ UNCHANGED payVars /\ FetchFails
    <2>1. awaited' = None
          /\ UNCHANGED <<start, paymentOpen, submit, recorded, result, chosen, settled>>
        BY <1>5 DEF FetchFails
    <2>2. PaymentOK'
        BY <2>1 DEF PaymentOK, RetryIsAnswered
    <2>3. RouteOK'
        BY <1>1, <1>2, <2>1 DEF RouteOK
    <2> QED BY <1>1, <2>2, <2>3
<1> QED BY <1>3, <1>4, <1>5 DEF Refetch, AskAgain, PageTick

-----------------------------------------------------------------------------
(***************************************************************************)
(* Leaving a page: its payment is forgotten, and what it had sent is the   *)
(* stray request.                                                          *)
(***************************************************************************)
LEMMA MountKeeps ==
    ASSUME RouteOK, PaymentOK, UNCHANGED now, now \in 0 .. MaxNow,
           NEW p \in {"home", "item", "order"}, NEW n \in 0 .. MaxEntries,
           p = "order" <=> n # 0, Mount(p, n)
    PROVE  RouteOK' /\ PaymentOK' /\ fetch' \in {fetch, "sent"}
<1>1. stray' \in Request \cup {None}
    <2>1. CASE submit # None /\ submit.at = "sent"
        <3>1. grantId \in 1 .. MaxEntries /\ submit.result \in Results
            BY <2>1, OrderAssumption DEF RouteOK, PaymentOK, Submission
        <3> QED BY <2>1, <3>1 DEF Mount, Request
    <2>2. CASE start = "sent" /\ ~ (submit # None /\ submit.at = "sent")
        <3>1. grantId \in 1 .. MaxEntries
            BY <2>2, OrderAssumption DEF RouteOK
        <3> QED BY <2>2, <3>1 DEF Mount, Request
    <2>3. CASE start # "sent" /\ ~ (submit # None /\ submit.at = "sent")
        BY <2>3 DEF Mount, RouteOK
    <2> QED BY <2>1, <2>2, <2>3
<1>2. pageNow' \in 0 .. now'
    BY DEF Mount
<1>3. RouteOK'
    BY <1>1, <1>2 DEF Mount, RouteOK
<1>4. PaymentOK'
    BY OrderAssumption DEF Mount, PaymentOK, RetryIsAnswered
<1> QED BY <1>3, <1>4 DEF Mount

LEMMA RouteSteps ==
    ASSUME OrderInv, OpenItem \/ GoHome \/ Continue \/ Redirect
    PROVE  OrderInv'
<1> USE DEF OrderInv
<1>1. UNCHANGED <<serverVars, cache>> /\ now \in 0 .. MaxNow /\ 0 \in 0 .. MaxEntries
    BY OrderAssumption DEF OpenItem, GoHome, Continue, Redirect, EntriesOK
<1>2. RouteOK' /\ PaymentOK' /\ fetch' \in {fetch, "sent"}
    <2>1. CASE OpenItem \/ Redirect
        BY <1>1, <2>1, MountKeeps DEF OpenItem, Redirect, serverVars
    <2>2. CASE GoHome
        BY <1>1, <2>2, MountKeeps DEF GoHome, serverVars
    <2>3. CASE Continue
        <3>1. cache.n \in 0 .. MaxEntries /\ cache.n # 0
            BY <2>3 DEF Continue, Has, EntriesOK, HasNumber, Entry, CheckoutAvailable
        <3> QED BY <1>1, <2>3, <3>1, MountKeeps DEF Continue, serverVars
    <2> QED BY <2>1, <2>2, <2>3
<1>3. EntriesOK'
    BY <1>1, <1>2 DEF EntriesOK, serverVars, HasNumber
<1> QED BY <1>2, <1>3

LEMMA QueueSteps == ASSUME OrderInv, Join \/ JoinLost \/ Leave \/ LeaveFails PROVE OrderInv'
<1> USE DEF OrderInv
<1>1. UNCHANGED <<now, limited, cache>> /\ now \in 0 .. MaxNow /\ 0 \in 0 .. MaxEntries
    BY OrderAssumption DEF Join, JoinLost, Leave, LeaveFails, EntriesOK
<1>2. entry' \in Entry /\ HasNumber(entry')
    <2>1. CASE Join \/ JoinLost
        BY <2>1, JoinedEntry DEF Join, JoinLost
    <2>2. CASE Leave \/ LeaveFails
        <3>1. CASE entry' = entry
            BY <3>1 DEF EntriesOK
        <3>2. CASE entry' = Cancelled /\ Cancelled # entry
            <4>1. entry.status # "NONE" /\ 0 \in 0 .. MaxNow
                  /\ "CANCELLED" \in Status \ {"NONE"}
                BY <3>2, OrderAssumption DEF Cancelled, Status, Over
            <4> QED BY <3>2, <4>1, EntryMoves DEF Cancelled
        <3> QED BY <2>2, <3>1, <3>2 DEF Leave, LeaveFails
    <2> QED BY <2>1, <2>2
<1>3. RouteOK' /\ PaymentOK' /\ fetch' \in {fetch, "sent"}
    <2>1. CASE fetch' = "sent" /\ UNCHANGED <<routeVars, payVars, stray>>
        BY <1>1, <2>1 DEF RouteOK, PaymentOK, RetryIsAnswered, routeVars, payVars
    <2>2. CASE Mount("item", 0)
        BY <1>1, <2>2, MountKeeps
    <2>3. CASE Mount("order", entry'.n) /\ entry'.status = "GRANTED"
        <3>1. entry'.n \in 0 .. MaxEntries /\ entry'.n # 0
            BY <1>2, <2>3 DEF Entry, HasNumber
        <3> QED BY <1>1, <2>3, <3>1, MountKeeps
    <2> QED BY <2>1, <2>2, <2>3 DEF Join, JoinLost, Leave, LeaveFails
<1>4. EntriesOK'
    BY <1>1, <1>2, <1>3 DEF EntriesOK, HasNumber
<1> QED BY <1>3, <1>4

-----------------------------------------------------------------------------
(***************************************************************************)
(* The requests of the order page.                                         *)
(***************************************************************************)

LEMMA StartSteps ==
    ASSUME OrderInv, OpenPayment \/ StartArrives \/ StartAnswered \/ StartFails \/ ClosePayment
    PROVE  OrderInv'
<1> USE DEF OrderInv
<1>1. /\ UNCHANGED <<now, limited, cache, routeVars, submit, awaited, recorded, result, chosen,
                     settled, stray>>
      /\ fetch' \in {fetch, "sent"}
    BY DEF OpenPayment, StartArrives, StartAnswered, StartFails, ClosePayment, Ask, serverVars,
       queryVars
<1>2. entry' \in Entry /\ HasNumber(entry')
    BY StartedEntry DEF OpenPayment, StartArrives, StartAnswered, StartFails, ClosePayment,
       serverVars, EntriesOK
<1>3. /\ start' \in {"none", "sent", "ok", "refused"} /\ paymentOpen' \in BOOLEAN
      /\ start' # "none" => page = "order"
    BY DEF OpenPayment, StartArrives, StartAnswered, StartFails, ClosePayment, RouteOK, PayEnabled,
       Rendered
<1>4. EntriesOK'
    BY <1>1, <1>2 DEF EntriesOK, HasNumber
<1>5. RouteOK' /\ PaymentOK'
    BY <1>1, <1>3 DEF RouteOK, PaymentOK, RetryIsAnswered, routeVars
<1> QED BY <1>4, <1>5

LEMMA SubmitSteps ==
    ASSUME OrderInv,
           SubmitArrives \/ Answered \/ SubmitFails \/ \E r \in Results : ChooseResult(r)
    PROVE  OrderInv'
<1> USE DEF OrderInv
<1>1. /\ UNCHANGED <<now, limited, cache, routeVars, start, paymentOpen, result, stray>>
      /\ fetch' \in {fetch, "sent"}
    BY DEF SubmitArrives, Answered, SubmitFails, ChooseResult, Ask, serverVars, queryVars
<1>2. entry' \in Entry /\ HasNumber(entry')
    <2>1. CASE UNCHANGED entry
        BY <2>1 DEF EntriesOK
    <2>2. CASE SubmitArrives /\ ~ UNCHANGED entry
        <3>1. submit.result \in Results /\ entry.status = "CHECKOUT_PENDING"
              /\ entry' = [entry EXCEPT !.status = Outcome(submit.result)]
            BY <2>2 DEF SubmitArrives, PaymentOK, Submission
        <3> QED BY <3>1, SettledEntry
    <2> QED BY <2>1, <2>2 DEF Answered, SubmitFails, ChooseResult, serverVars
<1>3. EntriesOK'
    BY <1>1, <1>2 DEF EntriesOK, HasNumber
<1>4. submit' # None => page = "order"
    BY DEF SubmitArrives, Answered, SubmitFails, ChooseResult, Rendered, RouteOK
<1>5. RouteOK'
    BY <1>1, <1>4 DEF RouteOK, routeVars
<1>6. PaymentOK'
    <2>1. ASSUME NEW r \in Results, ChooseResult(r) PROVE PaymentOK'
        <3>1. /\ submit' \in Submission /\ submit'.result = r /\ submit'.at = "sent"
              /\ chosen' = chosen \cup {r} /\ UNCHANGED <<awaited, recorded, settled, result>>
            BY <2>1 DEF ChooseResult, Submission
        <3> QED BY <3>1 DEF PaymentOK, RetryIsAnswered
    <2>2. CASE SubmitArrives
        <3>1. submit \in Submission /\ submit.at = "sent" /\ submit.result \in chosen
              /\ UNCHANGED <<awaited, chosen, result>>
            BY <2>2 DEF SubmitArrives, PaymentOK
        <3>2. /\ submit' \in Submission /\ submit'.result = submit.result
              /\ \/ submit'.at = "ok" /\ recorded # None /\ UNCHANGED <<recorded, settled>>
                 \/ submit'.at = "ok" /\ recorded' = submit.result /\ settled'
                 \/ submit'.at = "refused" /\ recorded = None /\ UNCHANGED <<recorded, settled>>
            BY <2>2, <3>1 DEF SubmitArrives, Submission
        <3>3. settled' \in BOOLEAN /\ submit.result \in Results /\ submit.result # None
            BY <2>2, <3>1, OrderAssumption DEF SubmitArrives, PaymentOK, Submission
        <3> QED BY <3>1, <3>2, <3>3 DEF PaymentOK, RetryIsAnswered
    <2>3. CASE Answered
        <3>1. submit \in Submission /\ submit.at = "ok" /\ submit' = None
              /\ awaited' = submit.result /\ awaited' \in Results
              /\ UNCHANGED <<recorded, result, chosen, settled>>
            BY <2>3 DEF Answered, PaymentOK, Submission
        <3> QED BY <2>3, <3>1 DEF Answered, PaymentOK, RetryIsAnswered
    <2>4. CASE SubmitFails
        BY <2>4 DEF SubmitFails, PaymentOK, RetryIsAnswered
    <2> QED BY <2>1, <2>2, <2>3, <2>4
<1> QED BY <1>3, <1>5, <1>6

LEMMA StraySteps == ASSUME OrderInv, StrayArrives PROVE OrderInv'
<1> USE DEF OrderInv
<1>1. stray \in Request /\ stray' = None
      /\ UNCHANGED <<now, limited, queryVars, routeVars, payVars>>
    BY DEF StrayArrives, RouteOK
<1>2. CASE entry' = entry
    BY <1>1, <1>2 DEF EntriesOK, RouteOK, PaymentOK, RetryIsAnswered, HasNumber, queryVars,
       routeVars, payVars
<1>3. CASE entry' # entry
    <2>1. entry' \in Entry /\ HasNumber(entry')
        <3>1. CASE stray.what = "start"
            BY <1>3, <3>1, StartedEntry DEF StrayArrives
        <3>2. CASE stray.what # "start"
            <4>1. stray.what \in Results /\ entry.status = "CHECKOUT_PENDING"
                  /\ entry' = [entry EXCEPT !.status = Outcome(stray.what)]
                BY <1>1, <1>3, <3>2 DEF StrayArrives, Request
            <4> QED BY <4>1, SettledEntry
        <3> QED BY <3>1, <3>2
    <2> QED BY <1>1, <2>1 DEF EntriesOK, RouteOK, PaymentOK, RetryIsAnswered, HasNumber,
        queryVars, routeVars, payVars
<1> QED BY <1>2, <1>3

LEMMA OrderNextInv == OrderInv /\ [OrderNext]_orderVars => OrderInv'
<1> SUFFICES ASSUME OrderInv, [OrderNext]_orderVars PROVE OrderInv'
    OBVIOUS
<1>1. CASE UNCHANGED orderVars
    BY <1>1 DEF OrderInv, orderVars, serverVars, queryVars, routeVars, payVars, EntriesOK, RouteOK,
       PaymentOK, RetryIsAnswered, HasNumber
<1>2. CASE OrderNext
    BY <1>2, ServerSteps, QuerySteps, RouteSteps, QueueSteps, StartSteps, SubmitSteps, StraySteps
    DEF OrderNext
<1> QED BY <1>1, <1>2

LEMMA OrderAlways == OrderSpec => []OrderInv
BY OrderInitInv, OrderNextInv, PTL DEF OrderSpec

(* The requests, the routes and the numbers of orders stay well formed: no *)
(* request is on its way from a page that is not an order's.               *)
THEOREM OrderTypes == OrderSpec => []OrderTypeOK
BY OrderAlways, OrderInvImplies, PTL

(* The result on the screen is the one recorded under the page's key,      *)
(* whichever answers were lost and tried again.                            *)
THEOREM ShownAsRecorded == OrderSpec => []ShownIsRecorded
BY OrderAlways, OrderInvImplies, PTL

(* Who tries again what was done is not told that there is nothing to pay. *)
THEOREM RetriesAnswered == OrderSpec => []RetryIsAnswered
BY OrderAlways, OrderInvImplies, PTL
=============================================================================
