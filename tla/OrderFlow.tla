------------------------------ MODULE OrderFlow ------------------------------
(***************************************************************************)
(* A buyer's way through the pages: the page of an item, whose button      *)
(* joins, continues or waits; and the order page of one right, with its    *)
(* clock, its dialogues and its two requests to the checkout.  The server  *)
(* is reduced to the buyer's own entry (FairQueue has the rest); answers   *)
(* may be late or lost, and the buyer may leave a page at any moment.      *)
(*                                                                         *)
(* The state that the pages show is the cache's; a signal that something   *)
(* changed, and every invalidation, is a Refetch that may come.            *)
(***************************************************************************)
EXTENDS Integers

CONSTANTS
    None,
    TTL,                  \* how long a right lasts, in half seconds
    MaxNow, MaxEntries    \* bounds of the model

Results == {"success", "failure", "timeout"}

(* The clock goes in half seconds, to tell a deadline from a countdown     *)
(* that shows whole seconds.                                               *)
Second == 2

ASSUME OrderAssumption ==
    /\ TTL \in Nat /\ TTL >= Second /\ MaxNow \in Nat /\ MaxEntries \in Nat
    /\ None \notin Results

VARIABLES
    now,         \* the clock
    entry,       \* the buyer's last entry at the server
    limited,     \* product.isLimited
    cache,       \* queueState, as both pages have it
    fetch,       \* the fetch of it: "none", "sent", "failed"
    page,        \* "home", "item" or "order"
    grantId,     \* of the order page: the right in its address
    pageNow,     \* the page's own `now`
    start,       \* startCheckout: "none", "sent", then "ok" or "refused"
    paymentOpen, \* the payment dialogue
    submit,      \* the payment result on its way
    awaited,     \* the result answered, while the page waits for a fetch
    stray,       \* a request that was on its way when its page was left
    recorded,    \* what the server recorded under the page's idempotency key
    result,      \* the result that the page shows
    chosen,      \* auxiliary: the results chosen on the page
    settled      \* auxiliary: the server has recorded a result from the page

serverVars == <<now, entry, limited>>
queryVars == <<cache, fetch>>
routeVars == <<page, grantId, pageNow>>
payVars == <<start, paymentOpen, submit, awaited, recorded, result, chosen, settled>>
orderVars == <<serverVars, queryVars, routeVars, payVars, stray>>

CheckoutAvailable == {"GRANTED", "CHECKOUT_PENDING"}
Over == {"PURCHASED", "PAYMENT_FAILED", "EXPIRED", "CANCELLED", "SOLD_OUT"}
Status == {"NONE", "WAITING"} \cup CheckoutAvailable \cup Over

Entry == [n : 0 .. MaxEntries, status : Status, deadline : 0 .. MaxNow]
Request == [n : 1 .. MaxEntries, what : Results \cup {"start"}]

OrderInit ==
    /\ now = 0 /\ entry = [n |-> 0, status |-> "NONE", deadline |-> 0]
    /\ limited \in BOOLEAN
    /\ cache = None /\ fetch = "none"
    /\ page = "home" /\ grantId = 0 /\ pageNow = 0
    /\ start = "none" /\ paymentOpen = FALSE /\ submit = None /\ stray = None
    /\ awaited = None /\ recorded = None /\ result = "idle" /\ chosen = {} /\ settled = FALSE

-----------------------------------------------------------------------------
(***************************************************************************)
(* What the pages compute when they render.                                *)
(***************************************************************************)

Has(status) == cache # None /\ cache.status \in status

(* The countdown has come to zero: getCountdown leaves out the fraction of *)
(* a second that is left, so that the page is there up to a second before  *)
(* the deadline.  The answer has the deadline while there is a right, and  *)
(* the order of a product that is not limited has no clock.                *)
Zero == Has(CheckoutAvailable) /\ cache.deadline - pageNow < Second

(* Mutant: only the server's answer is believed. *)
ExpiredByAnswer == result # "success" /\ Has({"EXPIRED"})

IsExpired == result # "success" /\ (Has({"EXPIRED"}) \/ Zero)

OwnRight == Has(CheckoutAvailable) /\ cache.n = grantId

(* Neither the skeleton nor an empty page is returned. *)
Rendered ==
    /\ page = "order" /\ cache # None
    /\ result = "idle" => OwnRight \/ Has({"EXPIRED"})

PayEnabled == Rendered /\ result # "success" /\ ~ IsExpired /\ start = "none"

-----------------------------------------------------------------------------
(***************************************************************************)
(* The server.                                                             *)
(***************************************************************************)

AtServer(e) == entry' = e /\ UNCHANGED <<now, limited, queryVars, routeVars, payVars, stray>>

(* A place in line becomes a right, or the last piece is sold.  No right   *)
(* lasts longer than the model's clock (MaxNow).                           *)
Granted ==
    /\ entry.status = "WAITING" /\ now + TTL <= MaxNow
    /\ AtServer([entry EXCEPT !.status = "GRANTED", !.deadline = now + TTL])

SoldOut == entry.status = "WAITING" /\ AtServer([entry EXCEPT !.status = "SOLD_OUT"])

(* The worker, some time after the deadline; a checkout is never ended.    *)
Expire ==
    /\ entry.status = "GRANTED" /\ entry.deadline < now
    /\ AtServer([entry EXCEPT !.status = "EXPIRED"])

Tick ==
    /\ now < MaxNow
    /\ now' = now + 1
    /\ UNCHANGED <<entry, limited, queryVars, routeVars, payVars, stray>>

-----------------------------------------------------------------------------
(***************************************************************************)
(* Queries and routes.                                                     *)
(***************************************************************************)

Ask == fetch' = "sent" /\ UNCHANGED cache

Refetch ==
    /\ page # "home" /\ fetch # "sent"
    /\ Ask
    /\ UNCHANGED <<serverVars, routeVars, payVars, stray>>

(* After the payment's answer the page waits for a fetch, whichever is     *)
(* pending, and then shows the result that was chosen.                     *)
Receive ==
    /\ fetch = "sent"
    /\ cache' = entry /\ fetch' = "none"
    /\ IF awaited # None
       THEN /\ awaited' = None /\ paymentOpen' = FALSE /\ result' = awaited
            /\ UNCHANGED <<start, submit, recorded, chosen, settled>>
       ELSE UNCHANGED payVars
    /\ UNCHANGED <<serverVars, routeVars, stray>>

(* Nothing repeats the fetch, and a payment's result is not shown. *)
FetchFails ==
    /\ fetch = "sent"
    /\ fetch' = "failed" /\ UNCHANGED cache
    /\ awaited' = None
    /\ UNCHANGED <<serverVars, routeVars, start, paymentOpen, submit, recorded, result, chosen,
                   settled, stray>>

(* Another page is mounted, with a state of its own and a fetch; what the  *)
(* last one sent is still on its way.                                      *)
Mount(p, n) ==
    /\ page' = p /\ grantId' = n
    /\ pageNow' = IF p = "order" THEN 0 ELSE now
    /\ fetch' = IF p = "home" THEN fetch ELSE "sent"
    /\ start' = "none" /\ paymentOpen' = FALSE
    /\ submit' = None /\ awaited' = None /\ recorded' = None /\ result' = "idle"
    /\ chosen' = {} /\ settled' = FALSE
    /\ stray' = IF submit # None /\ submit.at = "sent" THEN [n |-> grantId, what |-> submit.result]
                ELSE IF start = "sent" THEN [n |-> grantId, what |-> "start"]
                ELSE stray

(* The buyer opens the item: from home, by the browser's back button, by   *)
(* closing the dialogue of a failed payment.  An order is left for home    *)
(* from the dialogues of success and of the end.                           *)
OpenItem ==
    /\ page # "item"
    /\ Mount("item", 0)
    /\ UNCHANGED <<serverVars, cache>>

GoHome ==
    /\ page = "order" /\ (result = "success" \/ IsExpired)
    /\ Mount("home", 0)
    /\ UNCHANGED <<serverVars, cache>>

(* The interval of the page.  That of the item runs while there is a right *)
(* to count down, that of the order while the product is limited.          *)
PageTick ==
    /\ pageNow # now
    /\ (page = "item" /\ Has(CheckoutAvailable)) \/ (page = "order" /\ limited)
    /\ pageNow' = now
    /\ UNCHANGED <<serverVars, queryVars, page, grantId, payVars, stray>>

-----------------------------------------------------------------------------
(***************************************************************************)
(* The item's button (handleCta).  A place in line opens a dialogue only;  *)
(* a right that the page takes for run out is asked about again.           *)
(***************************************************************************)

Continue ==
    /\ page = "item" /\ Has(CheckoutAvailable) /\ ~ Zero
    /\ Mount("order", cache.n)
    /\ UNCHANGED <<serverVars, cache>>

AskAgain ==
    /\ page = "item" /\ Zero /\ fetch # "sent"
    /\ Ask
    /\ UNCHANGED <<serverVars, routeVars, payVars, stray>>

(* JoinQueue returns an active entry as it is. *)
CanJoin == page = "item" /\ ~ Has(CheckoutAvailable \cup {"SOLD_OUT"}) /\ ~ (limited /\ Has({"WAITING"}))

Joined ==
    IF entry.status \in CheckoutAvailable \cup {"WAITING"} THEN {entry}
    ELSE {[n |-> entry.n + 1, status |-> "WAITING", deadline |-> 0]}
         \cup {e \in {[n |-> entry.n + 1, status |-> "GRANTED", deadline |-> now + TTL]} :
                  e.deadline <= MaxNow}

(* A right leads to its order. *)
Join ==
    /\ CanJoin
    /\ entry' \in {e \in Joined : e.n <= MaxEntries}
    /\ IF entry'.status = "GRANTED" THEN Mount("order", entry'.n)
       ELSE fetch' = "sent" /\ UNCHANGED <<routeVars, payVars, stray>>
    /\ UNCHANGED <<now, limited, cache>>

(* The answer is lost; an error is shown, the state is fetched. *)
JoinLost ==
    /\ CanJoin
    /\ entry' \in {e \in Joined : e.n <= MaxEntries}
    /\ fetch' = "sent"
    /\ UNCHANGED <<now, limited, cache, routeVars, payVars, stray>>

(* From the dialogue of the line, or from the order page's; a checkout     *)
(* that has begun is not left.                                             *)
CanLeave == (page = "item" /\ Has({"WAITING"})) \/ (Rendered /\ limited /\ ~ IsExpired)

Cancelled ==
    IF entry.status \in {"WAITING", "GRANTED"}
    THEN [entry EXCEPT !.status = "CANCELLED", !.deadline = 0] ELSE entry

Leave ==
    /\ CanLeave /\ Cancelled # entry
    /\ entry' = Cancelled
    /\ IF page = "order" THEN Mount("item", 0)
       ELSE fetch' = "sent" /\ UNCHANGED <<routeVars, payVars, stray>>
    /\ UNCHANGED <<now, limited, cache>>

(* Refused, or lost on its way there or back: the page stays as it is, and *)
(* the state is fetched.                                                   *)
LeaveFails ==
    /\ CanLeave
    /\ entry' \in {entry, Cancelled}
    /\ fetch' = "sent"
    /\ UNCHANGED <<now, limited, cache, routeVars, payVars, stray>>

-----------------------------------------------------------------------------
(***************************************************************************)
(* The order page.                                                         *)
(***************************************************************************)

(* Mutant: a state that has run out is left like the others' rights only.  *)
RedirectFromOthers ==
    /\ page = "order" /\ ~ paymentOpen /\ result = "idle" /\ fetch # "sent"
    /\ Has(CheckoutAvailable) /\ cache.n # grantId
    /\ Mount("item", 0)
    /\ UNCHANGED <<serverVars, cache>>

(* The effect that leaves the page when there is nothing to order. *)
Redirect ==
    /\ page = "order" /\ ~ paymentOpen /\ result = "idle" /\ fetch # "sent"
    /\ ~ (Has({"EXPIRED"}) /\ fetch # "failed")
    /\ ~ OwnRight
    /\ Mount("item", 0)
    /\ UNCHANGED <<serverVars, cache>>

(* openPayment.  A failure is told by a dialogue over the page, "timeout"  *)
(* is not.                                                                 *)
OpenPayment ==
    /\ PayEnabled /\ ~ paymentOpen /\ result # "failure"
    /\ IF cache.status = "GRANTED"
       THEN start' = "sent" /\ UNCHANGED paymentOpen
       ELSE paymentOpen' = TRUE /\ UNCHANGED start
    /\ UNCHANGED <<serverVars, queryVars, routeVars, submit, awaited, recorded, result, chosen,
                   settled, stray>>

(* StartCheckout, of a right that has not run out. *)
Started ==
    IF entry.status = "GRANTED" /\ now < entry.deadline
    THEN [entry EXCEPT !.status = "CHECKOUT_PENDING"] ELSE entry

StartArrives ==
    /\ start = "sent"
    /\ IF entry.n = grantId /\ Started # entry
       THEN start' = "ok" /\ entry' = Started
       ELSE start' = "refused" /\ UNCHANGED entry
    /\ UNCHANGED <<now, limited, queryVars, routeVars, paymentOpen, submit, awaited, recorded,
                   result, chosen, settled, stray>>

(* With any answer the state is fetched again. *)
StartAnswered ==
    /\ start \in {"ok", "refused"}
    /\ start' = "none"
    /\ paymentOpen' = (paymentOpen \/ start = "ok")
    /\ Ask
    /\ UNCHANGED <<serverVars, routeVars, submit, awaited, recorded, result, chosen, settled,
                   stray>>

StartFails ==
    /\ start # "none"
    /\ start' = "none"
    /\ Ask
    /\ UNCHANGED <<serverVars, routeVars, paymentOpen, submit, awaited, recorded, result, chosen,
                   settled, stray>>

(* A dialogue may be closed while a request runs. *)
ClosePayment ==
    /\ paymentOpen /\ Rendered /\ ~ IsExpired
    /\ paymentOpen' = FALSE
    /\ UNCHANGED <<serverVars, queryVars, routeVars, start, submit, awaited, recorded, result,
                   chosen, settled, stray>>

(* Mutant: every try has a key of its own. *)
ChooseWithNewKey(r) ==
    /\ paymentOpen /\ Rendered /\ ~ IsExpired /\ submit = None
    /\ r = "timeout" => limited
    /\ submit' = [result |-> r, at |-> "sent"]
    /\ recorded' = None
    /\ chosen' = chosen \cup {r}
    /\ UNCHANGED <<serverVars, queryVars, routeVars, start, paymentOpen, awaited, result, settled,
                   stray>>

(* chooseResult: the key is made once and lasts as long as the page.  The  *)
(* buttons wait for the answer of the request, not for the fetch after it. *)
(* The dialogue of the end covers the others.                              *)
ChooseResult(r) ==
    /\ paymentOpen /\ Rendered /\ ~ IsExpired /\ submit = None
    /\ r = "timeout" => limited
    /\ submit' = [result |-> r, at |-> "sent"]
    /\ chosen' = chosen \cup {r}
    /\ UNCHANGED <<serverVars, queryVars, routeVars, start, paymentOpen, awaited, recorded, result,
                   settled, stray>>

(* Mutant: the entry is given the name of the grant's status.              *)
OutcomeOfGrant(r) == IF r = "success" THEN "PURCHASED" ELSE "FAILED"

Outcome(r) == IF r = "success" THEN "PURCHASED" ELSE "PAYMENT_FAILED"

(* SubmitPaymentResult: a known key is answered from what was recorded.    *)
SubmitArrives ==
    /\ submit # None /\ submit.at = "sent"
    /\ IF recorded # None
       THEN submit' = [submit EXCEPT !.at = "ok"] /\ UNCHANGED <<entry, recorded, settled>>
       ELSE IF entry.n = grantId /\ entry.status = "CHECKOUT_PENDING"
       THEN /\ submit' = [submit EXCEPT !.at = "ok"]
            /\ entry' = [entry EXCEPT !.status = Outcome(submit.result)]
            /\ recorded' = submit.result /\ settled' = TRUE
       ELSE submit' = [submit EXCEPT !.at = "refused"] /\ UNCHANGED <<entry, recorded, settled>>
    /\ UNCHANGED <<now, limited, queryVars, routeVars, start, paymentOpen, awaited, result, chosen,
                   stray>>

StrayArrives ==
    /\ stray # None
    /\ stray' = None
    /\ entry' = IF entry.n # stray.n THEN entry
                ELSE IF stray.what = "start" THEN Started
                ELSE IF entry.status = "CHECKOUT_PENDING"
                THEN [entry EXCEPT !.status = Outcome(stray.what)] ELSE entry
    /\ UNCHANGED <<now, limited, queryVars, routeVars, payVars>>

(* Mutant: the error is not thrown (unwrap is missing). *)
AnswerUnchecked ==
    /\ submit # None /\ submit.at \in {"ok", "refused"}
    /\ submit' = None /\ awaited' = submit.result
    /\ Ask
    /\ UNCHANGED <<serverVars, routeVars, start, paymentOpen, recorded, result, chosen, settled,
                   stray>>

(* Another result may be waiting for the same fetch: the one answered last *)
(* is the one that will be shown.                                          *)
Answered ==
    /\ submit # None /\ submit.at = "ok"
    /\ submit' = None /\ awaited' = submit.result
    /\ Ask
    /\ UNCHANGED <<serverVars, routeVars, start, paymentOpen, recorded, result, chosen, settled,
                   stray>>

(* Refused, or lost on its way: the buyer is asked to try again. *)
SubmitFails ==
    /\ submit # None
    /\ submit' = None
    /\ Ask
    /\ UNCHANGED <<serverVars, routeVars, start, paymentOpen, awaited, recorded, result, chosen,
                   settled, stray>>

OrderNext ==
    \/ Granted \/ SoldOut \/ Expire \/ Tick
    \/ Refetch \/ Receive \/ FetchFails
    \/ OpenItem \/ GoHome \/ PageTick
    \/ Continue \/ AskAgain \/ Join \/ JoinLost \/ Leave \/ LeaveFails
    \/ Redirect \/ OpenPayment \/ StartArrives \/ StartAnswered \/ StartFails
    \/ ClosePayment \/ \E r \in Results : ChooseResult(r)
    \/ SubmitArrives \/ StrayArrives \/ Answered \/ SubmitFails

(* Time passes; the effects and the interval of a page run, and a fetch is *)
(* answered or fails.  A page whose fetches end again and again is once    *)
(* rendered without one, and then its effect runs.  Nothing makes a page   *)
(* fetch, a fetch succeed, or a buyer do anything.                         *)
OrderFairness ==
    /\ WF_orderVars(Tick) /\ WF_orderVars(PageTick)
    /\ WF_orderVars(Receive \/ FetchFails) /\ SF_orderVars(Redirect)

OrderSpec == OrderInit /\ [][OrderNext]_orderVars /\ OrderFairness

-----------------------------------------------------------------------------
OrderTypeOK ==
    /\ now \in 0 .. MaxNow /\ pageNow \in 0 .. now
    /\ entry \in Entry /\ cache \in Entry \cup {None}
    /\ {limited, paymentOpen} \subseteq BOOLEAN
    /\ fetch \in {"none", "sent", "failed"} /\ page \in {"home", "item", "order"}
    /\ grantId \in 0 .. MaxEntries /\ (page = "order" <=> grantId # 0)
    /\ start \in {"none", "sent", "ok", "refused"}
    /\ submit = None \/ submit \in [result : Results, at : {"sent", "ok", "refused"}]
    /\ awaited \in Results \cup {None}
    /\ stray \in Request \cup {None}
    /\ recorded \in Results \cup {None} /\ settled \in BOOLEAN /\ result \in Results \cup {"idle"}
    /\ chosen \subseteq Results

(* The result on the screen is the one at the server, whichever requests   *)
(* and answers were lost and tried again; unless the buyer has chosen      *)
(* different results on one page, for which see SaleIsServers.             *)
ShownIsRecorded ==
    result # "idle" /\ chosen = {result} => recorded = result

(* A buyer who tries again what was already done is told its result, and   *)
(* not that there is nothing to pay: the key outlives the lost answer.     *)
RetryIsAnswered == submit # None /\ submit.at = "refused" => ~ settled

(* The order page offers its right: it has neither been left nor says that *)
(* the time is over or what the payment's result is.                       *)
Offering ==
    page = "order" /\ result = "idle" /\ ~ paymentOpen /\ ~ IsExpired

(* A right that is over is not offered for ever.  The page of a limited    *)
(* product finds out by its own clock, although the event of the end is    *)
(* lost and every fetch fails; that of another product has none, and has   *)
(* to be left only when an answer has told it that the right is over.  For *)
(* both, as long as the payment dialogue is not open.                      *)
DeadRightIsLeft ==
    []<>~ (Offering /\ ((limited /\ entry.status \in Over) \/ Has(Over)))

(* What the page says is sold is sold at the server. *)
SaleIsServers == result = "success" => recorded = "success"
=============================================================================
