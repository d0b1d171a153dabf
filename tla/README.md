# Verification of the fair queue

This directory holds a TLA+ model of the fair queue, the TLC runs that check it
on small instances, and the TLAPS proofs of what matters most for instances of
any size. All paths below are relative to the repository root.

A seller has a limited stock of a product. A buyer draws a *ticket*; the buyers
with the lowest tickets are *granted* a unit each, for a limited time; a granted
buyer starts a *checkout* and pays, fails, leaves or lets the right expire; and
a unit that comes free goes to the lowest ticket still waiting.

## 1. The system and its parts

| Part | State it keeps | Operations | Status |
|---|---|---|---|
| State tables, `backend/internal/state` | none (constants) | transition tables, predicates | modelled: `Lifecycle` |
| Queue service, `backend/internal/queue` | `queue_entries` | join, leave, show | modelled: `FairQueue`, `FairQueueTx` |
| Allocation service, `backend/internal/allocation` | `inventory_units`, `purchase_grants` | promote, release, settle, close the line, expire | modelled: `FairQueue`, `FairQueueTx`, `ExpiryWorker` |
| Checkout service, `backend/internal/checkout` | `checkout_attempts` | start checkout, submit a payment result | modelled: `FairQueue`, `FairQueueTx` |
| Products, `backend/internal/products` | `products` | lock the row, count stock; list, alternatives | partly: lock and count |
| Events, `backend/internal/events` | LISTEN connection, subscribers' buffers | notify, publish, stream | modelled: which entries are notified in `FairQueue`, the way to one subscriber in `EventStream` |
| Worker, `backend/internal/platform/worker`, `cmd/worker` | the batch in hand | repeat the expiry scan, stop on an error, restart | modelled: `ExpiryWorker` |
| HTTP, configuration, bootstrap | none | | not modelled: stateless or one-shot I/O |
| SSE client, `frontend/src/features/queue-realtime` | connection, retry timer, buffer | connect, retry, parse | modelled: `SseConnection`, `ParseSse` |
| Queue realtime and watch, `frontend/src/app/realtime`, `entities/queue` | watched products, query cache | subscribe, refetch | modelled: `LiveUpdates`, with changing users `SessionNotifications` |
| Notifications, `frontend/src/entities/notification` | items, dismissed ids, copy in localStorage | add, read, clear, hydrate | modelled for one tab: `SessionNotifications` |
| Session, `frontend/src/entities/session`, `features/auth`, the store's listener | the user, kept in localStorage; the submission that runs | sign in or up, also over another user, sign out, reload | partly: `SessionNotifications`; no accounts or passwords |
| Item and order pages, `frontend/src/pages` | clock, dialogues, requests, idempotency key | join, continue, start checkout, pay, leave | partly: `OrderFlow`; no catalogue, no rendering |
| Mock backend, `frontend/mocks` | a database in localStorage | the queue's API in the browser | partly: `MockBackend`; one product, no users, no broadcasts |

**How they interact.** API handlers call the queue and checkout services, which
call the allocation service inside *their* transaction. The worker calls the
allocation service directly. The only shared state is PostgreSQL: every
operation that changes a product's rows begins by locking the row of the product
(`LockByID`), except `StartCheckout`, which locks a grant and its entry. A
transaction announces the entries it changes with `pg_notify`; a listener hands
the notifications to a hub, and the hub to the SSE streams of the product; the
browser answers an event by fetching its state again.

**What is hard.** Concurrent transactions and the order in which they lock rows;
conditional UPDATEs whose answer is discarded; a `now()` that is the start of the
transaction and not the present; payment results delivered twice, at the same
time, or for another grant; crashes between statements; the worker against the
user and against another worker; and the promise that nobody is overtaken or
forgotten through all of this. In the browser: a stream that is lost, cut
anywhere and made again while requests overlap; users who change while requests
of theirs run; answers that are lost after the server has acted; a page that is
left in the middle of a request; and tabs that write one storage. `PROJECT.json`
lists each hazard at its line with the properties that would catch it.

**What makes each part correct.** *Queue*: one active entry per user and product,
fresh tickets, first come first served. *Allocation*: a unit has at most one
live grant, no unit is idle while somebody waits, the line ends with the stock.
*Checkout*: one result settles a grant, once; a right is honoured until its
deadline and not long after. *Worker*: unused rights end, and each exactly once.
*Events and realtime*: whoever's entry changes is told, a subscription never
gives up, and a page is not left with an old state. *Notifications*: nobody
reads of anybody else, what is shown is what is stored, what was cleared stays
so. *Pages*: the result shown is the result recorded, a retry is answered, and a
right that is over is not offered for ever by a page that has a clock or has been
told. *Mock backend*: it sells no more than it has, in the order of tickets, and
nobody waits beside a unit that nobody holds.

## 2. The modules

```
backend   Lifecycle ── FairQueue ─┬─ FairQueueTx ── MCFairQueueTx
                                  ├─ ExpiryWorker ── MCExpiryWorker
                                  └─ FairQueueSale ── MCFairQueue
                       FifoSale ─────┘ (INSTANCE)
proofs    Ranking ── FairQueueProofs (of FairQueue) ─────┬─ FairQueueRefinement
          FairQueueTxProofs (of FairQueueTx, its locks) ─┘
          (FairQueueRefinement: FairQueueTx and ExpiryWorker implement FairQueue)

frontend  EventStream ── SseConnection ── LiveUpdates ─┬─ MCLiveUpdates
                                          ParseSse ────┘
          SessionNotifications ── MCSessionNotifications
          OrderFlow ── MCOrderFlow
          MockBackend ── MCMockBackend
proofs    LiveUpdatesProofs (of LiveUpdates)
          SessionNotificationsProofs (of SessionNotifications)
          OrderFlowProofs (of OrderFlow)
          Ranking ── MockBackendProofs (of MockBackend)
```

The halves meet at three places. The events that `EventStream` carries are the
`pg_notify` calls whose contents `ChangesAnnounced` of `FairQueue` checks. The
server in `LiveUpdates` and `OrderFlow` is the one entry of the user, with the
steps `FairQueue` allows it. And the fetches that `LiveUpdates` explains one by
one are in `OrderFlow` a `Refetch` that may come at any moment or never: what
`OrderFlow` promises holds whether the page is told of changes or not.

### `Lifecycle`
The statuses and the transition tables of `state/state.go`. The services never
consult those tables; `LegalTransitions` checks that they stay inside them.

### `FairQueue`
The system with one action for each committed transaction.

| Variable | Code |
|---|---|
| `nextTicket[p]` | `products.next_ticket` |
| `entries[<<p, t>>]` | the `queue_entries` row of product `p` and ticket `t`: user, status |
| `grants[e]` | the `purchase_grants` row of entry `e`: unit, status, and `left`, the time until `expires_at`; `age` is an auxiliary that bounds how early a transaction that names the grant can have begun |
| `units[u]` | the `inventory_units` row: status, `current_grant_id` |
| `attempts[k]` | the `checkout_attempts` row of idempotency key `k`: grant, result |
| `announced` | the entries named in the `pg_notify` calls of the last commit |

| Action | Code |
|---|---|
| `JoinQueue(u, p)` | `queue.Service.JoinQueue`, with `Promote` at its end |
| `LeaveWaiting(e)`, `LeaveGranted(e)` | the two branches of `queue.Service.LeaveQueue`; the second with `ReleaseActiveGrant` and `Promote` |
| `StartCheckout(e)` | `checkout.Service.StartCheckout` |
| `PaymentSucceeds(e, k)`, `PaymentFails(e, k, r)` | `checkout.Service.SubmitPaymentResult` with `CompleteCheckoutPending`; the first closes the line when everything is sold, the second promotes |
| `Expire(e)` | one row of `allocation.Service.ExpireExpiredGrants`, with `Promote` |
| `Tick` | the clock of the database |

Requests that write nothing (a second join, a repeated payment result, an
operation refused) are not actions: they are the states in which an action's
guard is false.

`Promote` is a loop in the code that takes the oldest waiting entry and the first
available unit until one runs out. The model says what the loop computes: the
entry with *k* entries before it gets the unit with *k* units below it. That the
loop computes this is shown by `FairQueueTx`, which runs it turn by turn and
implements `FairQueue` (`LoopPairs` in `FairQueueRefinement`).

*Time.* PostgreSQL's `now()` is the start of the transaction. A transaction
commits with a *lag* of up to `MaxLag` ticks, and sees a right as having
`left + lag` ticks to go; a right it grants has `TTL - lag` left at its commit.
Countdowns stop at `Floor`, one below the reach of any lag.

### `FairQueueTx`
The same operations statement by statement, in the sessions of API instances and
workers: READ COMMITTED visibility, row locks held to the end, waiting for a
lock, rollback on error and on a crash, and PostgreSQL's deadlock detector. The
field `at` of a transaction is the next statement, and each statement that may
wait or that reads what others write is an action. `Insert`, `LeaveLocksEntry`,
`CheckoutLocksEntry`, `LockGrant`, `InsertAttempt`, `Settle`, `Close`,
`PromoteOne`, `LeaveMarksEntry` are the statements of the services in the order
they are made; `BeginExpire` is the worker's scan, whose locks end with it.
What is PostgreSQL and not the repository is marked external.

### `ExpiryWorker`
`FairQueue` with its `Expire` steps made by worker processes. The variable
`worker` says where each one is: waiting for its ticker, about to scan, treating
a batch, or down.

| Action | Code |
|---|---|
| `Wake(w)` | the ticker of `worker.Run` |
| `Scan(w)` | `ExpiredActiveGrants`: at most `BatchSize` overdue rights in the order of their expiry, without those that are locked; no row ends the loop of `ExpireExpiredGrants` |
| `Treat(w)` | the transaction of the first right of the batch: it expires it, or finds that it may not |
| `Fail(w)` | an error or a crash: `Run` returns, the rest of the batch is abandoned and the process ends |
| `Restart(w)` | `restart: unless-stopped` of `docker-compose.yml` |
| `Others`, `WorkerTick` | requests and the clock, as in `FairQueue` |

`DeliversExpiry` is `FairQueue`'s `FairSpec`: the workers expire nothing that
`FairQueue` would not, and the fairness `FairQueue` assumes is what they deliver.

### `FifoSale` and `FairQueueSale`
What the queue promises to buyers, with no units, rights, clock or payments: a
stock, a line, holders, and a number sold. Whatever comes free goes to the front
of the line in the same step. `FairQueueSale` is the refinement mapping.

### `EventStream`, `SseConnection` and `LiveUpdates`
From `pg_notify` to the page, for one user, one product and one tab, in three
layers. What an event says does not matter to its readers, which only fetch
again, so events are counted.

| Variable | Code |
|---|---|
| `listening` | the connection of `Listener.Run` is up |
| `hub` | the length of the subscriber's channel in `events.Hub`; `None` without a subscriber |
| `wire` | written by `Handler.Stream` and not yet read; `None` before the response begins |
| `subscribed`, `phase`, `timer` | `createSseConnection`: between the call and its cleanup; `connecting` (true while reading too) and how far; `retryTimer` |
| `onLine`, `onlineEvent` | `navigator.onLine`; the `online` event not yet handled |
| `server` | what `GET queue/me` answers now, final statuses taken together |
| `cache`, `failed`, `request`, `again` | RTK Query's state of `getQueueState`: data, error, pending request, delayed invalidation |
| `mutation` | the pending `joinQueue`, `leaveQueue` or `startCheckout` |
| `watched` | the product is in `queueWatch.byUser[user]` |
| `missed` | auxiliary: a change was notified while LISTEN was down, and nothing fetched since |

| Action | Code |
|---|---|
| `Granted`, `Ended`, `OtherEvent` | transactions of others, with `Publish` of the hub: dropped when the buffer is full |
| `ListenBreaks`, `ListenAgain` | the retry loop of `Listener.Run` |
| `Accept`, `WriteEvent`, `Heartbeat` | `Handler.Stream`: subscribe; an event; a ping. The headers go out with the first of these |
| `Subscribe`, `Unsubscribe`, `Resubscribe` | `connect` and the cleanup |
| `Arrive`, `Respond`, `ReadEvents`, `Break`, `Fail` | the fetch of `connect`, its loop and its `catch` |
| `TimerFires`, `Online`, `GoOffline`, `GoOnline` | the retry timer, the listener of `online`, the browser |
| `RunEffect`, `RerunEffect` | the effect of `QueueRealtime` over the watched products |
| `Connected`, `Read` | `onConnectionChange(true)` and `onSignal` |
| `Serve`, `Receive`, `RequestFails` | `getQueueState` with its `onQueryStarted` |
| `SendJoin` .. `MutationFails` | `joinQueue`, `leaveQueue` and `startCheckout`, at the server and back |

Of RTK Query the model has what the code relies on: a request for what is being
requested is not sent; an invalidation fetches what is shown, but waits while a
query or mutation is pending; a mutation invalidates its tags though it failed.
These definitions are marked external.

### `ParseSse`
`parseSseChunk` as a pure operator over sequences of tokens (line ends, field
names, payload). `CutsDoNotMatter` compares it, for every cut of every stream of
a few frames, with the events that are in the stream. Recursion is by folds.

### `SessionNotifications`
One tab whose users sign in and out while requests run. Every state, note and
watched product carries the user it is about, which the program's data does not:
it lets the properties ask whether users were mixed up.

| Variable | Code |
|---|---|
| `user` | `session.user` |
| `active`, `items`, `dismissed` | `notifications.activeUserId`, `items`, `dismissedIds` |
| `stored` | what the slice reads from and writes to localStorage, by user |
| `cache`, `request` | `getQueueState` of the product: its data, and for whom it is pending |
| `refresh` | the `refreshQueue` that runs: for whom it was called, and the await it is at |
| `watched` | `queueWatch.byUser` |
| `signing` | the submission of the sign-in dialogue that awaits the hash of its password |

| Action | Code |
|---|---|
| `Submit`, `SubmitFails` | `submit` of `AuthModal` up to its await, and its error |
| `SignIn`, `SignOut` | the rest of `submit`, and the header's button: `sessionSlice` with the store's listener: `resetApiState`, `notificationsHydrated` or `notificationsReset` |
| `Reload` | `Layout`'s effect |
| `Add`, `ReadAll`, `ReadOne`, `Clear` | the reducers of `notificationSlice` |
| `MenuShown`, `ClearEnabled`, `Listed` | what `Header` and `NotificationsDropdown` offer, and so guard of the reducers |
| `PageNotifies` | the order page's effects |
| `Fetch`, `BeginRefresh`, `Answer`, `AnswerFails` | queries and `refreshQueue` up to its first await |
| `LateAnswer` | the answer to a request sent before the cache was reset: RTK forgets it, `onQueryStarted` and `refreshQueue` go on |
| `EndRefresh`, `RefreshFails` | the rest of `refreshQueue`, after the product's fetch |

### `OrderFlow`
A buyer on the item page and on the order page. The server is the buyer's own
entry and its right; every answer may be late or lost, and a page may be left
while its request runs (`stray`). The clock goes in half seconds, because
`getCountdown` leaves out the fraction of a second that is left: a page takes a
right for over (`Zero`) up to a second before its deadline.

| Variable | Code |
|---|---|
| `page`, `grantId`, `pageNow` | the route, its `grantId`, the page's `now` |
| `cache`, `fetch` | `queueState` and whether it is being fetched or failed |
| `start`, `submit` | the `startCheckout` and `submitPaymentResult` under way |
| `awaited` | the result that was answered, while `chooseResult` awaits the fetch after it; the buttons are enabled then, and another result may be chosen |
| `paymentOpen`, `result` | `isPaymentOpen`, `result` of `OrderPage` |
| `recorded` | `checkout_attempts` under the page's idempotency key |
| `chosen`, `settled` | auxiliary: the results chosen on the page, and whether the server has recorded one from it |

`Rendered`, `IsExpired`, `OwnRight` and `PayEnabled` are what the component
computes when it renders; `Redirect` is its effect; `OpenPayment`,
`ChooseResult`, `Answered` and `SubmitFails` are `openPayment` and
`chooseResult`, cut at their awaits; `Continue`, `AskAgain`, `Join` are
`handleCta` of the item page; `Leave` and `LeaveFails` are `confirmLeave` and
`handleLeave`, the second when the request or its answer is lost: the page stays.

### `MockBackend`
The queue's calls of `mockBackend.ts` for one product. `db` is the database in
localStorage, `calls[t]` the call of tab `t` that has read it and not yet
written: joining and paying pause between the two and then write *all* they read,
changed, so that they undo what other tabs did meanwhile.

| Action | Code |
|---|---|
| `GetQueueState(u)`, `LeaveQueue(u)`, `StartCheckout(u)` | the methods of the same names, in one step |
| `BeginJoin`, `EndJoin`, `BeginPayment`, `EndPayment` | `joinQueue` and `submitPayment`, before and after their pause |
| `Promote`, `ExpireIfNeeded` | `promoteWaitingEntries`, `expireGrantIfNeeded` with what its callers do |

### Mutants
A definition that a comment calls *Mutant* is a plausible bug in the definition
of nearly the same name. It is used by no specification. Each property is
violated when the mutant `PROJECT.json` names takes the definition's place.

## 3. The runs

| Run | Instance | Question and answer |
|---|---|---|
| `queue` | 1 product, 2 units, 3 users, 4 tickets, 2 keys, TTL 2, lag 1 | Do the eight safety invariants, the transition tables, the announcements and the deadlines hold of every sequence of transactions, and is what buyers see a step of `FifoSale`? They do, and it is. |
| `queue_liveness` | 1 unit, 3 users, 3 tickets, 3 keys, TTL 1, lag 1 | Does an unused right end, and is everybody in the line answered? They are. |
| `tx` | 2 sessions, 1 unit, 3 users, 3 tickets, 1 key, TTL 1, lag 1 | Is every commit one step of `FairQueue`, when transactions take time and promotion has a choice? Do the writing statements ever wait, and which deadlocks are there? It is; they do not; only leave against checkout of the same entry. |
| `tx_keys` | 2 sessions, 2 products, 1 user, 1 ticket each, 1 key | Are commits atomic when a key is used for grants whose products' locks do not exclude each other, does each write rows of one product only, and does every transaction end? They are, and it does. |
| `expiry_worker` | 2 workers, batches of 2, 2 units, 2 users, 2 tickets, TTL 1, lag 1 | Do two workers that race, fail with rights in hand and restart expire what `FairQueue` says is expired, and does their loop end although the scan takes rights at the very time of their expiry and the transaction does not? They do, and it does. |
| `live_updates` | a buffer of 1, 1 event on its way; streams of up to 4 frames | Is a page ever left with an old state, through overlapping requests, lost streams and dropped events? Only by a change notified while LISTEN was down. Does it end up with the current one? It does, or with an error. |
| `notifications` | 2 users, 2 states of the queue | Are users who change while requests run ever mixed up? Only by a refresh that outlives two changes. Is what is shown stored, and what was cleared gone? It is. |
| `mock_backend` | 3 users, 1 call at a pause, 2 keys, a stock of 2, TTL 1, 3 moments, 4 tickets | Does a database that tabs overwrite sell more than it has, or out of order, or let somebody wait beside a unit that nobody holds? It does not. |
| `order` | 2 entries of one buyer, TTL of 2 half-seconds, 4 moments | Is the result on the screen the one recorded, is a retry answered, and is a right that is over left? They are; the last for a limited product by its clock alone, for another once an answer has told. |
| `unpaid_hold` | 1 unit, 3 users | A violation: see section 6. |
| `positions` | 1 unit, 3 users | A violation: see section 6. |
| `order_sale` | as `order`, 3 moments | A violation: see section 6. |

**Bounds and why they are enough.** `MaxTicket` bounds how many entries a
product sees in its life; it is the bound that makes the model finite and the
reason why the runs switch off the deadlock check (the real system may also
rest, with everything sold). Four tickets with two units let two rights be held
while two entries wait, so that a release has to choose, and then choose again;
three users let one come back with a new ticket while the others are still in
the line. In `queue`, two keys let a result be delivered again under its own key
and under another. TTL 2 with lag 1 separates a right that is surely valid, one
that has run out on the clock but not for a transaction that began earlier, and
one that has run out for everybody. In `tx` two sessions suffice for every
conflict of two transactions; that longer cycles do not exist and that commits
are atomic, for any number of sessions, is proved (`DeadlocksArePairs`,
`TransactionsAreAtomic`). In `expiry_worker` two overdue rights in one
batch let a failure abandon the second.

In `live_updates` a buffer of one is full after one event, so that the second is
dropped, with another event on its way already; a larger buffer drops less. The
proofs of section 5 are for any size. Four frames give every cut of an event
between a ping and another event, and three chunks a rest that is itself cut
again. In `notifications` the two states of the queue are one in which the
product is watched and one in which it is not. In `mock_backend` a stock of two
lets rights be held while others are bought; with one unit sold and four tickets two users wait beside a
right, and three moments let a right run out, be replaced, and run out again.
One call pauses at a time, because two multiply the states beyond what a run can
visit; the proofs of section 5 are for any number. In `order` two entries let
the address of the page name a right that is no longer the buyer's last, and
four moments of half a second let a page's clock be behind and its countdown be
at zero before the deadline.

Users, keys and sessions are interchangeable and reduced by symmetry in the runs
of safety properties, and never in those of liveness.

**Fairness and why the code justifies it.**
`WorkerFairness`: the database's clock does not stop, and an overdue right is
expired in the end, so `Tick` and each `Expire(e)` are weakly fair. The second
half is not taken on trust: `DeliversExpiry` derives it from the workers.
`WorkerSpec`: the clock runs and the container is restarted (weak fairness); and
crashes, errors and foreign locks may recur without end but do not defeat every
try, so that a worker that is started again and again reaches its ticker's time,
a scan repeated again and again finds the rows unlocked, and a transaction
tried again and again goes through (strong fairness of `Wake`, of a scan that
skips nothing, and of `Treat`). Locks are held by transactions, which end
(`TransactionsEnd`). A grant whose transaction *always* fails is excluded by
this; such a grant would hold back those behind it in the batch for ever,
because nothing skips it.
`PaymentFairness` is an assumption about the outside, not about the code: a
checkout that was started gets a payment result in the end. It is not part of
the specification but the hypothesis of `EveryoneAnswered`, and the run
`unpaid_hold` shows that it is needed.
`TxFairSpec`: a session goes on with its transaction; waiters queue up for a row
in PostgreSQL, so a lock that is released again and again is granted in the end
(strong fairness); and deadlocks are detected.
`LiveFairness`: requests and mutations are answered or fail in the end; React
runs its effects, and a stream that has ended is noticed (weak fairness). The
browser may go offline, and connections be refused and lost, without end, though
each time it comes back; a browser that is online again and again is so while
the retry timer or the `online` event is handled, and a connection that is tried
again and again reaches the server and is answered (strong fairness of
`TimerFires` or `Online` while online, of `Arrive`, `Heartbeat`, `Connected`). A
network that is down for ever satisfies no promise, and the code makes none for
it. LISTEN need not come back.
`OrderFairness`: time passes, the interval of a page runs (weak fairness of
`Tick` and `PageTick`), a fetch is answered *or fails*, and a page that is
rendered again and again with nothing to order, and no fetch pending, runs its
effect (strong fairness of `Redirect`: a fetch that begins disables it until it
ends). Nothing makes a page fetch, a fetch succeed, or a buyer do anything.
The mock has no fairness, and `MockBackend` no liveness property: nothing in it
runs on its own.

## 4. The properties

Invariants of `FairQueue`: `TypeOK`; `UnitsMatchGrants` (no unit is promised
twice or lost); `GrantsFollowEntries` (the two rows that tell a user where they
stand agree); `NoIdleUnit`; `NoOvertaking`; `OneActiveEntry`; `TicketsFresh`;
`PaidOnce`; `NobodyWaitsForNothing`. Action properties: `LegalTransitions`,
`ChangesAnnounced`, `OneProductPerStep`, `DeadlineRespected`. Liveness:
`UnusedRightEnds`, `EveryoneAnswered`. Refinement: `ImplementsSale`, and
`CommitsAreAtomic` of `FairQueueTx`, which is `FairQueue`'s `Spec`. Of the
locks: `WritesNeverWait`, `OnlyLeaveMeetsCheckout`, `TransactionsEnd`. Of the
workers: `DeliversExpiry`, which is `FairQueue`'s `FairSpec`, and `LoopEnds`.

Of the stream and its readers: `NeverGivesUp` (a subscription is connected or
will try again, and no timer is pending beside a connection);
`StaleIsTemporary` (an old state on the page comes with something under way that
fetches); `WireIsReadWhole` (however a stream is cut each event is read once);
`CatchesUp` (once the user's state rests, the page comes to show it).

Of notifications: `SessionTypeOK`, `NotesStayPrivate`, `ShownIsStored`,
`ClearedStaysCleared`. Of the pages: `OrderTypeOK`, `ShownIsRecorded`,
`RetryIsAnswered`, `DeadRightIsLeft`, and `SaleIsServers`, which fails. Of the
mock: `MockTypeOK`, `StockCoversRights`, `FirstComeFirstServed`,
`PositionsNeverFlatter`, `NobodyWaitsBesideAUnit`.

*What these properties leave out on purpose*, because the code does not give it:

* A change that is notified while the LISTEN connection is down reaches nobody:
  subscribers stay connected and fetch nothing (`missed`).
* A fetch that a signal asked for and that fails is not repeated; the page shows
  the error until the next signal (`failed`).
* A `refreshQueue` compares `userId` with `user.id` of the same closure, two
  copies of one value. When its user signs out, another signs in and out, and
  the first comes back before it ends, it may give the first user a note of the
  other's state (`returned`).
* A second clearing forgets what the first dismissed.
* On the order page, an answer to a payment that is lost after the server has
  recorded it leaves a page that renders nothing while the payment dialogue, a
  part of it, is still open and keeps the redirect from leaving
  (`OrderPage.tsx:153`; `~ paymentOpen` in `DeadRightIsLeft`).
* The order page of a product that is not limited has no clock
  (`OrderPage.tsx:85-93`, `:100-102`). When the event of its right's end is lost
  or the fetch after it fails, nothing repeats the fetch, and the page goes on
  offering the right. `DeadRightIsLeft` therefore asks of such a page only that
  it is left once an answer has said that the right is over; of a limited
  product's page it asks more, by its clock and whatever is lost.
* In the mock a right that has run out is ended by the next call of its owner,
  and the line waits until then, for ever if she does not call: her page asks
  once, when its countdown is at zero, which is up to a second before the
  deadline (`getCountdown.ts:2`), so that the answer may be the same right; and a
  page that is closed does not ask. `NobodyWaitsBesideAUnit` says what is left:
  the line waits for rights only, run out or not, and never beside a unit that
  nobody holds.
* A buyer who chooses different results on one page is shown the last chosen
  (`chosen = {result}` in `ShownIsRecorded`; see section 6).

## 5. What is proved

TLAPS proves, for every value of the constants that satisfies
`ConstantsAssumption` (finitely many units with natural-number ids, a positive
TTL, any lag, any number of products, users, keys and tickets), that `TypeOK`,
each of the eight safety invariants and each of the four action properties hold
of every behaviour of `FairQueue`.

*The inductive invariant.* `IInv` is the conjunction of `TypeOK` and all the
safety invariants, and no fewer will do. That promotion keeps `NoOvertaking`
needs `NoIdleUnit` of the other products and `GrantsFollowEntries` to know that
a waiting entry has no grant; that a returned unit is really free needs
`UnitsMatchGrants`; that a settled grant is not settled again needs
`GrantsFollowEntries` and `PaidOnce` together; that closing the line leaves
nobody behind needs `NobodyWaitsForNothing` for the other products; and that a
joining user gets a new row needs `TicketsFresh`.

*The argument.*

1. `Ranking`: in a finite set ordered by a number, the elements are numbered by
   how many come before them (`RankBound`, `RankMonotone`, `RankInjective`,
   `RankOnto`).
2. `FairQueueProofs`, first part: hence `Pairs` is a pairing: no entry gets two
   units, no unit two entries, those served are the first, and either the line or
   the stock is used up (`PairsPair`); what the conditional UPDATEs do to one right, its
   entry and its unit (`MovedRight`, `ReturnedRight`); and, from these, the
   types, one lemma per kind of step (`TypeCorrect`).
3. Second part: whatever tables promotion is given, if they are
   consistent but for the idle units of one product, what it returns is
   consistent and has none (`PromotionConsistent`, `PromotionInOrder`,
   `PromotionUnitsMatch`, `PromotionGrantsFollow`). Then `IInv`, one lemma per
   kind of step, and each invariant as a theorem of `Spec`.
4. Third part: from `IInv`, what a step may do. `StepOf(p)` says what every step
   looks like that has locked product `p`, one lemma per action shows it
   (`ReleaseMoves` for the three that end a right), and the four action
   properties follow. They need the invariant because an update whose condition
   fails is silent: that a grant's entry and unit move with it is
   `GrantsFollowEntries` and `UnitsMatchGrants`.
5. Fourth part, the refinement: `QueueIsFifoSale`, that `FairQueue` implements
   `FifoSale`. Its line and its holders are the tickets of the entries that wait
   and that have a right, its pieces are units that are only counted, so that
   each transaction has to be shown to take from the front of the line exactly
   as many as units are free (`UnitsMatchGrants` makes the two counts agree). That promotion serves a first part of the line as long as the free
   units is a bijection between the two (`RankOnto` on both sides); that nobody
   further is left waiting beside a free unit is `NoIdleUnit`.

The lemmas about promotion and rows are about any tables, not about the
variables, so that they can be used for the tables in the middle of a
transaction.

*Locks* (`FairQueueTxProofs`). For any number of sessions, products, units,
users and keys, `LockInv` is an invariant of `TxSpec` (`LockDiscipline`): where a
transaction is in its code decides which rows it has locked (`FollowsPlan`); no
row is locked by two sessions (`Exclusive`); and what a transaction has read
under its locks still holds, in the tables and in the rows it has written and
not committed (`Knows`, `Writes`). The last parts are what makes the first two
inductive: that the unit a grant names is of the product whose lock is held, and
that a ticket drawn under the product's lock is nobody else's, is true because
of the locks, and the locks are the right ones because it is true. Two theorems
follow. `WritesAreUncontended`: promotion, settling and closing write entries
and units, and those are locked by nobody else, because whoever locks one of
them holds the product, but for a checkout, whose entry is GRANTED and so
neither in line nor, while its grant is locked by it, being settled.
`DeadlocksArePairs`: on a cycle, of any length, everybody holds a row and waits
for another; whoever waits for the product or has an idempotency key does not
(`OnACycle`), those that hold the product do not wait for one another's rows,
and what is left is a leave with its entry and a checkout with its grant.

*Transactions* (`FairQueueRefinement`). `TransactionsAreAtomic` has
`CommitsAreAtomic`: for any number of sessions, products, units, users and keys,
every behaviour of `FairQueueTx` is one of `FairQueue`. So all that is proved of
`FairQueue` holds of the committed rows at every moment of every interleaving:
the invariants (`CommittedRowsAreConsistent`), one product for each commit
(`TransactionsWriteOneProduct`) and the sale (`TransactionsAreFifoSale`). The
inductive invariant is `TxInv`: `LockInv`, `IInv` of the committed rows, and that
every open transaction is `Sound`:

* what its early returns relied on still holds (`Found`): the status and the
  deadline of its grant, its key unused, its user without an active entry;
* the rows it has written, put over whatever is committed *now*, are what the
  step of `FairQueue` would leave if it were made now, as far as the transaction
  has come (`Sees`). How far promotion has come is the set of pairs made so far,
  a part of `Pairs` of the committed rows (`Turned`).

The second is the one that takes strengthening: it cannot speak of the rows as
they were when the transaction read them, because a checkout does not lock the
product and may commit in the middle of a promotion. The argument has four
parts. Each statement of the transaction's own adds its row, with one lemma for
each statement (`InsertSound` .. `LeaveMarksEntrySound`); that the turns of
promotion, each taking the first of what is left on both sides, make exactly
`Pairs` is `LoopPairs`. Commits of others keep the transaction sound
(`SoundStays`): they touch no row it has locked (`Kept`); while it holds its
product, only checkouts of that product can commit, and they turn GRANTED into
CHECKOUT_PENDING, which neither side of `Pairs` sees (`Still`); and what it has
found of its grant and its key stays true (`Timed`). A tick ages the rights and the transactions that look at them
together (`ElapseTogether`). And a commit makes the step (`CommitIsAStep`), one
lemma for each operation.

*Workers* (`FairQueueRefinement`). `WorkersOnlyExpire`: for any number of workers
and any size of the batch, every behaviour of `ExpiryWorker` is one of
`FairQueue`, hence no worker takes a right that is valid, however long ago it
has read it (`WorkersRespectDeadlines`). What has to be known of a batch
(`WorkerInv`) is only that it is a sequence of granted rights: all else is looked
at again in the transaction.

*Realtime* (`LiveUpdatesProofs`). For any size of the hub's buffer and any number
of events on their way, `LiveTypeCorrect` has the types, the buffer within its
size among them, and `KeepsTrying` has `NeverGivesUp`. It is inductive with one
more conjunct (`Tries`): after a cleanup nothing is connected and no timer is
set, so that a subscription starts from nothing. Only the connection's own steps
matter for it; `LiveNextConnection` picks them out of the whole system.
`NotLeftStale` has `StaleIsTemporary`: an event that is dropped is dropped
because the buffer is full, so that another is on its way, and one that is lost
with its stream is made up for by the fetch after the reconnection.

*Notifications* (`SessionNotificationsProofs`). For any users, states of the
queue and number of changes of user, all four invariants hold: `SessionTypes`,
`Private`, `Shown`, `Cleared`. `SessionInv` adds what they do not say: that a
pending request is always the present user's, because every change of user
resets the cache. The assumption on the constants is that `None` is no user, id
or state.

*Order page* (`OrderFlowProofs`). For any number of rights, any TTL and any clock,
`OrderTypes`, `ShownAsRecorded` and `RetriesAnswered` have the three invariants.
What has to be added to them (`OrderInv`) is what is under way: what was sent or
recorded is one of the results chosen on the page, an answer that is not a
refusal was preceded by a record, and a request is of an order's page.

*Mock backend* (`MockBackendProofs`). For any users, tabs, keys, stock and TTL,
`MockTypes`, `RightsAreCovered`, `RightsGoInOrder`, `PositionsHold` and
`UnitsAreHeld`. A call
that pauses writes a function of the database it read, over another one. So the
invariant (`MockInv`) is about every database that is kept anywhere, the stored
one and that of each paused call: each is *sound* now, that is, ordered, paid
for and with a unit for each right; and in the one a payment has read there is a
unit for its user, even if her right has run out during the pause. The lemmas
show that promotion, ending an entry, joining and paying keep one database
sound, and that time does (`PromoteSound`, `EndSound`, `JoinSound`, `PaySound`,
`SoundLater`). `UnitsAreHeld` has an invariant of its own beside it (`HeldInv`):
in every database that is kept, who waits does not wait beside a unit that no
right holds, and a call that joins has read no right of its user's. Promotion
makes it so of any database at all (`PromoteHolds`: if somebody is left in line,
exactly the free units were handed out); the rest is that the calls that do not
promote take no right without its unit. With this the run's one paused call is
no restriction. The second assumption, that `None` is no entry, only tells a
user without an entry from one with an entry.

*Only model-checked.* Liveness, for fairness and ENABLED are out of the prover's
reach: `UnusedRightEnds`, `EveryoneAnswered`, `TransactionsEnd`, `LoopEnds`,
`CatchesUp`, `DeadRightIsLeft`, and of `DeliversExpiry`, which is
`FairSpec`, the fairness (`WorkersOnlyExpire` is the rest of it). And
`WireIsReadWhole` with the parser: a fold over a sequence, so that a proof would
be an induction over data.

## 6. Where the code and its documentation disagree

* **A sale that did not happen** (`order_sale`). The page shows the result the
  buyer chose, not the one in the answer
  (`frontend/src/pages/order/ui/OrderPage.tsx:185`), and all its tries go under
  one idempotency key. A failed payment whose answer is lost, tried again as a
  success, is answered with the failure that was recorded, and shown as a
  purchase. `README.md:116` says that the frontend is not the source of truth
  for a sale.
* **Positions** (`positions`). `docs/spec.md:364` says that events announce a
  change of status or position. A waiting user who leaves sends none
  (`backend/internal/queue/service.go:139`); those behind keep an old position
  until the next event of the product.
* **Unpaid checkouts** (`unpaid_hold`). `docs/spec.md:24` and `:78` promise that
  an unpaid reservation is bounded in time. A grant in CHECKOUT_PENDING is
  ended by a payment result alone (`backend/internal/checkout/service.go:86`).

Two more that have no run of their own:

* **Lock order.** `docs/spec.md:441-443` has every operation lock the product
  first. `StartCheckout` does not (`backend/internal/checkout/service.go:62`),
  and takes the grant before the entry, while `LeaveQueue` takes the entry before
  the grant. The two can deadlock; PostgreSQL aborts one, whose user sees an
  internal error. `OnlyLeaveMeetsCheckout` shows that no other deadlock exists,
  and `CommitsAreAtomic` that no wrong state comes of it.
* **Connecting.** `docs/spec.md` (FR-09) has the frontend ask for the state at
  once after a reconnection. The stream sends no headers before its first event
  or the heartbeat after 15 seconds, so that the client does not know that it is
  connected, and asks then. `CatchesUp` relies on the heartbeat.

## 7. What is not modelled, and the plan

Not modelled and not planned: HTTP decoding and routing, configuration,
bootstrap, styling and rendering, the seed data and the deployment. They keep no
state that operations could leave inconsistent. `JOINING` and `ERROR` are
statuses no code writes.

Not modelled yet:

* Two tabs of one browser that write the notifications' storage. Each tab
  writes all of what it has in memory, and nothing in the code stands against
  the loss.
* Accounts and passwords, which are kept in the browser without a server.
* The catalogue and the ranking of alternatives, which only read.
* The latest entry of a user by `created_at`, which GORM fills from the clock of
  the API process. Under one clock the product's lock orders the inserts as it
  does the tickets; the clocks of several processes are not modelled.
* The mock's users, its product lists and its broadcasts to other tabs.

Next, in this order:

1. `created_at` and the clocks of the processes in `FairQueueTx`, with a property
   about the entry that is shown.
2. Products: the ranking of alternatives as a pure function.
3. Two tabs in `SessionNotifications`, once there is a promise to check.
