---------------------------- MODULE ExpiryWorker ----------------------------
(***************************************************************************)
(* The expiry worker: FairQueue with its Expire steps made by processes    *)
(* that wake up, scan for overdue rights, treat them one by one, fail and  *)
(* are restarted.                                                          *)
(*                                                                         *)
(* FairQueue assumes that every overdue right is expired in the end.  Here *)
(* that assumption is derived from what the worker does: the scan takes a  *)
(* limited number of rows and skips those that are locked, its locks are   *)
(* gone when it returns, the right may have been used or expired by        *)
(* another worker before it is treated, and an error on one right abandons *)
(* the rest of the batch and ends the process.                             *)
(***************************************************************************)
EXTENDS FairQueue, Sequences

CONSTANTS Workers, BatchSize

ASSUME BatchAssumption == BatchSize \in Nat \ {0}

VARIABLE worker   \* what each worker is at, and the rest of its batch

workerVars == <<nextTicket, entries, grants, units, attempts, announced, worker>>

Waits == [at |-> "ticker", batch |-> <<>>]
Scans == [at |-> "scan", batch |-> <<>>]
Down == [at |-> "down", batch |-> <<>>]

-----------------------------------------------------------------------------
(* The rights the scan selects from, expires_at <= now().                  *)
Overdue == {e \in DOMAIN grants : grants[e].status = "ACTIVE" /\ grants[e].left <= 0}

(* ORDER BY expires_at LIMIT of the rows R; equal times in any order.      *)
Batches(R) ==
    {b \in UNION {[1 .. n -> R] : n \in 0 .. BatchSize} :
        /\ \A i, j \in DOMAIN b : i < j => /\ b[i] # b[j]
                                           /\ grants[b[i]].left <= grants[b[j]].left
        /\ \A e \in R : \/ \E i \in DOMAIN b : b[i] = e
                        \/ /\ Len(b) = BatchSize
                           /\ \A i \in DOMAIN b : grants[b[i]].left <= grants[e].left}

Wake(w) ==
    /\ worker[w].at = "ticker"
    /\ worker' = [worker EXCEPT ![w] = Scans]
    /\ UNCHANGED vars

(* The rows of locked are skipped, and so is a row that was not overdue    *)
(* when the statement began.  Without a row the loop of                    *)
(* ExpireExpiredGrants ends, and the worker waits for its ticker.          *)
ScanSkipping(w, locked) ==
    /\ worker[w].at = "scan"
    /\ \E b \in Batches(Overdue \ locked) :
          worker' = [worker EXCEPT ![w] =
                        IF b = <<>> THEN Waits ELSE [at |-> "treat", batch |-> b]]
    /\ UNCHANGED vars

Scan(w) == \E locked \in SUBSET Overdue : ScanSkipping(w, locked)

Proceed(w) ==
    LET rest == Tail(worker[w].batch)
    IN  worker' = [worker EXCEPT ![w] =
                      IF rest = <<>> THEN Scans ELSE [at |-> "treat", batch |-> rest]]

(* Mutant: the status read by the scan is trusted. *)
TreatAsScanned(w) ==
    /\ worker[w].at = "treat"
    /\ LET e == Head(worker[w].batch)
       IN  /\ Promote(MarkEntryStatus(entries, e, "GRANTED", "EXPIRED"),
                      UpdateGrantStatus(grants, e, "ACTIVE", "EXPIRED"),
                      MarkUnitAvailable(units, grants[e].unit),
                      e[1], 0, {e})
           /\ UNCHANGED <<nextTicket, attempts>>
    /\ Proceed(w)

(* Mutant: a right nobody waits for is left alone. *)
TreatOnDemand(w) ==
    /\ worker[w].at = "treat"
    /\ LET e == Head(worker[w].batch)
       IN  IF Waiting(entries, e[1]) # {} /\ ENABLED Expire(e)
           THEN Expire(e)
           ELSE UNCHANGED vars
    /\ Proceed(w)

(* The transaction of one right.  It looks at the right again, and leaves  *)
(* it alone when it is no longer ACTIVE or not yet past by the time at     *)
(* which the transaction began.                                            *)
Treat(w) ==
    /\ worker[w].at = "treat"
    /\ LET e == Head(worker[w].batch)
       IN  \/ Expire(e)
           \/ /\ \/ grants[e].status # "ACTIVE"
                 \/ \E lag \in 0 .. grants[e].age : grants[e].left + lag >= 0
              /\ UNCHANGED vars
    /\ Proceed(w)

(* An error of the scan or of a transaction is returned by the loop and    *)
(* ends the process, as does a crash.                                      *)
Fail(w) ==
    /\ worker[w].at # "down"
    /\ worker' = [worker EXCEPT ![w] = Down]
    /\ UNCHANGED vars

(* The container's restart policy. *)
Restart(w) ==
    /\ worker[w].at = "down"
    /\ worker' = [worker EXCEPT ![w] = Waits]
    /\ UNCHANGED vars

(* Requests and the clock. *)
Others ==
    /\ \/ \E u \in Users, p \in Products : JoinQueue(u, p)
       \/ \E e \in DOMAIN entries : LeaveWaiting(e) \/ LeaveGranted(e)
       \/ \E e \in DOMAIN grants : StartCheckout(e)
       \/ \E e \in DOMAIN grants, k \in Keys : PaymentSucceeds(e, k)
       \/ \E e \in DOMAIN grants, k \in Keys, r \in {"failure", "timeout"} :
             PaymentFails(e, k, r)
    /\ UNCHANGED worker

WorkerTick == Tick /\ UNCHANGED worker

WorkerInit == Init /\ worker = [w \in Workers |-> Waits]

WorkerNext ==
    \/ Others
    \/ WorkerTick
    \/ \E w \in Workers : Wake(w)
    \/ \E w \in Workers : Scan(w)
    \/ \E w \in Workers : Treat(w)
    \/ \E w \in Workers : Fail(w)
    \/ \E w \in Workers : Restart(w)

(* The restart policy does not give up.  Crashes, errors and locks may     *)
(* recur without end, but do not defeat every try: a worker that is        *)
(* started again and again reaches its ticker's time, a scan made again    *)
(* and again finds the rows unlocked, and a transaction that is tried      *)
(* again and again goes through.                                           *)
WorkerSpec ==
    /\ WorkerInit /\ [][WorkerNext]_workerVars
    /\ WF_workerVars(WorkerTick)
    /\ \A w \in Workers :
          /\ WF_workerVars(Restart(w))
          /\ SF_workerVars(Wake(w))
          /\ SF_workerVars(ScanSkipping(w, {}))
          /\ SF_workerVars(Treat(w))

-----------------------------------------------------------------------------
(* What the workers do is what FairQueue allows of Expire, and all that it *)
(* assumes: no overdue right is left behind by limits, locks, errors and   *)
(* restarts, and none that was used in the meantime is taken away.         *)
DeliversExpiry == FairSpec

(* The loop over batches ends: a right that the scan selects and the       *)
(* transaction leaves alone, as at the very time of its expiry, does not   *)
(* keep the worker busy for ever.                                          *)
LoopEnds == \A w \in Workers : worker[w].at = "scan" ~> worker[w].at \in {"ticker", "down"}
=============================================================================
