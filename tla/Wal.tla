-------------------------------- MODULE Wal --------------------------------
(***************************************************************************)
(* The write-ahead log of the volumetric canister: the entries kept in     *)
(* stable memory (journaling/wal/store.rs), the executor that runs one     *)
(* attempt of an operation (journaling/wal/executor.rs), the maintenance   *)
(* timer that promotes and retries entries (timers.rs) and the operator's  *)
(* recover_wal_operation (api/recovery.rs).  What a payload does is left   *)
(* to the modules of the operations: here an attempt ends with one of the  *)
(* three results the executor tells apart.                                 *)
(*                                                                         *)
(* A canister runs one message at a time, and a message ends at an await:  *)
(* every action below is the code between two awaits.  Stable memory is    *)
(* `wal'; `runner', `local' and `pending' are what the heap holds, and an  *)
(* upgrade loses them.                                                     *)
(***************************************************************************)
EXTENDS Naturals, FiniteSets

CONSTANTS
  Ops,           \* operation ids, ordered as the keys of the WAL map are
  AutoOps,       \* the ids of Accept and Settlement operations
  Drainers,      \* activations of the maintenance timer that may overlap
  MaxRetries,    \* WalPolicy.max_retries
  Backoff,       \* WalPolicy.backoff_secs
  StaleTimeout,  \* age at which an InFlight entry counts as abandoned
  RetryMaxAge,   \* age of created_at past which nothing is retried unattended
  Retention,     \* how long a Succeeded entry is kept
  ScanLimit,     \* entries one activation of the timer retries
  Horizon,       \* bound on the clock
  AttemptBound   \* bound on the attempts an operator adds

ASSUME WalAssumption ==
  /\ Ops \subseteq Nat /\ AutoOps \subseteq Ops
  /\ {"idle", "caller"} \cap Drainers = {}
  /\ {MaxRetries, Backoff, StaleTimeout, RetryMaxAge, Retention, ScanLimit,
      Horizon, AttemptBound} \subseteq Nat

VARIABLES
  now,      \* current_time_seconds()
  fresh,    \* ids no operation has been enqueued under yet
  wal,      \* the stable map: Ops -> Entry, Blank where there is no row
  runner,   \* who awaits the attempt of an operation ("idle": nobody does)
  local,    \* the copy of the entry the running attempt holds
  pending   \* operation ids an activation of the timer has still to run

vars == <<now, fresh, wal, runner, local, pending>>

Statuses == {"Absent", "InFlight", "RetryRequired", "Succeeded",
             "RecoveryRequired", "FailedPermanent"}
Results == {"ok", "retryable", "permanent"}

Entry == [status : Statuses, attempts : Nat, created : Nat, last : Nat,
          next : Nat]

Blank == [status |-> "Absent", attempts |-> 0, created |-> 0, last |-> 0,
          next |-> 0]

Init ==
  /\ now = 0
  /\ fresh = Ops
  /\ wal = [o \in Ops |-> Blank]
  /\ runner = [o \in Ops |-> "idle"]
  /\ local = [o \in Ops |-> Blank]
  /\ pending = [d \in Drainers |-> {}]

-----------------------------------------------------------------------------
(* The start of an attempt: what is persisted before the first await.      *)
Attempted(e) ==
  [status |-> "InFlight", attempts |-> e.attempts + 1,
   created |-> e.created, last |-> now, next |-> e.next]

(* Fault: withdrawals are queued for retry too.                            *)
AfterRetryableOfAnyKind(op, e) ==
  IF e.attempts < MaxRetries
  THEN [e EXCEPT !.status = "RetryRequired", !.last = now,
                 !.next = now + Backoff]
  ELSE [e EXCEPT !.status = "RecoveryRequired", !.last = now, !.next = now]

(* What the executor writes when the payload has returned.                 *)
AfterRetryable(op, e) ==
  IF op \in AutoOps /\ e.attempts < MaxRetries
  THEN [e EXCEPT !.status = "RetryRequired", !.last = now,
                 !.next = now + Backoff]
  ELSE [e EXCEPT !.status = "RecoveryRequired", !.last = now, !.next = now]

Outcome(op, e, result) ==
  CASE result = "ok"        -> [e EXCEPT !.status = "Succeeded", !.last = now]
    [] result = "retryable" -> AfterRetryable(op, e)
    [] result = "permanent" -> [e EXCEPT !.status = "FailedPermanent",
                                         !.last = now]

(* Fault: the status Succeeded is not looked at.                           *)
RunnableAgain(op, w, r) == w[op].status # "Absent" /\ r[op] = "idle"

(* execute_wal_entry_now goes on only for a row that exists, has not       *)
(* succeeded and that nobody is executing.                                 *)
Runnable(op, w, r) ==
  /\ w[op].status \notin {"Absent", "Succeeded"}
  /\ r[op] = "idle"

(* The next turn of the timer's loop: ids that need no execution are       *)
(* passed over, the first that does is started.  The scan order is a       *)
(* rotation of the key order by the clock, so any id may come first.       *)
Advance(d, w, r, l, todo) ==
  LET ready == {o \in todo : Runnable(o, w, r)} IN
  \/ /\ ready = {}
     /\ wal' = w /\ runner' = r /\ local' = l
     /\ pending' = [pending EXCEPT ![d] = {}]
  \/ \E o \in ready, passed \in SUBSET (todo \ ready) :
       /\ wal' = [w EXCEPT ![o] = Attempted(w[o])]
       /\ runner' = [r EXCEPT ![o] = d]
       /\ local' = [l EXCEPT ![o] = Attempted(w[o])]
       /\ pending' = [pending EXCEPT ![d] = todo \ (passed \cup {o})]

-----------------------------------------------------------------------------
(* enqueue_if_absent: the row a use case inserts (Enqueued) and starts the *)
(* execution of in the same message.  Ids carry a nonce or an option id,   *)
(* so each is used once.                                                   *)
Inserted == [status |-> "Enqueued", attempts |-> 0, created |-> now,
             last |-> now, next |-> now]

Enqueue(op) ==
  LET e == Attempted(Inserted) IN
  /\ op \in fresh
  /\ fresh' = fresh \ {op}
  /\ wal' = [wal EXCEPT ![op] = e]
  /\ local' = [local EXCEPT ![op] = e]
  /\ runner' = [runner EXCEPT ![op] = "caller"]
  /\ UNCHANGED <<now, pending>>

(* recover_wal_operation: no status but Succeeded stops the operator, and  *)
(* neither the retry budget nor the age of the entry does.                 *)
Recover(op) ==
  /\ Runnable(op, wal, runner)
  /\ wal[op].attempts < AttemptBound
  /\ wal' = [wal EXCEPT ![op] = Attempted(wal[op])]
  /\ local' = [local EXCEPT ![op] = Attempted(wal[op])]
  /\ runner' = [runner EXCEPT ![op] = "caller"]
  /\ UNCHANGED <<now, fresh, pending>>

(* The payload of a running attempt returns: the attempt's own copy of the *)
(* entry is written back, whatever the row has become meanwhile, and the   *)
(* loop that awaited it takes its next turn.                               *)
Finish(op, result) ==
  LET d == runner[op]
      w == [wal EXCEPT ![op] = Outcome(op, local[op], result)]
      r == [runner EXCEPT ![op] = "idle"]
      l == [local EXCEPT ![op] = Blank]
  IN
  /\ d # "idle"
  /\ \/ d = "caller" /\ wal' = w /\ runner' = r /\ local' = l
                     /\ UNCHANGED pending
     \/ d \in Drainers /\ Advance(d, w, r, l, pending[d])
  /\ UNCHANGED <<now, fresh>>

-----------------------------------------------------------------------------
(* promote_stale_in_flight_to_recovery_required                            *)
IsStale(e) == e.status = "InFlight" /\ e.last + StaleTimeout <= now

(* Fault: a stale row goes back to the status it was inserted with.        *)
StaleBackToEnqueued(op) == "Enqueued"

StaleTarget(op) ==
  IF op \in AutoOps THEN "RetryRequired" ELSE "RecoveryRequired"

(* Fault: stale withdrawals are left InFlight.                             *)
PromoteStaleAutoOnly(w) ==
  [o \in Ops |-> IF IsStale(w[o]) /\ o \in AutoOps
                 THEN [w[o] EXCEPT !.status = StaleTarget(o), !.last = now,
                                   !.next = now]
                 ELSE w[o]]

PromoteStale(w) ==
  [o \in Ops |-> IF IsStale(w[o])
                 THEN [w[o] EXCEPT !.status = StaleTarget(o), !.last = now,
                                   !.next = now]
                 ELSE w[o]]

(* collect_due_retry_required_operation_ids: entries that ran out of       *)
(* attempts or of time go to the operator, the first ScanLimit of those    *)
(* that are due are collected.                                             *)
IsExhausted(op, e) ==
  /\ e.status = "RetryRequired"
  /\ \/ e.attempts >= MaxRetries
     \/ op \in AutoOps /\ e.created + RetryMaxAge <= now

MoveExhausted(w) ==
  [o \in Ops |-> IF IsExhausted(o, w[o])
                 THEN [w[o] EXCEPT !.status = "RecoveryRequired", !.last = now]
                 ELSE w[o]]

Due(w) == {o \in Ops : w[o].status = "RetryRequired" /\ w[o].next <= now}

FirstDue(w) ==
  {o \in Due(w) : Cardinality({p \in Due(w) : p < o}) < ScanLimit}

(* The five-minute timer: promote, collect, and run the first entry up to  *)
(* its first await, all in one message.                                    *)
MaintenanceTick(d) ==
  LET w == MoveExhausted(PromoteStale(wal)) IN
  /\ \A o \in Ops : runner[o] # d
  /\ Advance(d, w, runner, local, FirstDue(w))
  /\ UNCHANGED <<now, fresh>>

(* Fault: cleanup does not look at the status.                             *)
IsOld(e) == e.status # "Absent" /\ e.last + Retention <= now

(* The daily timer: cleanup_succeeded.                                     *)
IsDisposable(e) == e.status = "Succeeded" /\ e.last + Retention <= now

Cleanup ==
  /\ \E o \in Ops : IsDisposable(wal[o])
  /\ wal' = [o \in Ops |-> IF IsDisposable(wal[o]) THEN Blank ELSE wal[o]]
  /\ UNCHANGED <<now, fresh, runner, local, pending>>

-----------------------------------------------------------------------------
(* The message that resumes an attempt traps: its writes are rolled back   *)
(* and its future is dropped, the in-progress mark and the rest of the     *)
(* timer's list with it.                                                   *)
Trap(op) ==
  /\ runner[op] # "idle"
  /\ runner' = [runner EXCEPT ![op] = "idle"]
  /\ local' = [local EXCEPT ![op] = Blank]
  /\ pending' = [d \in Drainers |-> IF d = runner[op] THEN {} ELSE pending[d]]
  /\ UNCHANGED <<now, fresh, wal>>

(* An upgrade of the canister: every future and every heap variable goes.  *)
Upgrade ==
  /\ \E o \in Ops : runner[o] # "idle"
  /\ runner' = [o \in Ops |-> "idle"]
  /\ local' = [o \in Ops |-> Blank]
  /\ pending' = [d \in Drainers |-> {}]
  /\ UNCHANGED <<now, fresh, wal>>

Tick ==
  /\ now < Horizon
  /\ now' = now + 1
  /\ UNCHANGED <<fresh, wal, runner, local, pending>>

Next ==
  \/ Tick \/ Cleanup \/ Upgrade
  \/ \E op \in Ops :
       \/ Enqueue(op) \/ Recover(op) \/ Trap(op)
       \/ \E result \in Results : Finish(op, result)
  \/ \E d \in Drainers : MaintenanceTick(d)

Spec == Init /\ [][Next]_vars

(* Replies always come, as every call is a bounded wait; timers keep       *)
(* firing; time goes on.  Nothing obliges an operator to act, nor a        *)
(* message to trap.                                                        *)
Fairness ==
  /\ WF_vars(Tick)
  /\ \A op \in Ops : WF_vars(\E result \in Results : Finish(op, result))
  /\ \A d \in Drainers : WF_vars(MaintenanceTick(d))

FairSpec == Spec /\ Fairness
-----------------------------------------------------------------------------
(* The shape of the variables.  No row rests in the status Enqueued, which *)
(* no scan of the timers would ever pick up: the message that inserts a    *)
(* row also starts its first attempt.                                      *)
TypeOK ==
  /\ now \in Nat
  /\ fresh \subseteq Ops
  /\ wal \in [Ops -> Entry]
  /\ runner \in [Ops -> Drainers \cup {"idle", "caller"}]
  /\ local \in [Ops -> Entry]
  /\ pending \in [Drainers -> SUBSET Ops]

(* What the final put_entry of an attempt relies on.  It overwrites the    *)
(* row with the attempt's own copy, so under a running attempt no other    *)
(* code may have removed the row, declared it done or failed, or counted   *)
(* another attempt: only the promotions of the timer may touch it.         *)
AttemptOwnsRow ==
  \A o \in Ops : runner[o] # "idle" =>
    /\ wal[o].status \in {"InFlight", "RetryRequired", "RecoveryRequired"}
    /\ wal[o].attempts = local[o].attempts
    /\ wal[o].created = local[o].created

(* A withdrawal pays out on the Bitcoin network and has no deduplication:  *)
(* no timer may run it, whatever becomes of its attempts, so it is never   *)
(* queued for retry, never on a scan's list and never run by a timer.      *)
WithdrawalsNeedACaller ==
  \A o \in Ops \ AutoOps :
    /\ wal[o].status # "RetryRequired"
    /\ runner[o] \notin Drainers
    /\ \A d \in Drainers : o \notin pending[d]

(* A Succeeded row is final: no retry, recovery, promotion or stale copy   *)
(* of an attempt changes it, until cleanup removes it a Retention later.   *)
SucceededIsFinal ==
  [][\A o \in Ops : wal[o].status = "Succeeded" =>
       \/ wal'[o] = wal[o]
       \/ wal'[o] = Blank /\ wal[o].last + Retention <= now]_vars

(* No attempt is lost: however traps and upgrades interrupt it, an         *)
(* operation comes to rest in a status that needs no timer.  The modelled  *)
(* clock stops at Horizon: a row the timers may only touch later than that *)
(* is excepted.                                                            *)
AtRest(o) ==
  wal[o].status \in {"Succeeded", "RecoveryRequired", "FailedPermanent",
                     "Absent"}

OutOfTime(o) ==
  \/ wal[o].status = "InFlight" /\ wal[o].last + StaleTimeout > Horizon
  \/ wal[o].status = "RetryRequired" /\ wal[o].next > Horizon

EveryOperationComesToRest ==
  \A o \in Ops : ~AtRest(o) ~> (AtRest(o) \/ OutOfTime(o))

(* WalStatus says of RecoveryRequired that it "requires operator           *)
(* recovery": then no timer starts an attempt of such an entry.            *)
RecoveryNeedsOperator ==
  [][\A o \in Ops, d \in Drainers :
       (wal[o].status = "RecoveryRequired" /\ runner[o] = "idle")
         => runner'[o] # d]_vars
=============================================================================
