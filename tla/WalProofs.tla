----------------------------- MODULE WalProofs -----------------------------
(***************************************************************************)
(* Theorems about Wal, for every set of operations, every policy and every *)
(* bound.  The inductive invariant is the conjunction of the properties    *)
(* the runs check with one fact they rest on: an id not yet used has no    *)
(* row.                                                                    *)
(***************************************************************************)
EXTENDS Wal, TLAPS

FreshHasNoRow == \A o \in fresh : wal[o] = Blank /\ runner[o] = "idle"

IInv == TypeOK /\ FreshHasNoRow /\ AttemptOwnsRow /\ WithdrawalsNeedACaller

-----------------------------------------------------------------------------
(* The entries the executor and the timers build are entries again, and    *)
(* keep the identity of the operation (created) and its attempt count.     *)
LEMMA AttemptedEntry ==
  ASSUME now \in Nat, NEW e \in Entry
  PROVE  /\ Attempted(e) \in Entry
         /\ Attempted(e).status = "InFlight"
         /\ Attempted(e).attempts = e.attempts + 1
         /\ Attempted(e).created = e.created
  BY DEF Attempted, Entry, Statuses

(* The row an attempt's outcome leaves is a row, and waits for a retry     *)
(* only when its operation is one the timers may run.                      *)
LEMMA OutcomeEntry ==
  ASSUME now \in Nat, NEW op \in Ops, NEW e \in Entry, NEW result \in Results
  PROVE  /\ Outcome(op, e, result) \in Entry
         /\ Outcome(op, e, result).status = "RetryRequired" => op \in AutoOps
  <1>1. now + Backoff \in Nat
    BY WalAssumption
  <1>2. CASE result = "ok"
    BY <1>2 DEF Outcome, Entry, Statuses
  <1>3. CASE result = "retryable"
    BY <1>1, <1>3 DEF Outcome, AfterRetryable, Entry, Statuses
  <1>4. CASE result = "permanent"
    BY <1>4 DEF Outcome, Entry, Statuses
  <1>5. QED
    BY <1>2, <1>3, <1>4 DEF Results

(* A scan for stale rows changes nothing but the status of rows InFlight.  *)
LEMMA PromotedEntries ==
  ASSUME now \in Nat, NEW w \in [Ops -> Entry]
  PROVE  /\ PromoteStale(w) \in [Ops -> Entry]
         /\ \A o \in Ops :
              /\ PromoteStale(w)[o].attempts = w[o].attempts
              /\ PromoteStale(w)[o].created = w[o].created
              /\ \/ PromoteStale(w)[o] = w[o]
                 \/ /\ w[o].status = "InFlight"
                    /\ PromoteStale(w)[o].status = StaleTarget(o)
  BY DEF PromoteStale, IsStale, StaleTarget, Entry, Statuses

(* The scan for rows out of attempts changes nothing but the status of     *)
(* rows that wait for a retry.                                             *)
LEMMA ExhaustedEntries ==
  ASSUME now \in Nat, NEW w \in [Ops -> Entry]
  PROVE  /\ MoveExhausted(w) \in [Ops -> Entry]
         /\ \A o \in Ops :
              /\ MoveExhausted(w)[o].attempts = w[o].attempts
              /\ MoveExhausted(w)[o].created = w[o].created
              /\ \/ MoveExhausted(w)[o] = w[o]
                 \/ /\ w[o].status = "RetryRequired"
                    /\ MoveExhausted(w)[o].status = "RecoveryRequired"
  BY DEF MoveExhausted, IsExhausted, Entry, Statuses

(* What a scan leaves of the log: only rows in flight or queued change,    *)
(* and a withdrawal is never queued.                                       *)
LEMMA ScannedEntries ==
  ASSUME now \in Nat, NEW w \in [Ops -> Entry]
  PROVE  LET s == MoveExhausted(PromoteStale(w)) IN
         /\ s \in [Ops -> Entry]
         /\ \A o \in Ops :
              /\ s[o].attempts = w[o].attempts
              /\ s[o].created = w[o].created
              /\ \/ s[o] = w[o]
                 \/ /\ w[o].status \in {"InFlight", "RetryRequired"}
                    /\ s[o].status \in {"RetryRequired", "RecoveryRequired"}
              /\ (o \notin AutoOps /\ w[o].status # "RetryRequired")
                   => s[o].status # "RetryRequired"
  <1> DEFINE p == PromoteStale(w)
             s == MoveExhausted(p)
  <1>1. p \in [Ops -> Entry]
    BY PromotedEntries
  <1>2. s \in [Ops -> Entry]
    BY <1>1, ExhaustedEntries
  <1>3. ASSUME NEW o \in Ops
        PROVE  /\ s[o].attempts = w[o].attempts
               /\ s[o].created = w[o].created
               /\ \/ s[o] = w[o]
                  \/ /\ w[o].status \in {"InFlight", "RetryRequired"}
                     /\ s[o].status \in {"RetryRequired", "RecoveryRequired"}
               /\ (o \notin AutoOps /\ w[o].status # "RetryRequired")
                    => s[o].status # "RetryRequired"
    <2>1. /\ p[o].attempts = w[o].attempts
          /\ p[o].created = w[o].created
          /\ \/ p[o] = w[o]
             \/ w[o].status = "InFlight" /\ p[o].status = StaleTarget(o)
      BY PromotedEntries
    <2>2. /\ s[o].attempts = p[o].attempts
          /\ s[o].created = p[o].created
          /\ \/ s[o] = p[o]
             \/ /\ p[o].status = "RetryRequired"
                /\ s[o].status = "RecoveryRequired"
      BY <1>1, ExhaustedEntries
    <2>3. StaleTarget(o) = IF o \in AutoOps THEN "RetryRequired"
                                            ELSE "RecoveryRequired"
      BY DEF StaleTarget
    <2>4. QED
      BY <2>1, <2>2, <2>3
  <1>4. QED
    BY <1>2, <1>3

(* One turn of the timer's loop: it starts at most one operation of its    *)
(* list, one that has a row, has not succeeded and is not running.         *)
LEMMA AdvanceEffect ==
  ASSUME now \in Nat, pending \in [Drainers -> SUBSET Ops],
         NEW d \in Drainers, NEW w \in [Ops -> Entry],
         NEW r \in [Ops -> Drainers \cup {"idle", "caller"}],
         NEW l \in [Ops -> Entry], NEW todo \in SUBSET Ops,
         Advance(d, w, r, l, todo)
  PROVE  /\ wal' \in [Ops -> Entry]
         /\ runner' \in [Ops -> Drainers \cup {"idle", "caller"}]
         /\ local' \in [Ops -> Entry]
         /\ pending' \in [Drainers -> SUBSET Ops]
         /\ pending'[d] \subseteq todo
         /\ \A x \in Drainers : x # d => pending'[x] = pending[x]
         /\ \A o \in Ops :
              \/ wal'[o] = w[o] /\ runner'[o] = r[o] /\ local'[o] = l[o]
              \/ /\ o \in todo
                 /\ Runnable(o, w, r)
                 /\ wal'[o] = Attempted(w[o])
                 /\ local'[o] = wal'[o]
                 /\ runner'[o] = d
  <1> DEFINE ready == {o \in todo : Runnable(o, w, r)}
  <1>1. CASE /\ ready = {}
             /\ wal' = w /\ runner' = r /\ local' = l
             /\ pending' = [pending EXCEPT ![d] = {}]
    BY <1>1
  <1>2. CASE \E o \in ready, passed \in SUBSET (todo \ ready) :
               /\ wal' = [w EXCEPT ![o] = Attempted(w[o])]
               /\ runner' = [r EXCEPT ![o] = d]
               /\ local' = [l EXCEPT ![o] = Attempted(w[o])]
               /\ pending' = [pending EXCEPT ![d] = todo \ (passed \cup {o})]
    <2>1. PICK o \in ready, passed \in SUBSET (todo \ ready) :
               /\ wal' = [w EXCEPT ![o] = Attempted(w[o])]
               /\ runner' = [r EXCEPT ![o] = d]
               /\ local' = [l EXCEPT ![o] = Attempted(w[o])]
               /\ pending' = [pending EXCEPT ![d] = todo \ (passed \cup {o})]
      BY <1>2
    <2>2. o \in Ops /\ o \in todo /\ Runnable(o, w, r)
      OBVIOUS
    <2>3. Attempted(w[o]) \in Entry
      BY <2>2, AttemptedEntry
    <2> HIDE DEF ready
    <2>4. QED
      BY <2>1, <2>2, <2>3
  <1>3. QED
    BY <1>1, <1>2 DEF Advance

-----------------------------------------------------------------------------
(* The invariant holds to begin with.                                      *)
LEMMA InitInv == Init => IInv
  <1> SUFFICES ASSUME Init PROVE IInv
    OBVIOUS
  <1>1. Blank \in Entry
    BY DEF Blank, Entry, Statuses
  <1>2. QED
    BY <1>1, WalAssumption
       DEF Init, IInv, TypeOK, FreshHasNoRow, AttemptOwnsRow,
           WithdrawalsNeedACaller, Blank

(* The operator's re-execution and a new operation start an attempt in the *)
(* name of a caller.                                                       *)
LEMMA EnqueueInv ==
  ASSUME IInv, NEW op \in Ops, Enqueue(op)
  PROVE  IInv'
  <1> DEFINE e == Attempted(Inserted)
  <1>2. /\ e \in Entry
        /\ e.status = "InFlight"
    BY DEF IInv, TypeOK, Attempted, Inserted, Entry, Statuses
  <1> HIDE DEF e
  <1>3. /\ op \in fresh
        /\ fresh' = fresh \ {op}
        /\ wal' = [wal EXCEPT ![op] = e]
        /\ local' = [local EXCEPT ![op] = e]
        /\ runner' = [runner EXCEPT ![op] = "caller"]
        /\ UNCHANGED <<now, pending>>
    BY DEF Enqueue, e
  <1>4. TypeOK'
    BY <1>2, <1>3 DEF IInv, TypeOK
  <1>5. FreshHasNoRow'
    BY <1>3 DEF IInv, TypeOK, FreshHasNoRow
  <1>6. AttemptOwnsRow'
    BY <1>2, <1>3 DEF IInv, TypeOK, AttemptOwnsRow
  <1>7. WithdrawalsNeedACaller'
    BY <1>2, <1>3, WalAssumption DEF IInv, TypeOK, WithdrawalsNeedACaller
  <1>8. QED
    BY <1>4, <1>5, <1>6, <1>7 DEF IInv

(* The operator's recovery keeps the invariant.                            *)
LEMMA RecoverInv ==
  ASSUME IInv, NEW op \in Ops, Recover(op)
  PROVE  IInv'
  <1> DEFINE e == Attempted(wal[op])
  <1>1. /\ e \in Entry
        /\ e.status = "InFlight"
    BY AttemptedEntry DEF IInv, TypeOK
  <1> HIDE DEF e
  <1>2. /\ wal[op].status # "Absent"
        /\ wal' = [wal EXCEPT ![op] = e]
        /\ local' = [local EXCEPT ![op] = e]
        /\ runner' = [runner EXCEPT ![op] = "caller"]
        /\ UNCHANGED <<now, fresh, pending>>
    BY DEF Recover, Runnable, e
  <1>3. op \notin fresh
    BY <1>2 DEF IInv, FreshHasNoRow, Blank
  <1>4. TypeOK'
    BY <1>1, <1>2 DEF IInv, TypeOK
  <1>5. FreshHasNoRow'
    BY <1>2, <1>3 DEF IInv, TypeOK, FreshHasNoRow
  <1>6. AttemptOwnsRow'
    BY <1>1, <1>2 DEF IInv, TypeOK, AttemptOwnsRow
  <1>7. WithdrawalsNeedACaller'
    BY <1>1, <1>2, WalAssumption DEF IInv, TypeOK, WithdrawalsNeedACaller
  <1>8. QED
    BY <1>4, <1>5, <1>6, <1>7 DEF IInv

(* A turn of the timer's loop preserves the invariant when the log, the    *)
(* runners and the copies it starts from satisfy it.                       *)
LEMMA AdvanceInv ==
  ASSUME TypeOK, NEW d \in Drainers, NEW w \in [Ops -> Entry],
         NEW r \in [Ops -> Drainers \cup {"idle", "caller"}],
         NEW l \in [Ops -> Entry], NEW todo \in SUBSET Ops,
         Advance(d, w, r, l, todo), UNCHANGED <<now, fresh>>,
         \A o \in fresh : w[o] = Blank /\ r[o] = "idle",
         \A o \in Ops : r[o] # "idle" =>
           /\ w[o].status \in {"InFlight", "RetryRequired",
                               "RecoveryRequired"}
           /\ w[o].attempts = l[o].attempts
           /\ w[o].created = l[o].created,
         \A o \in Ops \ AutoOps :
           /\ w[o].status # "RetryRequired"
           /\ r[o] \notin Drainers
           /\ o \notin todo
           /\ \A x \in Drainers : o \notin pending[x]
  PROVE  IInv'
  <1>1. /\ wal' \in [Ops -> Entry]
        /\ runner' \in [Ops -> Drainers \cup {"idle", "caller"}]
        /\ local' \in [Ops -> Entry]
        /\ pending' \in [Drainers -> SUBSET Ops]
        /\ pending'[d] \subseteq todo
        /\ \A x \in Drainers : x # d => pending'[x] = pending[x]
        /\ \A o \in Ops :
             \/ wal'[o] = w[o] /\ runner'[o] = r[o] /\ local'[o] = l[o]
             \/ /\ o \in todo
                /\ Runnable(o, w, r)
                /\ wal'[o] = Attempted(w[o])
                /\ local'[o] = wal'[o]
                /\ runner'[o] = d
    BY AdvanceEffect DEF TypeOK
  <1>2. \A o \in Ops : Attempted(w[o]).status = "InFlight"
    BY AttemptedEntry DEF TypeOK
  <1>3. TypeOK'
    BY <1>1 DEF TypeOK
  <1>4. FreshHasNoRow'
    BY <1>1 DEF TypeOK, FreshHasNoRow, Runnable, Blank
  <1>5. AttemptOwnsRow'
    BY <1>1, <1>2 DEF AttemptOwnsRow
  <1>6. WithdrawalsNeedACaller'
    BY <1>1, <1>2 DEF WithdrawalsNeedACaller
  <1>7. QED
    BY <1>3, <1>4, <1>5, <1>6 DEF IInv

(* The end of an attempt keeps the invariant.                              *)
LEMMA FinishInv ==
  ASSUME IInv, NEW op \in Ops, NEW result \in Results, Finish(op, result)
  PROVE  IInv'
  <1> DEFINE out == Outcome(op, local[op], result)
             w == [wal EXCEPT ![op] = out]
             r == [runner EXCEPT ![op] = "idle"]
             l == [local EXCEPT ![op] = Blank]
             d == runner[op]
  <1>1. /\ out \in Entry
        /\ out.status = "RetryRequired" => op \in AutoOps
    BY OutcomeEntry DEF IInv, TypeOK
  <1>2. Blank \in Entry
    BY DEF Blank, Entry, Statuses
  <1> HIDE DEF out
  <1>3. /\ w \in [Ops -> Entry]
        /\ r \in [Ops -> Drainers \cup {"idle", "caller"}]
        /\ l \in [Ops -> Entry]
    BY <1>1, <1>2 DEF IInv, TypeOK
  <1>4. d # "idle" /\ UNCHANGED <<now, fresh>>
    BY DEF Finish
  <1>5. op \notin fresh
    BY <1>4 DEF IInv, FreshHasNoRow
  <1>6. \A o \in fresh : w[o] = Blank /\ r[o] = "idle"
    BY <1>5 DEF IInv, TypeOK, FreshHasNoRow
  <1>7. \A o \in Ops : r[o] # "idle" =>
          /\ w[o].status \in {"InFlight", "RetryRequired",
                              "RecoveryRequired"}
          /\ w[o].attempts = l[o].attempts
          /\ w[o].created = l[o].created
    BY DEF IInv, TypeOK, AttemptOwnsRow
  <1>8. \A o \in Ops \ AutoOps :
          /\ w[o].status # "RetryRequired"
          /\ r[o] \notin Drainers
          /\ \A x \in Drainers : o \notin pending[x]
    BY <1>1, WalAssumption DEF IInv, TypeOK, WithdrawalsNeedACaller
  <1>9. CASE /\ d = "caller" /\ wal' = w /\ runner' = r /\ local' = l
             /\ UNCHANGED pending
    <2> HIDE DEF w, r, l, d
    <2>1. TypeOK'
      BY <1>3, <1>4, <1>9 DEF IInv, TypeOK
    <2>2. FreshHasNoRow'
      BY <1>4, <1>6, <1>9 DEF FreshHasNoRow
    <2>3. AttemptOwnsRow'
      BY <1>7, <1>9 DEF AttemptOwnsRow
    <2>4. WithdrawalsNeedACaller'
      BY <1>8, <1>9 DEF WithdrawalsNeedACaller
    <2>5. QED
      BY <2>1, <2>2, <2>3, <2>4 DEF IInv
  <1>10. CASE d \in Drainers /\ Advance(d, w, r, l, pending[d])
    <2>1. pending[d] \in SUBSET Ops
      BY <1>10 DEF IInv, TypeOK
    <2>2. \A o \in Ops \ AutoOps : o \notin pending[d]
      BY <1>8, <1>10
    <2> HIDE DEF w, r, l, d
    <2>3. TypeOK
      BY DEF IInv
    <2>4. QED
      BY <1>3, <1>4, <1>6, <1>7, <1>8, <1>10, <2>1, <2>2, <2>3, AdvanceInv
  <1>11. QED
    BY <1>9, <1>10 DEF Finish, out

(* A scan of the maintenance timer keeps the invariant.                    *)
LEMMA MaintenanceTickInv ==
  ASSUME IInv, NEW d \in Drainers, MaintenanceTick(d)
  PROVE  IInv'
  <1> DEFINE w == MoveExhausted(PromoteStale(wal))
  <1>1. /\ w \in [Ops -> Entry]
        /\ \A o \in Ops :
             /\ w[o].attempts = wal[o].attempts
             /\ w[o].created = wal[o].created
             /\ \/ w[o] = wal[o]
                \/ /\ wal[o].status \in {"InFlight", "RetryRequired"}
                   /\ w[o].status \in {"RetryRequired", "RecoveryRequired"}
             /\ (o \notin AutoOps /\ wal[o].status # "RetryRequired")
                  => w[o].status # "RetryRequired"
    BY ScannedEntries DEF IInv, TypeOK
  <1>2. Advance(d, w, runner, local, FirstDue(w)) /\ UNCHANGED <<now, fresh>>
    BY DEF MaintenanceTick
  <1> HIDE DEF w
  <1>3. /\ FirstDue(w) \in SUBSET Ops
        /\ \A o \in FirstDue(w) : w[o].status = "RetryRequired"
    BY DEF FirstDue, Due
  <1>4. \A o \in fresh : w[o] = Blank /\ runner[o] = "idle"
    BY <1>1 DEF IInv, TypeOK, FreshHasNoRow, Blank
  <1>5. \A o \in Ops : runner[o] # "idle" =>
          /\ w[o].status \in {"InFlight", "RetryRequired",
                              "RecoveryRequired"}
          /\ w[o].attempts = local[o].attempts
          /\ w[o].created = local[o].created
    BY <1>1 DEF IInv, AttemptOwnsRow
  <1>6. \A o \in Ops \ AutoOps :
          /\ w[o].status # "RetryRequired"
          /\ runner[o] \notin Drainers
          /\ o \notin FirstDue(w)
          /\ \A x \in Drainers : o \notin pending[x]
    BY <1>1, <1>3 DEF IInv, WithdrawalsNeedACaller
  <1>7. TypeOK /\ runner \in [Ops -> Drainers \cup {"idle", "caller"}]
        /\ local \in [Ops -> Entry]
    BY DEF IInv, TypeOK
  <1>8. QED
    BY <1>1, <1>2, <1>3, <1>4, <1>5, <1>6, <1>7, AdvanceInv

(* Every step keeps the invariant.                                         *)
LEMMA NextInv == IInv /\ [Next]_vars => IInv'
  <1> SUFFICES ASSUME IInv, [Next]_vars PROVE IInv'
    OBVIOUS
  <1> USE DEF IInv
  <1>1. Blank \in Entry
    BY DEF Blank, Entry, Statuses
  <1>2. CASE Tick
    BY <1>2 DEF Tick, TypeOK, FreshHasNoRow, AttemptOwnsRow,
                WithdrawalsNeedACaller
  <1>3. CASE Cleanup
    <2>1. TypeOK'
      BY <1>1, <1>3 DEF Cleanup, TypeOK
    <2>2. FreshHasNoRow'
      BY <1>3 DEF Cleanup, TypeOK, FreshHasNoRow
    <2>3. AttemptOwnsRow'
      BY <1>3 DEF Cleanup, IsDisposable, TypeOK, AttemptOwnsRow
    <2>4. WithdrawalsNeedACaller'
      BY <1>3 DEF Cleanup, WithdrawalsNeedACaller, Blank
    <2>5. QED
      BY <2>1, <2>2, <2>3, <2>4
  <1>4. CASE Upgrade
    BY <1>1, <1>4, WalAssumption
       DEF Upgrade, TypeOK, FreshHasNoRow, AttemptOwnsRow,
           WithdrawalsNeedACaller
  <1>5. ASSUME NEW op \in Ops, Trap(op)
        PROVE  IInv'
    <2>1. TypeOK'
      BY <1>1, <1>5 DEF Trap, TypeOK
    <2>2. FreshHasNoRow'
      BY <1>5 DEF Trap, TypeOK, FreshHasNoRow
    <2>3. AttemptOwnsRow'
      BY <1>5 DEF Trap, TypeOK, AttemptOwnsRow
    <2>4. WithdrawalsNeedACaller'
      BY <1>5, WalAssumption DEF Trap, TypeOK, WithdrawalsNeedACaller
    <2>5. QED
      BY <2>1, <2>2, <2>3, <2>4
  <1>6. CASE UNCHANGED vars
    BY <1>6 DEF vars, TypeOK, FreshHasNoRow, AttemptOwnsRow,
                WithdrawalsNeedACaller
  <1>7. QED
    BY <1>2, <1>3, <1>4, <1>5, <1>6, EnqueueInv, RecoverInv, FinishInv,
       MaintenanceTickInv DEF Next

(* The invariant holds for any number of operations and timers.            *)
LEMMA SpecInv == Spec => []IInv
  BY InitInv, NextInv, PTL DEF Spec

-----------------------------------------------------------------------------
(* Every variable keeps its shape: the types of the log, of the in-progress *)
(* set and of the timers' lists.                                           *)
THEOREM TypeCorrect == Spec => []TypeOK
  BY SpecInv, PTL DEF IInv

(* However promotions, retries, recoveries, traps and upgrades interleave, *)
(* the copy an attempt writes back at its end belongs to a row nobody      *)
(* finished, removed or started again.                                     *)
THEOREM AttemptsOwnTheirRows == Spec => []AttemptOwnsRow
  BY SpecInv, PTL DEF IInv

(* No timer ever queues, collects or runs a withdrawal.                    *)
THEOREM WithdrawalsStayWithCallers == Spec => []WithdrawalsNeedACaller
  BY SpecInv, PTL DEF IInv

(* A row of a successful operation is not changed until it is removed.     *)
THEOREM SuccessIsFinal == Spec => SucceededIsFinal
  <1> DEFINE Kept(o) == \/ wal'[o] = wal[o]
                        \/ wal'[o] = Blank /\ wal[o].last + Retention <= now
  <1>1. ASSUME IInv, [Next]_vars, NEW o \in Ops, wal[o].status = "Succeeded"
        PROVE  Kept(o)
    <2> USE <1>1 DEF IInv
    <2>1. CASE Tick \/ Upgrade \/ UNCHANGED vars
      BY <2>1 DEF Tick, Upgrade, vars
    <2>2. CASE Cleanup
      BY <2>2 DEF Cleanup, IsDisposable
    <2>3. ASSUME NEW op \in Ops, Enqueue(op) PROVE Kept(o)
      BY <2>3 DEF Enqueue, FreshHasNoRow, Blank, TypeOK
    <2>4. ASSUME NEW op \in Ops, Recover(op) PROVE Kept(o)
      BY <2>4 DEF Recover, Runnable, TypeOK
    <2>5. ASSUME NEW op \in Ops, Trap(op) PROVE Kept(o)
      BY <2>5 DEF Trap
    <2>6. ASSUME NEW op \in Ops, NEW result \in Results, Finish(op, result)
          PROVE  Kept(o)
      <3> DEFINE out == Outcome(op, local[op], result)
                 w == [wal EXCEPT ![op] = out]
                 r == [runner EXCEPT ![op] = "idle"]
                 l == [local EXCEPT ![op] = Blank]
                 d == runner[op]
      <3>1. o # op
        BY <2>6 DEF Finish, AttemptOwnsRow
      <3>2. out \in Entry /\ Blank \in Entry
        BY OutcomeEntry DEF TypeOK, Blank, Entry, Statuses
      <3> HIDE DEF out
      <3>3. w[o] = wal[o] /\ w[o].status = "Succeeded"
        BY <3>1 DEF TypeOK
      <3>4. /\ w \in [Ops -> Entry]
            /\ r \in [Ops -> Drainers \cup {"idle", "caller"}]
            /\ l \in [Ops -> Entry]
        BY <3>2 DEF TypeOK
      <3>5. \/ wal' = w
            \/ d \in Drainers /\ Advance(d, w, r, l, pending[d])
        BY <2>6 DEF Finish, out
      <3>6. CASE wal' = w
        BY <3>3, <3>6
      <3>7. CASE d \in Drainers /\ Advance(d, w, r, l, pending[d])
        <4>1. pending[d] \in SUBSET Ops
          BY <3>7 DEF TypeOK
        <4> HIDE DEF w, r, l, d
        <4>2. wal'[o] = w[o] \/ Runnable(o, w, r)
          BY <3>4, <3>7, <4>1, AdvanceEffect DEF TypeOK
        <4>3. QED
          BY <3>3, <4>2 DEF Runnable
      <3>8. QED
        BY <3>5, <3>6, <3>7
    <2>7. ASSUME NEW d \in Drainers, MaintenanceTick(d) PROVE Kept(o)
      <3> DEFINE w == MoveExhausted(PromoteStale(wal))
      <3>1. w \in [Ops -> Entry] /\ w[o] = wal[o]
        BY ScannedEntries DEF TypeOK
      <3>2. Advance(d, w, runner, local, FirstDue(w))
        BY <2>7 DEF MaintenanceTick
      <3> HIDE DEF w
      <3>3. FirstDue(w) \in SUBSET Ops
        BY DEF FirstDue, Due
      <3>4. wal'[o] = w[o] \/ Runnable(o, w, runner)
        BY <3>1, <3>2, <3>3, AdvanceEffect DEF TypeOK
      <3>5. QED
        BY <3>1, <3>4 DEF Runnable
    <2>8. QED
      BY <2>1, <2>2, <2>3, <2>4, <2>5, <2>6, <2>7 DEF Next
  <1>2. IInv /\ [Next]_vars =>
          [\A o \in Ops : wal[o].status = "Succeeded" =>
             \/ wal'[o] = wal[o]
             \/ wal'[o] = Blank /\ wal[o].last + Retention <= now]_vars
    BY <1>1
  <1>3. QED
    BY SpecInv, <1>2, PTL DEF Spec, SucceededIsFinal
=============================================================================
