------------------------- MODULE WithdrawalTracking -------------------------
(***************************************************************************)
(* The web application's tracking of withdrawals: the request handler      *)
(* (use-cases/account/withdraw), which starts a row and polls the canister *)
(* for half a minute, and the cron job (account/sync-withdrawals), which   *)
(* follows the row to the canister, to the ckBTC minter and to the chain.  *)
(*                                                                         *)
(* Both write whole rows from copies of their own.  The handler never      *)
(* reads the row again, its last write is not awaited, and jobs overlap.   *)
(***************************************************************************)
EXTENDS Naturals, FiniteSets, FiniteSetsExt

CONSTANTS
  Withdrawals, Jobs,
  Polls,          \* DEFAULT_MAX_ATTEMPTS of the handler's polling
  DueLimit,       \* MAX_DUE_WITHDRAWALS_PER_TICK
  MaxAge,         \* MAX_TRACKED_WITHDRAWAL_AGE_MS
  FreshWindow,    \* FRESH_BROADCAST_WINDOW_MS; its interval and the base are 1
  MaxBackoff,     \* MAX_BACKOFF_16_MINUTES_MS
  Horizon         \* bound on the clock

WithdrawalTrackingAssumption ==
  {Polls, DueLimit, MaxAge, FreshWindow, MaxBackoff, Horizon} \subseteq Nat

VARIABLES
  now,
  outcome,   \* what the canister's log says of a withdrawal
  minter,    \* what the minter and the chain say of its burn
  row,       \* table tracked_withdrawals
  handler,   \* the request that started it
  late,      \* the handler's last write, on its way
  job,       \* the jobs' clock and the transactions their tip confirms
  part       \* what a job does for a row, and its copy of it

world == <<now, outcome, minter>>
request == <<handler, late>>
locals == <<job, part>>
vars == <<world, row, request, locals>>

NoRow == [status |-> "none", block |-> FALSE, tx |-> FALSE, attempts |-> 0,
          next |-> 0, created |-> 0]
NoJob == [at |-> "idle", now |-> 0, tip |-> FALSE, seen |-> {}]
NoPart == [at |-> "idle", new |-> NoRow, old |-> NoRow]

Init ==
  /\ now = 0
  /\ outcome = [w \in Withdrawals |-> "none"]
  /\ minter = [w \in Withdrawals |-> "pending"]
  /\ row = [w \in Withdrawals |-> NoRow]
  /\ handler = [w \in Withdrawals |-> [at |-> "idle", polls |-> 0, since |-> 0]]
  /\ late = row
  /\ job = [j \in Jobs |-> NoJob]
  /\ part = [j \in Jobs |-> [w \in Withdrawals |-> NoPart]]

(* saveTrackedWithdrawal inserts the row or sets all its columns but one:  *)
(* created_at is that of the insertion.                                    *)
Upsert(old, new) ==
  IF old.status = "none" THEN new ELSE [new EXCEPT !.created = old.created]

Save(w, new) == row' = [row EXCEPT ![w] = Upsert(row[w], new)]

NonTerminal == {"broadcasting", "pending"}

Tracked == {w \in Withdrawals : row[w].status # "none"}
Open == {w \in Withdrawals : row[w].status \in NonTerminal}

-----------------------------------------------------------------------------
(* The canister accepts the withdrawal, and later settles it; what needs   *)
(* recovery waits for an operator.                                         *)
Accept(w) ==
  /\ handler[w].at = "idle"
  /\ handler' = [handler EXCEPT ![w].at = "accepted"]
  /\ outcome' = [outcome EXCEPT ![w] = "pending"]
  /\ UNCHANGED <<now, minter, row, late, locals>>

Resolve(w) ==
  /\ outcome[w] = "pending"
  /\ \E o \in {"succeeded", "failed", "recovery"} :
       outcome' = [outcome EXCEPT ![w] = o]
  /\ UNCHANGED <<now, minter, row, request, locals>>

(* The minter sends what was burnt, or gives it back; a block confirms it. *)
MinterStep(w) ==
  /\ outcome[w] = "succeeded"
  /\ \/ /\ minter[w] = "pending"
        /\ \E m \in {"sent", "reimbursed"} : minter' = [minter EXCEPT ![w] = m]
     \/ /\ minter[w] = "sent"
        /\ minter' = [minter EXCEPT ![w] = "confirmed"]
  /\ UNCHANGED <<now, outcome, row, request, locals>>

Tick ==
  /\ now < Horizon
  /\ now' = now + 1
  /\ UNCHANGED <<outcome, minter, row, request, locals>>

-----------------------------------------------------------------------------
(* The handler's copy of the row, as it was when the canister accepted.    *)
Started(w) == [NoRow EXCEPT !.status = "broadcasting", !.next = handler[w].since,
                            !.created = handler[w].since]

FirstSave(w) ==
  /\ handler[w].at = "accepted"
  /\ handler' = [handler EXCEPT ![w].at = "polling", ![w].since = now]
  /\ Save(w, [NoRow EXCEPT !.status = "broadcasting", !.next = now, !.created = now])
  /\ UNCHANGED <<world, late, locals>>

(* One poll: a pending withdrawal is saved again, and awaited; one that    *)
(* ended is saved on the way out; recovery is neither, as is the timeout.  *)
Poll(w) ==
  /\ handler[w].at = "polling"
  /\ \/ /\ handler[w].polls = Polls
        /\ handler' = [handler EXCEPT ![w].at = "ended"]
        /\ UNCHANGED late
     \/ /\ handler[w].polls < Polls
        /\ \/ /\ outcome[w] \in {"pending", "recovery"}
              /\ handler' = [handler EXCEPT
                   ![w].at = IF outcome[w] = "pending" THEN "save" ELSE @,
                   ![w].polls = @ + 1]
              /\ UNCHANGED late
           \/ /\ outcome[w] = "succeeded"
              /\ handler' = [handler EXCEPT ![w].at = "ended"]
              /\ late' = [late EXCEPT ![w] =
                   [Started(w) EXCEPT !.block = TRUE, !.next = now]]
           \/ /\ outcome[w] = "failed"
              /\ handler' = [handler EXCEPT ![w].at = "ended"]
              /\ late' = [late EXCEPT ![w] = [Started(w) EXCEPT !.status = "failed"]]
  /\ UNCHANGED <<world, row, locals>>

PollSave(w) ==
  /\ handler[w].at = "save"
  /\ handler' = [handler EXCEPT ![w].at = "polling"]
  /\ Save(w, Started(w))
  /\ UNCHANGED <<world, late, locals>>

(* A call of the handler throws, or its worker is gone.                    *)
HandlerDies(w) ==
  /\ handler[w].at \in {"accepted", "polling", "save"}
  /\ handler' = [handler EXCEPT ![w].at = "ended"]
  /\ UNCHANGED <<world, row, late, locals>>

(* The write nobody awaits arrives, or is lost.                            *)
LateSave(w) ==
  /\ late[w] # NoRow
  /\ late' = [late EXCEPT ![w] = NoRow]
  /\ Save(w, late[w]) \/ UNCHANGED row
  /\ UNCHANGED <<world, handler, locals>>

-----------------------------------------------------------------------------
(* listDueTrackedWithdrawals: at most DueLimit rows, those due first first.*)
Due ==
  LET due == {w \in Open : row[w].next <= now}
      most == IF Cardinality(due) < DueLimit THEN Cardinality(due) ELSE DueLimit
  IN {s \in kSubset(most, due) : \A w \in s, v \in due \ s : row[w].next <= row[v].next}

List(j) ==
  /\ job[j].at = "idle"
  /\ \E due \in Due \ {{}} :
       part' = [part EXCEPT ![j] = [w \in Withdrawals |->
         IF w \in due THEN [NoPart EXCEPT !.at = "ask", !.old = row[w]] ELSE NoPart]]
  /\ job' = [job EXCEPT ![j] = [NoJob EXCEPT !.at = "tip", !.now = now]]
  /\ UNCHANGED <<world, row, request>>

(* The tip of the chain, null when the explorer does not answer.           *)
Tip(j) ==
  /\ job[j].at = "tip"
  /\ \E tip \in BOOLEAN :
       job' = [job EXCEPT ![j].at = "rows", ![j].tip = tip, ![j].seen =
         IF tip THEN {w \in Withdrawals : minter[w] = "confirmed"} ELSE {}]
  /\ UNCHANGED <<world, row, request, part>>

(* getBackoffDelayMs, for an attempt that has been counted.                *)
Backoff(attempts, age) ==
  LET delay == 2 ^ (attempts - 1) IN
  IF age < FreshWindow THEN 1 ELSE IF delay < MaxBackoff THEN delay ELSE MaxBackoff

Age(j, w) == job[j].now - part[j][w].old.created

Attempted(j, w) == [part[j][w].old EXCEPT !.attempts = @ + 1]

(* The row of a withdrawal nothing new is known of.                        *)
Waiting(j, w) ==
  LET new == Attempted(j, w) IN
  [new EXCEPT !.next = job[j].now + Backoff(new.attempts, Age(j, w))]

Resolved(j, w) == [part[j][w].old EXCEPT !.attempts = 0, !.next = job[j].now]
Ended(j, w, status) == [Attempted(j, w) EXCEPT !.status = status]

FromCanister(j, w) ==
  CASE outcome[w] = "failed"    -> Ended(j, w, "failed")
    [] outcome[w] = "succeeded" -> [Resolved(j, w) EXCEPT !.block = TRUE]
    [] OTHER                    -> Waiting(j, w)

FromMinter(j, w) ==
  CASE minter[w] = "reimbursed"            -> Ended(j, w, "failed")
    [] minter[w] \in {"sent", "confirmed"} ->
         [Resolved(j, w) EXCEPT !.tx = TRUE, !.status = "pending"]
    [] OTHER                               -> Waiting(j, w)

(* Fault: a transaction is taken for confirmed once the tip is known.      *)
AnyTip(j, w) == IF job[j].tip THEN Ended(j, w, "completed") ELSE Waiting(j, w)

FromChain(j, w) ==
  IF w \in job[j].seen THEN Ended(j, w, "completed") ELSE Waiting(j, w)

(* reconcileTrackedWithdrawal asks one of the three, or gives the row up;  *)
(* an answer that does not come is an attempt.                             *)
Ask(j, w) ==
  LET old == part[j][w].old
      answer == IF ~old.block THEN FromCanister(j, w)
                ELSE IF ~old.tx THEN FromMinter(j, w) ELSE FromChain(j, w)
  IN
  /\ job[j].at = "rows" /\ part[j][w].at = "ask"
  /\ \E new \in IF Age(j, w) > MaxAge THEN {[old EXCEPT !.status = "expired"]}
                ELSE {answer, Waiting(j, w)} :
       part' = [part EXCEPT ![j][w].at = "store", ![j][w].new = new]
  /\ UNCHANGED <<world, row, request, job>>

Close(j, w) ==
  /\ part' = [part EXCEPT ![j][w] = NoPart]
  /\ job' = IF \A v \in Withdrawals \ {w} : part[j][v].at = "idle"
            THEN [job EXCEPT ![j] = NoJob] ELSE job

Store(j, w) ==
  /\ part[j][w].at = "store"
  /\ Save(w, part[j][w].new)
  /\ Close(j, w)
  /\ UNCHANGED <<world, request>>

(* A write that fails is caught and the row is written as waiting; when    *)
(* that fails too, or the row had expired, the job has thrown.             *)
StoreFails(j, w) ==
  /\ part[j][w].at = "store"
  /\ IF part[j][w].new \in {Waiting(j, w), [part[j][w].old EXCEPT !.status = "expired"]}
     THEN Close(j, w)
     ELSE /\ part' = [part EXCEPT ![j][w].new = Waiting(j, w)]
          /\ UNCHANGED job
  /\ UNCHANGED <<world, row, request>>

(* The list or the actor cannot be had, or the worker is gone.             *)
Abort(j) ==
  /\ job[j].at # "idle"
  /\ job' = [job EXCEPT ![j] = NoJob]
  /\ part' = [part EXCEPT ![j] = [w \in Withdrawals |-> NoPart]]
  /\ UNCHANGED <<world, row, request>>

HandlerStep(w) == FirstSave(w) \/ Poll(w) \/ PollSave(w) \/ LateSave(w)

JobStep(j) ==
  \/ List(j) \/ Tip(j)
  \/ \E w \in Withdrawals : Ask(j, w) \/ Store(j, w)

Next ==
  \/ Tick
  \/ \E w \in Withdrawals : \/ Accept(w) \/ Resolve(w) \/ MinterStep(w)
                            \/ HandlerStep(w) \/ HandlerDies(w)
  \/ \E j \in Jobs : \/ JobStep(j) \/ Abort(j)
                     \/ \E w \in Withdrawals : StoreFails(j, w)

Spec == Init /\ [][Next]_vars

(* Time passes, a handler goes on or dies, the cron trigger starts jobs,   *)
(* and no worker is killed, or refused by the database, at every attempt.  *)
FairSpec ==
  /\ Spec /\ WF_vars(Tick)
  /\ \A w \in Withdrawals : WF_vars(HandlerStep(w))
  /\ \A j \in Jobs :
       /\ WF_vars(JobStep(j)) /\ SF_vars(Tip(j))
       /\ \A w \in Withdrawals : SF_vars(Ask(j, w)) /\ SF_vars(Store(j, w))
-----------------------------------------------------------------------------
Row == [status : {"none", "completed", "failed", "expired"} \cup {"broadcasting", "pending"},
        block : BOOLEAN, tx : BOOLEAN, attempts : Nat, next : Nat,
        created : 0 .. Horizon]

(* The shape of the variables, and of a row in the table: a transaction    *)
(* is known only with the block of its burn, the status tells whether one  *)
(* is, whichever of the overlapping writers came last.                     *)
TypeOK ==
  /\ now \in 0 .. Horizon
  /\ row \in [Withdrawals -> Row] /\ late \in [Withdrawals -> Row]
  /\ \A w \in Withdrawals :
       /\ row[w].tx => row[w].block
       /\ row[w].status \in {"pending", "completed"} => row[w].tx
       /\ row[w].status = "broadcasting" => ~row[w].tx
  /\ \A j \in Jobs, w \in Withdrawals :
       part[j][w].at \in {"idle", "ask", "store"}

(* A tracked withdrawal leaves the list the user sees (getPending-         *)
(* Withdrawals) only when its transaction is confirmed, when its failure   *)
(* is certain, or when it was followed for longer than MaxAge.             *)
LeavesTheListForAReason ==
  \A w \in Tracked \ Open :
    CASE row[w].status = "completed" -> minter[w] = "confirmed"
      [] row[w].status = "failed" -> outcome[w] = "failed" \/ minter[w] = "reimbursed"
      [] OTHER -> now - row[w].created > MaxAge

(* The list of the user does not keep a withdrawal for ever: each tracked  *)
(* row reaches an end and stays there, however its writers overlap, unless *)
(* the clock of the model stops before it may be given up.                 *)
OutOfTime(w) == row[w].created + MaxAge + MaxBackoff >= Horizon

EveryRowComesToAnEnd ==
  \A w \in Withdrawals :
    row[w].status # "none" ~> (OutOfTime(w) \/ [](row[w].status \in
                                 {"completed", "failed", "expired"}))
=============================================================================
