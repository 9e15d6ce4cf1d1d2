-------------------------- MODULE DepositTracking --------------------------
(***************************************************************************)
(* The web application's tracking of Bitcoin deposits: the cron job        *)
(* sync-deposits (lib/use-cases/account/sync-deposits), which detects the  *)
(* deposits of every user, asks the canister to mint those with enough     *)
(* confirmations, and marks as many of them credited as the rise of the    *)
(* user's balance covers.                                                  *)
(*                                                                         *)
(* The trigger fires every minute and takes no lock, so jobs overlap.  A   *)
(* job writes whole rows from copies it read earlier; each action is one   *)
(* call of a job to the database, the block explorer or the canister, the  *)
(* users of a batch being served concurrently.                             *)
(***************************************************************************)
EXTENDS Naturals, FiniteSets, FiniteSetsExt

CONSTANTS
  Users, Deposits, Jobs,
  Owner,          \* Deposits -> Users
  Value,          \* Deposits -> Nat, in sats
  MintFee,        \* what the minter keeps of a deposit
  Premiums,       \* amounts a user's balance may rise by for another reason
  MinterConfs,    \* MINTER_CONFIRMATIONS
  MaxAttempts,    \* MAX_SYNC_ATTEMPTS
  MaxAge,         \* MAX_TRACKED_DEPOSIT_AGE_6_HOURS_MS
  MaxBackoff,     \* MAX_BACKOFF_16_MINUTES_MS; the base is 1
  DueLimit,       \* MAX_DUE_DEPOSITS_PER_TICK
  MaxHeight, Horizon   \* bounds on the chain and on the clock

DepositTrackingAssumption ==
  /\ Owner \in [Deposits -> Users]
  /\ Value \in [Deposits -> Nat] /\ Premiums \subseteq Nat
  /\ {MintFee, MinterConfs, MaxAttempts, MaxAge, MaxBackoff, DueLimit,
      MaxHeight, Horizon} \subseteq Nat

VARIABLES
  now, height,   \* the clock, in minutes, and the tip of the chain
  mined,         \* height of the block that holds a deposit, 0 if none does
  minted,        \* deposits the canister has minted
  balance,       \* available balance of a user in the canister
  premiums,      \* premiums not yet received (each one once)
  row,           \* table tracked_deposits
  cursor,        \* table deposit_sync_state
  known,         \* users whose deposit address is stored
  skipped,       \* users a scan passed over for want of an address
  job,           \* the jobs: stage, and what they read when they began
  part,          \* what a job does for a user, and what it read for him
  copy, fresh,   \* rows a job has read, at the scan and at the listing
  creditor       \* the job that credited a deposit last

chain == <<now, height, mined>>
canister == <<minted, balance, premiums>>
tables == <<row, cursor, known>>
history == <<skipped, creditor>>
locals == <<job, part, copy, fresh>>
vars == <<chain, canister, tables, history, locals>>

NoRow == [status |-> "none", confs |-> 0, attempts |-> 0, next |-> 0, seen |-> 0]
NoJob == [at |-> "idle", now |-> 0, tip |-> 0, failed |-> FALSE, old |-> {}]
NoPart == [at |-> "idle", list |-> {}, due |-> {}, before |-> 0, rise |-> 0,
           linked |-> {}]
Nobody == "nobody"

Init ==
  /\ now = 0 /\ height = 0 /\ cursor = 0
  /\ mined = [d \in Deposits |-> 0] /\ minted = {}
  /\ balance = [u \in Users |-> 0] /\ premiums = Premiums
  /\ row = [d \in Deposits |-> NoRow]
  /\ known = {} /\ skipped = {}
  /\ creditor = [d \in Deposits |-> Nobody]
  /\ job = [j \in Jobs |-> NoJob]
  /\ part = [j \in Jobs |-> [u \in Users |-> NoPart]]
  /\ copy = [j \in Jobs |-> [d \in Deposits |-> NoRow]]
  /\ fresh = copy

Of(u) == {d \in Deposits : Owner[d] = u}
(* A job's copies once it has no more use for those of the deposits ds.    *)
Forget(rows, ds) == [d \in Deposits |-> IF d \in ds THEN NoRow ELSE rows[d]]

Pending == {d \in Deposits : row[d].status = "matured"}

(* getBackoffDelayMs, for an attempt that has been counted.                *)
Backoff(attempts) ==
  LET delay == 2 ^ (attempts - 1) IN
  IF delay < MaxBackoff THEN delay ELSE MaxBackoff

-----------------------------------------------------------------------------
(* A job begins: it reads the clock and the tip, then the cursor.          *)
Begin(j) ==
  /\ job[j].at = "idle"
  /\ job' = [job EXCEPT ![j] = [NoJob EXCEPT !.at = "begun", !.now = now,
                                             !.tip = height]]
  /\ UNCHANGED <<chain, canister, tables, history, part, copy, fresh>>

LoadCursor(j) ==
  /\ job[j].at = "begun"
  /\ IF cursor = job[j].tip
     THEN job' = [job EXCEPT ![j] = NoJob] /\ UNCHANGED part
     ELSE /\ job' = [job EXCEPT ![j].at = "scan"]
          /\ part' = [part EXCEPT ![j] =
               [u \in Users |-> [NoPart EXCEPT !.at = "fetch"]]]
  /\ UNCHANGED <<chain, canister, tables, history, copy, fresh>>

(* What the block explorer lists with DETECTION_CONFIRMATIONS = 1.  The    *)
(* code reads the first page of it; that this is all of it is assumed.     *)
Confirmed(j, u) == {d \in Of(u) : mined[d] \in 1 .. job[j].tip}

(* The user's transactions; an address nobody can tell is no failure.      *)
Fetch(j, u) ==
  /\ part[j][u].at = "fetch"
  /\ \/ /\ known' = known \cup {u}
        /\ part' = [part EXCEPT ![j][u].at = "read",
                                ![j][u].list = Confirmed(j, u)]
        /\ UNCHANGED skipped
     \/ /\ u \notin known
        /\ skipped' = skipped \cup {u}
        /\ part' = [part EXCEPT ![j][u].at = "done"]
        /\ UNCHANGED known
  /\ UNCHANGED <<chain, canister, row, cursor, creditor, job, copy, fresh>>

Read(j, u) ==
  /\ part[j][u].at = "read"
  /\ \/ /\ part[j][u].list = {}
        /\ part' = [part EXCEPT ![j][u].at = "done"]
        /\ UNCHANGED copy
     \/ \E d \in part[j][u].list :
          IF row[d].status = "credited"
          THEN /\ part' = [part EXCEPT ![j][u].list = @ \ {d}]
               /\ UNCHANGED copy
          ELSE /\ part' = [part EXCEPT ![j][u].at = "write",
                                       ![j][u].linked = {d}]
               /\ copy' = [copy EXCEPT ![j][d] = row[d]]
  /\ UNCHANGED <<chain, canister, tables, history, job, fresh>>

(* The row detection writes: a new one, or the one it read with its        *)
(* confirmations brought up to date and, if it had expired, matured again. *)
Detected(j, d) ==
  LET confs == job[j].tip - mined[d] + 1
      old == copy[j][d]
  IN IF old.status = "none"
     THEN [status |-> "matured", confs |-> confs, attempts |-> 0,
           next |-> job[j].now, seen |-> job[j].now]
     ELSE [old EXCEPT !.status = "matured", !.confs = confs]

Write(j, u) ==
  /\ part[j][u].at = "write"
  /\ \E d \in part[j][u].linked :
       /\ row' = [row EXCEPT ![d] = Detected(j, d)]
       /\ copy' = [copy EXCEPT ![j][d] = NoRow]
       /\ part' = [part EXCEPT ![j][u].at = "read", ![j][u].list = @ \ {d},
                               ![j][u].linked = {}]
  /\ UNCHANGED <<chain, canister, cursor, known, history, job, fresh>>

(* A call that throws ends what the job does for the user; the others go   *)
(* on.  The calls of `call' and `after' are caught where they are made.    *)
Throw(j, u) ==
  /\ part[j][u].at \in {"fetch", "read", "write", "before", "list", "credit",
                        "retry"}
  /\ part' = [part EXCEPT ![j][u] = [NoPart EXCEPT !.at = "done"]]
  /\ job' = [job EXCEPT ![j].failed = TRUE]
  /\ copy' = [copy EXCEPT ![j] = Forget(copy[j], Of(u))]
  /\ fresh' = [fresh EXCEPT ![j] = Forget(fresh[j], Of(u))]
  /\ UNCHANGED <<chain, canister, tables, history>>

-----------------------------------------------------------------------------
AllDone(j) == \A u \in Users : part[j][u].at = "done"

(* groupDueDepositsByUser: at most DueLimit rows, those due first first.   *)
Due(j) ==
  LET due == {d \in Pending : row[d].next <= job[j].now}
      most == IF Cardinality(due) < DueLimit THEN Cardinality(due) ELSE DueLimit
  IN {s \in kSubset(most, due) :
        \A d \in s, e \in due \ s : row[d].next <= row[e].next}

IsOld(j, d) == job[j].now - row[d].seen > MaxAge

Group(j) ==
  /\ job[j].at = "scan" /\ AllDone(j)
  /\ \E due \in Due(j) :
       LET old == {d \in due : IsOld(j, d)}
           ripe == {d \in due \ old : row[d].confs >= MinterConfs}
       IN
       /\ job' = [job EXCEPT ![j].at = "group", ![j].old = old]
       /\ part' = [part EXCEPT ![j] = [u \in Users |->
                    [NoPart EXCEPT !.due = ripe \cap Of(u)]]]
       /\ copy' = [copy EXCEPT ![j] = [d \in Deposits |->
                    IF d \in due THEN row[d] ELSE NoRow]]
  /\ UNCHANGED <<chain, canister, tables, history, fresh>>

(* Rows too old are written back as expired, then each user is served.     *)
Expire(j) ==
  /\ job[j].at = "group"
  /\ IF job[j].old = {}
     THEN /\ job' = [job EXCEPT ![j].at = "sync"]
          /\ part' = [part EXCEPT ![j] = [u \in Users |->
               [part[j][u] EXCEPT !.at =
                  IF part[j][u].due = {} THEN "done" ELSE "before"]]]
          /\ UNCHANGED row
     ELSE /\ \E d \in job[j].old :
               /\ row' = [row EXCEPT ![d] = [copy[j][d] EXCEPT !.status = "expired"]]
               /\ job' = [job EXCEPT ![j].old = @ \ {d}]
          /\ UNCHANGED part
  /\ UNCHANGED <<chain, canister, cursor, known, history, copy, fresh>>

(* A call outside the parts of the users throws, or the job is killed.     *)
Abort(j) ==
  /\ job[j].at # "idle"
  /\ job' = [job EXCEPT ![j] = NoJob]
  /\ part' = [part EXCEPT ![j] = [u \in Users |-> NoPart]]
  /\ copy' = [copy EXCEPT ![j] = Forget(copy[j], Deposits)]
  /\ fresh' = [fresh EXCEPT ![j] = Forget(fresh[j], Deposits)]
  /\ UNCHANGED <<chain, canister, tables, history>>

-----------------------------------------------------------------------------
(* reconcileUserDepositsAfterSync: the balance before, the call of the     *)
(* canister, the balance after, the pending rows.                          *)
Before(j, u) ==
  /\ part[j][u].at = "before"
  /\ part' = [part EXCEPT ![j][u].at = "call", ![j][u].before = balance[u]]
  /\ UNCHANGED <<chain, canister, tables, history, job, copy, fresh>>

(* update_ckbtc_balance: the canister mints what has enough confirmations. *)
Mint(u) ==
  LET new == {d \in Of(u) \ minted :
                mined[d] > 0 /\ height - mined[d] + 1 >= MinterConfs}
  IN /\ minted' = minted \cup new
     /\ balance' = [balance EXCEPT ![u] =
          @ + MapThenSumSet(LAMBDA d : Value[d] - MintFee, new)]
     /\ UNCHANGED premiums

(* The call fails, before or after it had its effect, or succeeds.         *)
Call(j, u) ==
  /\ part[j][u].at = "call"
  /\ \/ Mint(u) /\ \E next \in {"after", "list"} :
                      part' = [part EXCEPT ![j][u].at = next]
     \/ UNCHANGED canister /\ part' = [part EXCEPT ![j][u].at = "list"]
  /\ UNCHANGED <<chain, tables, history, job, copy, fresh>>

After(j, u) ==
  /\ part[j][u].at = "after"
  /\ \E rise \in {0, IF balance[u] > part[j][u].before
                     THEN balance[u] - part[j][u].before ELSE 0} :
       part' = [part EXCEPT ![j][u].at = "list", ![j][u].rise = rise]
  /\ UNCHANGED <<chain, canister, tables, history, job, copy, fresh>>

List(j, u) ==
  /\ part[j][u].at = "list"
  /\ part' = [part EXCEPT ![j][u].at = "credit",
                          ![j][u].list = Pending \cap Of(u)]
  /\ fresh' = [fresh EXCEPT ![j] = [d \in Deposits |->
                 IF Owner[d] = u THEN row[d] ELSE fresh[j][d]]]
  /\ UNCHANGED <<chain, canister, tables, history, job, copy>>

(* The oldest pending deposits are credited until the rise is used up.     *)
Credit(j, u) ==
  LET p == part[j][u] IN
  /\ p.at = "credit" /\ p.rise > 0
  /\ \E d \in p.list :
       /\ \A e \in p.list : fresh[j][d].seen <= fresh[j][e].seen
       /\ row' = [row EXCEPT ![d] =
            [fresh[j][d] EXCEPT !.status = "credited", !.attempts = @ + 1]]
       /\ creditor' = [creditor EXCEPT ![d] = j]
       /\ part' = [part EXCEPT ![j][u].list = @ \ {d},
                    ![j][u].linked = @ \cup {d},
                    ![j][u].rise = IF @ > Value[d] THEN @ - Value[d] ELSE 0]
  /\ UNCHANGED <<chain, canister, cursor, known, skipped, job, copy, fresh>>

(* Fault: the rows just credited are counted as failed attempts too.       *)
EveryDue(j, u) == part[j][u].due

(* The due deposits that were not credited.                                *)
Uncredited(j, u) == part[j][u].due \ part[j][u].linked

CreditsDone(j, u) ==
  LET p == part[j][u] IN
  /\ p.at = "credit" /\ (p.rise = 0 \/ p.list = {})
  /\ part' = [part EXCEPT ![j][u].at = "retry",
                          ![j][u].list = Uncredited(j, u)]
  /\ fresh' = [fresh EXCEPT ![j] = Forget(fresh[j], Of(u))]
  /\ UNCHANGED <<chain, canister, tables, history, job, copy>>

(* They wait longer, or are given up, by the copy read when they were due; *)
(* the snapshot of the balances, which nothing reads, comes last.          *)
Retried(j, d) ==
  LET n == copy[j][d].attempts + 1 IN
  [copy[j][d] EXCEPT
    !.status = IF n >= MaxAttempts THEN "expired" ELSE "matured",
    !.attempts = n, !.next = job[j].now + Backoff(n)]

Retry(j, u) ==
  /\ part[j][u].at = "retry"
  /\ IF part[j][u].list = {}
     THEN part' = [part EXCEPT ![j][u].at = "done"] /\ UNCHANGED row
     ELSE \E d \in part[j][u].list :
            /\ row' = [row EXCEPT ![d] = Retried(j, d)]
            /\ part' = [part EXCEPT ![j][u].list = @ \ {d}]
  /\ copy' = [copy EXCEPT ![j] = Forget(copy[j], Of(u) \ part'[j][u].list)]
  /\ UNCHANGED <<chain, canister, cursor, known, history, job, fresh>>

(* Fault: the cursor is saved whatever failed.                             *)
SavedAnyway(j) == job[j].tip

SavedCursor(j) == IF job[j].failed THEN cursor ELSE job[j].tip

Finish(j) ==
  /\ job[j].at = "sync" /\ AllDone(j)
  /\ cursor' = SavedCursor(j)
  /\ job' = [job EXCEPT ![j] = NoJob]
  /\ part' = [part EXCEPT ![j] = [u \in Users |-> NoPart]]
  /\ UNCHANGED <<chain, canister, row, known, history, copy, fresh>>

-----------------------------------------------------------------------------
(* The rest of the world: blocks, time, the user's own "sync" (the same    *)
(* call, outside any job), premiums received.                              *)
Block ==
  /\ height < MaxHeight
  /\ height' = height + 1
  /\ \E new \in SUBSET {d \in Deposits : mined[d] = 0} :
       mined' = [d \in Deposits |-> IF d \in new THEN height' ELSE mined[d]]
  /\ UNCHANGED <<now, canister, tables, history, locals>>

Tick ==
  /\ now < Horizon
  /\ now' = now + 1
  /\ UNCHANGED <<height, mined, canister, tables, history, locals>>

SyncBalance(u) ==
  /\ Mint(u)
  /\ minted' # minted
  /\ UNCHANGED <<chain, tables, history, locals>>

Premium(u) ==
  /\ \E p \in premiums : /\ premiums' = premiums \ {p}
                         /\ balance' = [balance EXCEPT ![u] = @ + p]
  /\ UNCHANGED <<chain, minted, tables, history, locals>>

UserStep(j, u) ==
  \/ Fetch(j, u) \/ Read(j, u) \/ Write(j, u) \/ Throw(j, u)
  \/ Before(j, u) \/ Call(j, u) \/ After(j, u) \/ List(j, u)
  \/ Credit(j, u) \/ CreditsDone(j, u) \/ Retry(j, u)

Next ==
  \/ Block \/ Tick
  \/ \E u \in Users : SyncBalance(u) \/ Premium(u)
  \/ \E j \in Jobs :
       \/ Begin(j) \/ LoadCursor(j) \/ Group(j) \/ Expire(j) \/ Abort(j)
       \/ Finish(j)
       \/ \E u \in Users : UserStep(j, u)

Spec == Init /\ [][Next]_vars
-----------------------------------------------------------------------------
Row == [status : {"none", "matured", "credited", "expired"},
        confs : 0 .. MaxHeight, attempts : Nat, next : Nat, seen : 0 .. Horizon]

(* The shape of the variables.  The status "syncing" the schema allows is  *)
(* written by no code.                                                     *)
TypeOK ==
  /\ now \in 0 .. Horizon /\ height \in 0 .. MaxHeight
  /\ cursor \in 0 .. height
  /\ mined \in [Deposits -> 0 .. height] /\ minted \subseteq Deposits
  /\ balance \in [Users -> Nat] /\ premiums \subseteq Premiums
  /\ known \subseteq Users /\ skipped \subseteq Users
  /\ row \in [Deposits -> Row]
  /\ copy \in [Jobs -> [Deposits -> Row]] /\ fresh \in [Jobs -> [Deposits -> Row]]
  /\ creditor \in [Deposits -> Jobs \cup {Nobody}]
  /\ \A j \in Jobs :
       /\ job[j].at \in {"idle", "begun", "scan", "group", "sync"}
       /\ \A u \in Users : part[j][u].linked \cup part[j][u].due \subseteq Of(u)

(* The cursor stops further work on a block, so it may only stand at a     *)
(* block all of whose deposits are tracked, whichever job saved it and     *)
(* whatever failed on the way.  A user whose address no scan could resolve *)
(* is the exception: the code counts him as scanned.                       *)
NoDepositOverlooked ==
  \A d \in Deposits :
    mined[d] \in 1 .. cursor /\ Owner[d] \notin skipped => row[d].status # "none"

(* A job does not take back its own credit: that a deposit is credited is  *)
(* undone, if at all, by another job that read the row before.             *)
CreditSurvivesItsJob ==
  [][\A d \in Deposits, j \in Jobs :
       (row[d].status = "credited" /\ creditor[d] = j /\ row'[d] # row[d])
         => job'[j] = job[j] /\ part'[j] = part[j]]_vars

(* The documentation gives as the reason why a deposit is pending that it  *)
(* needs its confirmations first: a deposit that has left the list of the  *)
(* pending ones, being credited, has them.                                 *)
PendingUntilConfirmed ==
  \A d \in Deposits :
    row[d].status = "credited" => height - mined[d] + 1 >= MinterConfs
=============================================================================
