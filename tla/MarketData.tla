----------------------------- MODULE MarketData -----------------------------
(***************************************************************************)
(* The cron job sync-market-data (lib/use-cases/market/sync-market-data,   *)
(* lib/market/coinbase-client.ts, drizzle-market-data.repository.ts).  It  *)
(* is started every minute, nothing keeps two from running together, every *)
(* await may fail, and what it saved before that stays.                    *)
(*                                                                         *)
(* Time counts hours; several jobs may run within one.  A price or candle  *)
(* is the time it was quoted at: the candle of the current hour is not the *)
(* one the hour ends with.                                                 *)
(***************************************************************************)
EXTENDS Integers, Sequences, FiniteSets, FiniteSetsExt

CONSTANTS Jobs,          \* jobs that may run at a time
          HistoryHours,  \* DEFAULT_BTC_HISTORY_DAYS
          WindowSpan,    \* COINBASE_CANDLES_PER_REQUEST_WITH_MARGIN
          MaxCandles,    \* COINBASE_MAX_CANDLES_PER_REQUEST
          Batch,         \* SAVE_HISTORY_POINTS_BATCH_SIZE
          RefreshEvery,  \* HISTORY_REFRESH_INTERVAL_6_HOURS_MS
          Start,         \* the hour at which the first job may run
          Horizon,       \* bound on the time
          None

MarketAssumption ==
    /\ {HistoryHours, WindowSpan, MaxCandles, Batch, RefreshEvery, Start, Horizon}
         \subseteq Nat \ {0}
    /\ WindowSpan + 1 <= MaxCandles     \* 251 of 300
    /\ HistoryHours <= Start
    /\ None \notin Nat

VARIABLES now,
          price,    \* the row of btc_current_price
          history,  \* btc_history_points: hour -> quote
          jobs

vars == <<now, price, history, jobs>>

Idle == [at |-> "idle", nowMs |-> 0, due |-> FALSE, quoted |-> 0,
         end |-> 0, window |-> 0, quotes |-> <<>>, saved |-> 0]

Init ==
    /\ now = Start
    /\ price = None
    /\ history = <<>>
    /\ jobs = [j \in Jobs |-> Idle]

(* getLatestBtcHistoryUpdatedAtMs *)
LatestUpdatedAt == IF history = <<>> THEN None
                   ELSE Max({history[h].updatedAt : h \in DOMAIN history})

ShouldRefresh(latest, t) == latest = None \/ t - latest >= RefreshEvery

(* The clock is read before anything else. *)
Begin(j) ==
    /\ jobs[j].at = "idle"
    /\ jobs' = [jobs EXCEPT ![j].at = "read", ![j].nowMs = now]
    /\ UNCHANGED <<now, price, history>>

Read(j) ==
    /\ jobs[j].at = "read"
    /\ jobs' = [jobs EXCEPT ![j].at = "quote",
                            ![j].due = ShouldRefresh(LatestUpdatedAt, jobs[j].nowMs)]
    /\ UNCHANGED <<now, price, history>>

(* The ticker answers; the candles up to now are asked for if they are due. *)
Quote(j) ==
    /\ jobs[j].at = "quote"
    /\ jobs' = [jobs EXCEPT ![j].at = IF jobs[j].due THEN "candles" ELSE "save",
                            ![j].quoted = now, ![j].end = now]
    /\ UNCHANGED <<now, price, history>>

(* buildCandleRequestWindowsSeconds: the n-th window from start to end; each
   begins where the last one ended. *)
WindowAt(start, end, n) ==
    start + n * WindowSpan .. Min({start + (n + 1) * WindowSpan, end})

(* The windows are fetched one after the other; a candle a later window has
   too replaces the earlier one. *)
Candles(j) ==
    /\ jobs[j].at = "candles"
    /\ LET start  == jobs[j].end - HistoryHours
           hours  == WindowAt(start, jobs[j].end, jobs[j].window)
           quotes == [h \in DOMAIN jobs[j].quotes \union hours |->
                         IF h \in hours THEN now ELSE jobs[j].quotes[h]]
           last   == start + (jobs[j].window + 1) * WindowSpan >= jobs[j].end
       IN /\ Cardinality(hours) <= MaxCandles
          /\ ~last \/ quotes # <<>>
          /\ jobs' = [jobs EXCEPT ![j].quotes = quotes,
                                  ![j].window = @ + 1,
                                  ![j].at = IF last THEN "save" ELSE "candles"]
    /\ UNCHANGED <<now, price, history>>

(* Fault: the time of the save is written. *)
SavePriceStamped(j) ==
    /\ jobs[j].at = "save"
    /\ price' = [quoted |-> jobs[j].quoted, updatedAt |-> now]
    /\ jobs' = [jobs EXCEPT ![j] = IF jobs[j].due THEN [@ EXCEPT !.at = "points"] ELSE Idle]
    /\ UNCHANGED <<now, history>>

(* saveCurrentBtcPrice: one row, replaced whatever it holds. *)
SavePrice(j) ==
    /\ jobs[j].at = "save"
    /\ price' = [quoted |-> jobs[j].quoted, updatedAt |-> jobs[j].nowMs]
    /\ jobs' = [jobs EXCEPT ![j] = IF jobs[j].due THEN [@ EXCEPT !.at = "points"] ELSE Idle]
    /\ UNCHANGED <<now, history>>

(* The hours of a batch, in ascending order. *)
BatchHours(quotes, saved) ==
    {h \in DOMAIN quotes :
        Cardinality({g \in DOMAIN quotes : g < h}) \in saved..saved + Batch - 1}

(* saveBtcHistoryPoints: one statement per batch. *)
SavePoints(j) ==
    /\ jobs[j].at = "points"
    /\ LET quotes == jobs[j].quotes
           hours  == BatchHours(quotes, jobs[j].saved)
       IN /\ history' = [h \in DOMAIN history \union hours |->
                            IF h \in hours
                            THEN [quoted |-> quotes[h], updatedAt |-> jobs[j].nowMs]
                            ELSE history[h]]
          /\ jobs' = [jobs EXCEPT ![j] =
                 IF jobs[j].saved + Batch >= Cardinality(DOMAIN quotes) THEN Idle
                 ELSE [jobs[j] EXCEPT !.saved = @ + Batch]]
    /\ UNCHANGED <<now, price>>

(* A request or a statement fails, or the worker is stopped. *)
Fail(j) ==
    /\ jobs[j].at # "idle"
    /\ jobs' = [jobs EXCEPT ![j] = Idle]
    /\ UNCHANGED <<now, price, history>>

(* Time passes; a job lasts less than two hours. *)
Tick ==
    /\ now < Horizon
    /\ \A j \in Jobs : jobs[j].at # "idle" => jobs[j].nowMs = now
    /\ now' = now + 1
    /\ UNCHANGED <<price, history, jobs>>

(* getBtcHistory: what a reader of the history gets at time t. *)
HistorySince(t) == {h \in DOMAIN history : h >= t - HistoryHours}

Step(j) == Begin(j) \/ Read(j) \/ Quote(j) \/ Candles(j) \/ SavePrice(j)
           \/ SavePoints(j) \/ Fail(j)

Next == Tick \/ \E j \in Jobs : Step(j)

Spec == Init /\ [][Next]_vars

-----------------------------------------------------------------------------
Hours == 0..Horizon
Row == [quoted : Hours, updatedAt : Hours]

(* Every field has its type. *)
TypeOK ==
    /\ now \in Hours
    /\ price \in Row \union {None}
    /\ DOMAIN history \subseteq Hours /\ \A h \in DOMAIN history : history[h] \in Row
    /\ \A j \in Jobs :
         /\ jobs[j].at \in {"idle", "read", "quote", "candles", "save", "points"}
         /\ jobs[j].due \in BOOLEAN
         /\ {jobs[j].nowMs, jobs[j].quoted, jobs[j].end} \subseteq Hours
         /\ jobs[j].saved = 0 \/ jobs[j].saved < Cardinality(DOMAIN jobs[j].quotes)

(* Jobs overlap, fail between two batches and overwrite each other's rows:
   no row claims to be newer than what it holds. *)
RowsAreNoOlderThanTheySay ==
    /\ price # None => price.quoted >= price.updatedAt
    /\ \A h \in DOMAIN history : history[h].quoted >= history[h].updatedAt

(* What a reader gets has no hole: a job that failed half way left the hours
   before its last batch. *)
HistoryHasNoHole ==
    LET seen == HistorySince(now) IN
    seen # {} => seen = Min(seen)..Max(seen)

(* A history that was saved to its end covers every hour asked for: the
   windows leave none out. *)
NothingIsLeftOut ==
    \A j \in Jobs : jobs[j].at = "points" =>
        DOMAIN jobs[j].quotes = jobs[j].end - HistoryHours .. jobs[j].end

(* A refresh is skipped only while the history reaches the refresh interval.
   It does not: the first batch of a refresh that failed counts. *)
SkippedOnlyIfFresh ==
    \A j \in Jobs : jobs[j].at = "quote" /\ ~jobs[j].due =>
        Max(DOMAIN history) > jobs[j].nowMs - RefreshEvery
=============================================================================
