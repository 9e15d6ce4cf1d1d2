---------------------------- MODULE LogShipping ----------------------------
(***************************************************************************)
(* The canister's log buffers (crates/logging) and the cron job that ships *)
(* their entries to the telemetry service (api/cron/ship-canister-logs).   *)
(*                                                                         *)
(* There is one buffer for each priority, on the heap: it drops its oldest *)
(* entry when it is full, and an upgrade empties it.  The job goes on from *)
(* a cursor, the second and the counter of the last entry it shipped; it   *)
(* has no lock, so jobs overlap, and a worker may be killed at any await.  *)
(***************************************************************************)
EXTENDS Integers, FiniteSets, FiniteSetsExt, Sequences, SequencesExt

CONSTANTS
  Jobs,          \* jobs that may run at the same time
  Priorities,
  Capacity,      \* LOG_PRIORITY_CAPACITY: 1000
  Limit,         \* the job's limit and the endpoint's maximum: 5000
  DefaultLimit,  \* of a request that names none: 1000
  Lookback,      \* CURSOR_LOOKBACK_SECONDS: 300
  MaxEntries, MaxNow, MaxUpgrades, MaxKills   \* bounds of the model

LogShippingAssumption ==
  /\ {Capacity, Limit, DefaultLimit} \subseteq Nat \ {0}
  /\ {Lookback, MaxEntries, MaxNow, MaxUpgrades, MaxKills} \subseteq Nat
  /\ IsFiniteSet(Priorities) /\ Cardinality(Priorities) * Capacity < Limit

VARIABLES
  buffer,     \* Priorities -> sequence of [id, sec, counter]
  last,       \* id of the last entry logged; a history variable
  counter, now,
  upgraded,   \* seconds in which an upgrade fell
  cursor,     \* [sec, counter] of the last entry shipped
  shipped,    \* how often each entry was shipped, at most twice
  job,        \* of each job: [at, from, entries]
  kills

canister == <<buffer, last, counter, upgraded>>
vars == <<canister, now, cursor, shipped, job, kills>>

NoCursor == [sec |-> 0, counter |-> 0]
Idle == [at |-> "idle", from |-> NoCursor, entries |-> <<>>]

Precedes(d, e) == d.sec < e.sec \/ (d.sec = e.sec /\ d.counter < e.counter)
Exported == UNION {ToSet(buffer[p]) : p \in Priorities}

Init ==
  /\ buffer = [p \in Priorities |-> <<>>]
  /\ last = 0 /\ counter = 0 /\ now = 0 /\ upgraded = {} /\ kills = 0
  /\ cursor = NoCursor
  /\ shipped = [i \in 1 .. MaxEntries |-> 0]
  /\ job = [j \in Jobs |-> Idle]

-----------------------------------------------------------------------------
(* The canister.                                                           *)

Log(p) ==
  LET entry == [id |-> last + 1, sec |-> now, counter |-> counter + 1]
      kept == IF Len(buffer[p]) < Capacity THEN buffer[p] ELSE Tail(buffer[p])
  IN
  /\ last < MaxEntries
  /\ buffer' = [buffer EXCEPT ![p] = Append(kept, entry)]
  /\ last' = last + 1 /\ counter' = counter + 1
  /\ UNCHANGED <<upgraded, now, cursor, shipped, job, kills>>

Upgrade ==
  /\ Cardinality(upgraded) < MaxUpgrades
  /\ buffer' = [p \in Priorities |-> <<>>] /\ counter' = 0
  /\ upgraded' = upgraded \cup {now}
  /\ UNCHANGED <<last, now, cursor, shipped, job, kills>>

Tick ==
  /\ now < MaxNow
  /\ now' = now + 1
  /\ UNCHANGED <<canister, cursor, shipped, job, kills>>

-----------------------------------------------------------------------------
(* The job.                                                                *)
ReadCursor(j) ==
  /\ job[j].at = "idle"
  /\ job' = [job EXCEPT ![j] = [Idle EXCEPT !.at = "fetch", !.from = cursor]]
  /\ UNCHANGED <<canister, now, cursor, shipped, kills>>

Since(from) == IF from.sec < Lookback THEN 0 ELSE from.sec - Lookback

FirstOf(seq, n) == SubSeq(seq, 1, IF Len(seq) < n THEN Len(seq) ELSE n)

(* The k-th of the entries in order has k - 1 before it.                   *)
Matching(from, upTo) ==
  LET found == {e \in Exported : e.sec >= Since(from) /\ e.id <= upTo} IN
  [k \in 1 .. Cardinality(found) |->
     CHOOSE e \in found : Cardinality({d \in found : ~Precedes(e, d)}) = k]

(* build_logs_response_from_entries, by a replica that may be behind.      *)
Logs(from, upTo) == FirstOf(Matching(from, upTo), Limit)

IsAfterCursor(e, from) == Precedes(from, e)

(* filterAndSortNewLogs: the answer is in order, so it keeps the last.     *)
AfterCursor(seq, from) ==
  SubSeq(seq, Cardinality({k \in DOMAIN seq : ~IsAfterCursor(seq[k], from)}) + 1, Len(seq))

Fetch(j) ==
  /\ job[j].at = "fetch"
  /\ \E upTo \in 0 .. last :
       LET from == job[j].from
           new == AfterCursor(Logs(from, upTo), from)
       IN job' = [job EXCEPT ![j] =
            IF new = <<>> THEN Idle ELSE [@ EXCEPT !.at = "ship", !.entries = new]]
  /\ UNCHANGED <<canister, now, cursor, shipped, kills>>

(* shipCanisterLogs awaits one entry after the other.                      *)
Ship(j) ==
  /\ job[j].at = "ship"
  /\ shipped' = [shipped EXCEPT ![Head(job[j].entries).id] = IF @ < 2 THEN @ + 1 ELSE 2]
  /\ job' = [job EXCEPT ![j] =
       IF Len(@.entries) = 1 THEN [@ EXCEPT !.at = "save"] ELSE [job[j] EXCEPT !.entries = Tail(@)]]
  /\ UNCHANGED <<canister, now, cursor, kills>>

(* resolveNextCursor, writeShipCursor.                                     *)
WriteCursor(j) ==
  LET latest == Head(job[j].entries) IN
  /\ job[j].at = "save"
  /\ cursor' = [sec |-> latest.sec, counter |-> latest.counter]
  /\ job' = [job EXCEPT ![j] = Idle]
  /\ UNCHANGED <<canister, now, shipped, kills>>

(* A request fails, or the worker is killed.                               *)
Stop(j) ==
  /\ job[j].at # "idle" /\ kills < MaxKills
  /\ kills' = kills + 1
  /\ job' = [job EXCEPT ![j] = Idle]
  /\ UNCHANGED <<canister, now, cursor, shipped>>

JobStep(j) == ReadCursor(j) \/ Fetch(j) \/ Ship(j) \/ WriteCursor(j)

Next ==
  \/ \E p \in Priorities : Log(p)
  \/ Upgrade \/ Tick
  \/ \E j \in Jobs : JobStep(j) \/ Stop(j)

Spec == Init /\ [][Next]_vars

(* The cron job is triggered every minute; a replica that is behind        *)
(* catches up.                                                             *)
FetchAll(j) ==
  LET from == job[j].from IN
  /\ Fetch(j)
  /\ job'[j].entries = AfterCursor(Logs(from, last), from)

FairSpec == Spec /\ \A j \in Jobs : WF_vars(JobStep(j)) /\ SF_vars(FetchAll(j))
-----------------------------------------------------------------------------
TypeOK ==
  /\ \A p \in Priorities : Len(buffer[p]) <= Capacity
  /\ \A e \in Exported : e.id \in 1 .. last /\ e.sec \in 0 .. now /\ e.counter \in 1 .. counter
  /\ cursor \in [sec : 0 .. MaxNow, counter : 0 .. MaxEntries]
  /\ shipped \in [1 .. MaxEntries -> 0 .. 2]
  /\ \A j \in Jobs :
       /\ job[j].at \in {"idle", "fetch", "ship", "save"}
       /\ job[j].at \in {"ship", "save"} <=> job[j].entries # <<>>

(* The cursor passes over nothing: an entry the canister still keeps at or *)
(* before it was shipped, except those of a second an upgrade fell in,     *)
(* which restarts the counter.                                             *)
NothingIsPassedOver ==
  \A e \in Exported :
    ~Precedes(cursor, e) /\ e.sec \notin upgraded => shipped[e.id] > 0

(* No entry stays in the buffer unshipped for ever, upgrades aside: the    *)
(* oldest entries of the lookback never fill a whole answer.               *)
EveryEntryIsShipped ==
  \A i \in 1 .. MaxEntries :
    (\E e \in Exported : e.id = i /\ e.sec \notin upgraded)
      ~> (shipped[i] > 0 \/ \A e \in Exported : e.id # i)
=============================================================================
