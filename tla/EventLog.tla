------------------------------ MODULE EventLog ------------------------------
(***************************************************************************)
(* The canister's event log (storage/events.rs) and its copy in the web    *)
(* application's database (sync-events, the events repository), which the  *)
(* users' trading history is read from.                                    *)
(*                                                                         *)
(* A sync is cut at its awaits: the latest id stored, the query, then one  *)
(* batch of rows after the other.  The cron job has no lock and the same   *)
(* use case is an open mutation of the web API (events.syncAll), so syncs  *)
(* overlap; a worker may be killed between any two of its steps.           *)
(***************************************************************************)
EXTENDS Naturals, FiniteSets, FiniteSetsExt, Sequences, SequencesExt

CONSTANTS
  Syncs,            \* syncs that may run at the same time
  Users,
  Limit,            \* events a query may ask for and is given at most: 1000
  Batch,            \* SAVE_EVENTS_BATCH_SIZE: 500
  HistoryLimit,     \* events the history looks at: 1000
  Week, Day,        \* in seconds
  NanosPerSecond,   \* 10^9; a bound of the model
  MaxEvents, MaxNow, MaxKills   \* bounds of the model

ASSUME EventLogAssumption ==
  /\ {Limit, Batch, HistoryLimit, Day, NanosPerSecond} \subseteq Nat \ {0}
  /\ {Week, MaxEvents, MaxNow, MaxKills} \subseteq Nat

VARIABLES
  emitted,   \* every event ever, in the order of the ids: [who, kind, at]
  log,       \* ids in EVENTS
  now,       \* the clock, in seconds
  saved,     \* ids in the table events
  sync,      \* of each sync: [at, after, rows]
  kills

vars == <<emitted, log, now, saved, sync, kills>>

Kinds == {"OptionSettled", "other"}
Idle == [at |-> "idle", after |-> 0, rows |-> <<>>]

Init ==
  /\ emitted = <<>> /\ log = {} /\ saved = {}
  /\ now = 0 /\ kills = 0
  /\ sync = [s \in Syncs |-> Idle]

-----------------------------------------------------------------------------
(* The canister.                                                           *)
Emit(u, kind) ==
  /\ Len(emitted) < MaxEvents
  /\ emitted' = Append(emitted, [who |-> u, kind |-> kind, at |-> now])
  /\ log' = log \cup {Len(emitted) + 1}
  /\ UNCHANGED <<now, saved, sync, kills>>

(* Once a day; the clock is read in nanoseconds.                           *)
Cutoff ==
  LET nanos == now * NanosPerSecond
      week == Week * NanosPerSecond
  IN IF nanos > week THEN nanos - week ELSE 0

CleanUp ==
  /\ now % Day = 0
  /\ log' = {i \in log : emitted[i].at >= Cutoff}
  /\ UNCHANGED <<emitted, now, saved, sync, kills>>

Tick ==
  /\ now < MaxNow
  /\ now' = now + 1
  /\ UNCHANGED <<emitted, log, saved, sync, kills>>

-----------------------------------------------------------------------------
(* syncEventsFromCanister.                                                 *)

(* Fault: the first of the ids is taken for the latest.                    *)
FirstId(ids) == IF ids = {} THEN 0 ELSE Min(ids)

LatestId(ids) == IF ids = {} THEN 0 ELSE Max(ids)

Begin(s) ==
  /\ sync[s].at = "idle"
  /\ sync' = [sync EXCEPT ![s] = [Idle EXCEPT !.at = "query", !.after = LatestId(saved)]]
  /\ UNCHANGED <<emitted, log, now, saved, kills>>

(* The BTreeMap is iterated by key: the k-th id has k - 1 before it.       *)
Ascending(ids) ==
  [k \in 1 .. Cardinality(ids) |-> CHOOSE i \in ids : Cardinality({j \in ids : j <= i}) = k]
FirstOf(seq, n) == SubSeq(seq, 1, IF Len(seq) < n THEN Len(seq) ELSE n)

(* Fault: the newest events are returned first.                            *)
NewestEvents(after, upTo) ==
  FirstOf(Reverse(Ascending({i \in log : after < i /\ i <= upTo})), Limit)

(* get_all_events, as the replica that answers the query knows the log: it *)
(* may be behind.                                                          *)
AllEvents(after, upTo) ==
  FirstOf(Ascending({i \in log : after < i /\ i <= upTo}), Limit)

Query(s) ==
  /\ sync[s].at = "query"
  /\ \E upTo \in 0 .. Len(emitted) :
       LET rows == AllEvents(sync[s].after, upTo) IN
       sync' = [sync EXCEPT ![s] =
         IF rows = <<>> THEN Idle ELSE [@ EXCEPT !.at = "save", !.rows = rows]]
  /\ UNCHANGED <<emitted, log, now, saved, kills>>

(* saveEvents, one batch.                                                  *)
Save(s) ==
  LET rows == sync[s].rows
      rest == SubSeq(rows, Batch + 1, Len(rows))
  IN
  /\ sync[s].at = "save"
  /\ saved' = saved \cup ToSet(FirstOf(rows, Batch))
  /\ sync' = [sync EXCEPT ![s] = IF rest = <<>> THEN Idle ELSE [@ EXCEPT !.rows = rest]]
  /\ UNCHANGED <<emitted, log, now, kills>>

(* A call fails, or the worker is killed.                                  *)
Stop(s) ==
  /\ sync[s].at # "idle" /\ kills < MaxKills
  /\ kills' = kills + 1
  /\ sync' = [sync EXCEPT ![s] = Idle]
  /\ UNCHANGED <<emitted, log, now, saved>>

SyncStep(s) == Begin(s) \/ Query(s) \/ Save(s)

Next ==
  \/ \E u \in Users, kind \in Kinds : Emit(u, kind)
  \/ CleanUp \/ Tick
  \/ \E s \in Syncs : SyncStep(s) \/ Stop(s)

Spec == Init /\ [][Next]_vars

(* The cron job is triggered every minute, and a replica that is behind    *)
(* catches up.                                                             *)
CaughtUp(s) == Query(s) /\ \A i \in log : i > sync[s].after => sync'[s].at = "save"

FairSpec ==
  Spec /\ \A s \in Syncs : WF_vars(SyncStep(s)) /\ SF_vars(CaughtUp(s))
-----------------------------------------------------------------------------
(* getHistory: the settled trades among the events of a user that          *)
(* getEventsByPrincipal returns, which are his oldest.                     *)
EventsOf(u) == FirstOf(Ascending({i \in saved : emitted[i].who = u}), HistoryLimit)
History(u) == {i \in ToSet(EventsOf(u)) : emitted[i].kind = "OptionSettled"}

TypeOK ==
  /\ emitted \in Seq([who : Users, kind : Kinds, at : 0 .. MaxNow])
  /\ log \subseteq DOMAIN emitted /\ saved \subseteq DOMAIN emitted
  /\ now \in 0 .. MaxNow /\ kills \in 0 .. MaxKills
  /\ sync \in [Syncs -> [at : {"idle", "query", "save"}, after : 0 .. Len(emitted),
                         rows : Seq(DOMAIN emitted)]]
  /\ \A s \in Syncs : sync[s].at = "save" <=> sync[s].rows # <<>>

(* The id a sync goes on from hides nothing: whatever the canister still   *)
(* keeps up to the latest id stored has been stored, whatever overlaps and *)
(* wherever a sync was killed.                                             *)
NothingBehindTheCursorIsMissing ==
  \A i \in log : i <= LatestId(saved) => i \in saved

(* Every event is stored in the end, unless the canister drops it first.   *)
EveryEventIsCopied ==
  \A i \in 1 .. MaxEvents : i \in log ~> (i \in saved \/ i \notin log)

(* The timers' comment says that the cleanup deletes events older than a   *)
(* week: it deletes no younger one.                                        *)
YoungEventsAreKept ==
  [][\A i \in log \ log' : emitted[i].at + Week < now]_vars

(* The documentation says that History shows every settled trade a user    *)
(* has been part of.                                                       *)
HistoryShowsEveryTrade ==
  \A i \in saved :
    emitted[i].kind = "OptionSettled" => i \in History(emitted[i].who)
=============================================================================
