----------------------------- MODULE XrcArchive -----------------------------
(***************************************************************************)
(* What the web application makes of the canister's cache of rates: the    *)
(* cron job sync-xrc-price copies the latest rate to the table             *)
(* xrc_btc_usd_snapshots.  It asks with a query, which a replica that is   *)
(* behind may answer, and takes no lock: two jobs may run side by side.    *)
(* The cache is that of module Oracle: settlements store rates of the      *)
(* past in it, and the daily cleanup takes rates out.                      *)
(***************************************************************************)
EXTENDS Oracle, Sequences

CONSTANTS Jobs,     \* runs of the cron job that may overlap
          MaxRows   \* bound on the rows written

VARIABLES rows,     \* the table, by id, with how each row came to be
          jobs,     \* what each job has read
          latests   \* the latest rates the cache has had

archiveVars == <<rows, jobs>>
allVars == <<now, rates, calls, rows, jobs, latests>>

(* begun: how many rows there were when the job was told what was then the
   latest rate, none if a replica that was behind answered; seen: how many
   when it read the last one. *)
NoJob == [at |-> "idle", candidate |-> None, begun |-> 0, seen |-> 0]

(* get_latest_xrc_btc_usd_rate: the row with the largest key. *)
LatestRate == IF rates = {} THEN None ELSE Max(rates)

ArchiveInit ==
    /\ Init
    /\ rows = <<>>
    /\ jobs = [j \in Jobs |-> NoJob]
    /\ latests = {LatestRate}

(* The job asks the canister, which answers as of now or of some time ago;
   an empty cache ends the job. *)
ReadRate(j) ==
    /\ jobs[j].at = "idle"
    /\ Len(rows) < MaxRows
    /\ \E r \in latests \ {None} :
         jobs' = [jobs EXCEPT ![j] =
             [NoJob EXCEPT !.at = "rate", !.candidate = r,
                           !.begun = IF r = LatestRate THEN Len(rows) ELSE 0]]
    /\ UNCHANGED <<vars, rows, latests>>

(* Fault: nothing is compared. *)
ReadLastRowBlindly(j) ==
    /\ jobs[j].at = "rate"
    /\ jobs' = [jobs EXCEPT ![j].at = "row", ![j].seen = Len(rows)]
    /\ UNCHANGED <<vars, rows, latests>>

(* Then it reads the row with the largest id; the same timestamp ends it. *)
ReadLastRow(j) ==
    /\ jobs[j].at = "rate"
    /\ jobs' = [jobs EXCEPT ![j] =
          IF rows # <<>> /\ rows[Len(rows)].rate = jobs[j].candidate THEN NoJob
          ELSE [@ EXCEPT !.at = "row", !.seen = Len(rows)]]
    /\ UNCHANGED <<vars, rows, latests>>

(* insertSnapshot *)
InsertRow(j) ==
    /\ jobs[j].at = "row"
    /\ Len(rows) < MaxRows
    /\ rows' = Append(rows, [rate |-> jobs[j].candidate, begun |-> jobs[j].begun,
                             seen |-> jobs[j].seen])
    /\ jobs' = [jobs EXCEPT ![j] = NoJob]
    /\ UNCHANGED <<vars, latests>>

(* A read or the insert fails. *)
JobFails(j) ==
    /\ jobs[j].at # "idle"
    /\ jobs' = [jobs EXCEPT ![j] = NoJob]
    /\ UNCHANGED <<vars, rows, latests>>

ArchiveNext ==
    \/ Next /\ latests' = latests \union {LatestRate'} /\ UNCHANGED archiveVars
    \/ \E j \in Jobs : ReadRate(j) \/ ReadLastRow(j) \/ InsertRow(j) \/ JobFails(j)

ArchiveSpec == ArchiveInit /\ [][ArchiveNext]_allVars

-----------------------------------------------------------------------------
(* Rows and candidates are rates. *)
ArchiveTypeOK ==
    /\ rows \in Seq([rate : Times, begun : 0..MaxRows, seen : 0..MaxRows])
    /\ Len(rows) <= MaxRows
    /\ jobs \in [Jobs -> [at : {"idle", "rate", "row"}, candidate : Times \union {None},
                          begun : 0..MaxRows, seen : 0..MaxRows]]
    /\ latests \subseteq Times \union {None}

(* Settlements store old rates after newer ones and the cleanup empties the
   cache from below; a row is still no older than another unless its job
   asked before that one was there, or asked a replica that was behind, as
   long as the options are settled within a week.  It is the same as another
   only if its job did not read that one as the last. *)
RowsStepBackForAReason ==
    \A k, i \in 1..Len(rows) : k < i =>
        /\ rows[i].rate = rows[k].rate => rows[i].seen # k
        /\ now <= Expiry + Kept /\ rows[i].rate < rows[k].rate =>
               rows[i].begun < k

(* A row is newer than the one before.  It is not: no lock keeps two jobs
   apart, and only the same timestamp keeps a row out. *)
RowsAdvance ==
    \A i \in 1..Len(rows) - 1 : rows[i].rate < rows[i + 1].rate
=============================================================================
