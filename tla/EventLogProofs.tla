--------------------------- MODULE EventLogProofs ---------------------------
(***************************************************************************)
(* Theorems about the copy of the event log: however many syncs overlap,   *)
(* whatever the replica that answers them knows, and wherever they are     *)
(* killed, no event the canister keeps is missing behind the cursor.  And  *)
(* about the other jobs: withdrawals leave the list for a reason, market   *)
(* data and the price table are no older than they say and without a hole, *)
(* no job undoes its own credit, and behind the cursors no deposit and no  *)
(* log entry is overlooked.                                                *)
(***************************************************************************)
EXTENDS CronJobs, SumProofs

(* A sync goes on from an id behind which nothing is missing.              *)
GoesOnFrom ==
  \A s \in Syncs : sync[s].at # "idle" =>
    \A i \in log : i <= sync[s].after => i \in saved

(* The rows a sync has still to store leave no gap: an event up to one of  *)
(* them is stored, or is that row or one before it.                        *)
RowsLeaveNoGap ==
  \A s \in Syncs : sync[s].at = "save" =>
    \A k \in DOMAIN sync[s].rows : \A i \in log : i <= sync[s].rows[k] =>
      i \in saved \/ \E j \in 1 .. k : sync[s].rows[j] = i

IInv == TypeOK /\ NothingBehindTheCursorIsMissing /\ GoesOnFrom /\ RowsLeaveNoGap

-----------------------------------------------------------------------------
(* Ids.                                                                    *)

(* The latest of some ids is one of them, and none is later.               *)
LEMMA LatestIsLargest ==
  ASSUME NEW n \in Nat, NEW ids \in SUBSET (1 .. n)
  PROVE  /\ LatestId(ids) \in 0 .. n
         /\ \A i \in ids : i <= LatestId(ids)
         /\ LatestId(ids) # 0 => LatestId(ids) \in ids
  <1>1. CASE ids = {}
    BY <1>1 DEF LatestId
  <1>2. CASE ids # {}
    <2>1. IsFiniteSet(1 .. n)
      BY FS_Interval
    <2>2. IsFiniteSet(ids)
      BY <2>1, FS_Subset
    <2>3. ids \in SUBSET Nat
      OBVIOUS
    <2>4. PICK x \in ids : \A y \in ids : x >= y
      BY <1>2, <2>2, <2>3, HasLargest
    <2>5. Max(ids) \in ids /\ \A y \in ids : Max(ids) >= y
      BY <2>4 DEF Max
    <2>6. LatestId(ids) = Max(ids)
      BY <1>2 DEF LatestId
    <2>7. Max(ids) \in 1 .. n
      BY <2>5
    <2>8. \A i \in ids : i \in Nat
      OBVIOUS
    <2>9. QED
      BY <2>5, <2>6, <2>7, <2>8
  <1>3. QED
    BY <1>1, <1>2

(* The ids in ascending order: all of them, none twice, smaller ones       *)
(* first.  The number of ids up to one of them is its place, since larger  *)
(* ids have larger numbers, and there are as many places as ids.           *)
LEMMA AscendingOrder ==
  ASSUME NEW ids \in SUBSET Nat, IsFiniteSet(ids)
  PROVE  /\ Ascending(ids) \in Seq(ids)
         /\ \A i \in ids : \E k \in DOMAIN Ascending(ids) : Ascending(ids)[k] = i
         /\ \A j, k \in DOMAIN Ascending(ids) :
              Ascending(ids)[j] <= Ascending(ids)[k] => j <= k
  BY NumbersByRank DEF Ascending, Ranked

(* The first rows of a sequence are its first rows.                        *)
LEMMA FirstRows ==
  ASSUME NEW S, NEW seq \in Seq(S), NEW n \in Nat
  PROVE  /\ FirstOf(seq, n) \in Seq(S)
         /\ \A k : k \in DOMAIN FirstOf(seq, n) <=> k \in DOMAIN seq /\ k <= n
         /\ \A k \in DOMAIN FirstOf(seq, n) : FirstOf(seq, n)[k] = seq[k]
  <1>1. CASE Len(seq) < n
    BY <1>1 DEF FirstOf
  <1>2. CASE ~ (Len(seq) < n)
    BY <1>2 DEF FirstOf
  <1>3. QED
    BY <1>1, <1>2

(* The first rows of an ordered sequence leave out nothing before them.    *)
LEMMA FirstOfOrdered ==
  ASSUME NEW ids \in SUBSET Nat, NEW seq \in Seq(ids),
         \A i \in ids : \E k \in DOMAIN seq : seq[k] = i,
         \A j, k \in DOMAIN seq : seq[j] <= seq[k] => j <= k,
         NEW n \in Nat, NEW k \in DOMAIN FirstOf(seq, n),
         NEW i \in ids, i <= FirstOf(seq, n)[k]
  PROVE  \E j \in 1 .. k : FirstOf(seq, n)[j] = i
  <1>0. /\ \A x : x \in DOMAIN FirstOf(seq, n) <=> x \in DOMAIN seq /\ x <= n
        /\ \A x \in DOMAIN FirstOf(seq, n) : FirstOf(seq, n)[x] = seq[x]
    BY FirstRows, ZenonT(40)
  <1>1. k \in DOMAIN seq /\ k <= n /\ k \in Nat /\ i <= seq[k]
    BY <1>0
  <1>2. PICK j \in DOMAIN seq : seq[j] = i
    OBVIOUS
  <1>3. j <= k /\ j \in Nat /\ 1 <= j
    BY <1>1, <1>2
  <1>4. j <= n
    BY <1>1, <1>3
  <1>5. j \in DOMAIN FirstOf(seq, n) /\ FirstOf(seq, n)[j] = i
    BY <1>0, <1>2, <1>4
  <1>6. QED
    BY <1>1, <1>3, <1>5

(* A sequence over a set is one over a larger set.                         *)
LEMMA SeqWidens ==
  ASSUME NEW S, NEW T, S \subseteq T, NEW seq \in Seq(S)
  PROVE  seq \in Seq(T) /\ \A k \in DOMAIN seq : seq[k] \in S
  <1>1. Len(seq) \in Nat /\ seq \in [1 .. Len(seq) -> S]
    OBVIOUS
  <1>2. seq \in [1 .. Len(seq) -> T]
    BY <1>1
  <1>3. QED
    BY <1>1, <1>2

(* What a query returns are events of the log after the cursor; between    *)
(* the cursor and each of them none is left out.                           *)
LEMMA RowsOfQuery ==
  ASSUME TypeOK, NEW after \in Nat, NEW upTo \in Nat
  PROVE  /\ AllEvents(after, upTo) \in Seq(DOMAIN emitted)
         /\ \A k \in DOMAIN AllEvents(after, upTo) : \A i \in log :
              after < i /\ i <= AllEvents(after, upTo)[k] =>
                \E j \in 1 .. k : AllEvents(after, upTo)[j] = i
  <1> DEFINE ids == {i \in log : after < i /\ i <= upTo}
             seq == Ascending(ids)
  <1>1. ids \in SUBSET Nat /\ IsFiniteSet(ids) /\ ids \subseteq DOMAIN emitted
    <2>1. DOMAIN emitted = 1 .. Len(emitted) /\ Len(emitted) \in Nat /\ log \subseteq DOMAIN emitted
      BY DEF TypeOK
    <2>2. IsFiniteSet(1 .. Len(emitted))
      BY <2>1, FS_Interval
    <2>3. ids \subseteq 1 .. Len(emitted)
      BY <2>1
    <2> HIDE DEF ids
    <2>4. IsFiniteSet(ids)
      BY <2>2, <2>3, FS_Subset
    <2>5. QED
      BY <2>1, <2>3, <2>4
  <1>2. /\ seq \in Seq(ids)
        /\ \A i \in ids : \E k \in DOMAIN seq : seq[k] = i
        /\ \A j, k \in DOMAIN seq : seq[j] <= seq[k] => j <= k
    <2> HIDE DEF ids
    <2>1. QED
      BY <1>1, AscendingOrder
  <1>3. AllEvents(after, upTo) = FirstOf(seq, Limit) /\ Limit \in Nat
    BY EventLogAssumption DEF AllEvents
  <1>4. \A i \in log : after < i /\ i <= upTo => i \in ids
    OBVIOUS
  <1>5. \A i \in ids : i \in Nat /\ i <= upTo
    BY <1>1
  <1> HIDE DEF seq, ids
  <1>6. FirstOf(seq, Limit) \in Seq(ids)
    BY <1>2, <1>3, FirstRows
  <1>7. /\ FirstOf(seq, Limit) \in Seq(DOMAIN emitted)
        /\ \A k \in DOMAIN FirstOf(seq, Limit) : FirstOf(seq, Limit)[k] \in ids
    BY <1>1, <1>6, SeqWidens
  <1>8. ASSUME NEW k \in DOMAIN FirstOf(seq, Limit), NEW i \in log, after < i,
               i <= FirstOf(seq, Limit)[k]
        PROVE  \E j \in 1 .. k : FirstOf(seq, Limit)[j] = i
    <2>1. FirstOf(seq, Limit)[k] \in Nat /\ FirstOf(seq, Limit)[k] <= upTo
      BY <1>5, <1>7
    <2>2. i \in Nat
      BY DEF TypeOK
    <2>3. i <= upTo
      BY <1>8, <2>1, <2>2
    <2>4. i \in ids
      BY <1>4, <1>8, <2>3
    <2>5. QED
      BY <1>1, <1>2, <1>3, <1>8, <2>4, FirstOfOrdered, SMTT(30)
  <1>9. QED
    BY <1>3, <1>7, <1>8

-----------------------------------------------------------------------------
(* The steps.                                                              *)

(* At first nothing has happened, and nothing is stored.                   *)
LEMMA InitIsGood == Init => IInv
  <1> SUFFICES ASSUME Init PROVE IInv
    OBVIOUS
  <1>1. TypeOK
    BY EventLogAssumption DEF Init, TypeOK, Idle
  <1>2. QED
    BY <1>1 DEF Init, Idle, IInv, NothingBehindTheCursorIsMissing, GoesOnFrom, RowsLeaveNoGap

(* A record of a sync, with the rows it has to store.                      *)
LEMMA SyncAt ==
  ASSUME TypeOK, NEW s \in Syncs
  PROVE  /\ sync[s].after \in Nat /\ sync[s].after <= Len(emitted)
         /\ sync[s].rows \in Seq(DOMAIN emitted) /\ Len(emitted) \in Nat
         /\ DOMAIN emitted = 1 .. Len(emitted)
  BY DEF TypeOK

(* A new event comes after all that has been stored, asked for or read.    *)
LEMMA EmitKeeps == ASSUME IInv, NEW u \in Users, NEW kind \in Kinds, Emit(u, kind) PROVE IInv'
  <1> DEFINE n == Len(emitted)
             Event == [who : Users, kind : Kinds, at : 0 .. MaxNow]
  <1>1. TypeOK /\ n \in Nat /\ emitted \in Seq(Event) /\ DOMAIN emitted = 1 .. n
    BY DEF IInv, TypeOK
  <1>2. /\ log' = log \cup {n + 1}
        /\ emitted' = Append(emitted, [who |-> u, kind |-> kind, at |-> now])
        /\ UNCHANGED <<now, saved, sync, kills>>
    BY DEF Emit
  <1>3. [who |-> u, kind |-> kind, at |-> now] \in Event
    BY <1>1 DEF TypeOK
  <1>4. emitted' \in Seq(Event) /\ Len(emitted') = n + 1 /\ DOMAIN emitted' = 1 .. (n + 1)
    <2> HIDE DEF Event
    <2>1. QED
      BY <1>1, <1>2, <1>3
  <1>5. TypeOK'
    <2>1. ASSUME NEW s \in Syncs
          PROVE  sync[s] \in [at : {"idle", "query", "save"}, after : 0 .. Len(emitted'),
                              rows : Seq(DOMAIN emitted')]
      <3>1. sync[s] \in [at : {"idle", "query", "save"}, after : 0 .. n, rows : Seq(1 .. n)]
        BY <1>1 DEF TypeOK
      <3>2. sync[s].after \in 0 .. (n + 1) /\ sync[s].rows \in Seq(1 .. (n + 1))
        <4>1. sync[s].after \in 0 .. n /\ sync[s].rows \in Seq(1 .. n)
          BY <3>1
        <4>2. QED
          BY <1>1, <4>1
      <3>3. QED
        BY <1>4, <3>1, <3>2
    <2>2. sync' \in [Syncs -> [at : {"idle", "query", "save"}, after : 0 .. Len(emitted'),
                               rows : Seq(DOMAIN emitted')]]
      BY <1>1, <1>2, <2>1 DEF TypeOK
    <2>3. log' \subseteq DOMAIN emitted' /\ saved' \subseteq DOMAIN emitted'
      BY <1>1, <1>2, <1>4 DEF TypeOK
    <2>4. QED
      BY <1>1, <1>2, <1>4, <2>2, <2>3 DEF TypeOK
  <1>6. NothingBehindTheCursorIsMissing'
    <2>1. LatestId(saved) \in 0 .. n
      BY <1>1, LatestIsLargest DEF TypeOK
    <2>2. ~ (n + 1 <= LatestId(saved))
      BY <1>1, <2>1
    <2>3. QED
      BY <1>2, <2>2 DEF IInv, NothingBehindTheCursorIsMissing
  <1>7. GoesOnFrom'
    <2>1. \A s \in Syncs : ~ (n + 1 <= sync[s].after)
      BY <1>1, SyncAt
    <2>2. QED
      BY <1>2, <2>1 DEF IInv, GoesOnFrom
  <1>8. RowsLeaveNoGap'
    <2>1. ASSUME NEW s \in Syncs, NEW k \in DOMAIN sync[s].rows
          PROVE  ~ (n + 1 <= sync[s].rows[k])
      <3>1. sync[s].rows[k] \in 1 .. n
        BY <1>1, SyncAt, SMTT(30)
      <3>2. QED
        BY <1>1, <3>1
    <2>2. QED
      BY <1>2, <2>1 DEF IInv, RowsLeaveNoGap
  <1>9. QED
    BY <1>5, <1>6, <1>7, <1>8 DEF IInv

(* The cleanup takes from the log, and the clock concerns no id.           *)
LEMMA CanisterKeeps == ASSUME IInv, CleanUp \/ Tick PROVE IInv'
  <1>1. log' \subseteq log /\ now' \in 0 .. MaxNow /\ UNCHANGED <<emitted, saved, sync, kills>>
    BY EventLogAssumption DEF CleanUp, Tick, IInv, TypeOK
  <1>2. TypeOK'
    BY <1>1 DEF IInv, TypeOK
  <1>3. NothingBehindTheCursorIsMissing' /\ GoesOnFrom' /\ RowsLeaveNoGap'
    BY <1>1 DEF IInv, NothingBehindTheCursorIsMissing, GoesOnFrom, RowsLeaveNoGap
  <1>4. QED
    BY <1>2, <1>3 DEF IInv

(* One sync takes a new record, good in itself; the others and the canister *)
(* rest, and nothing that was stored is lost.                              *)
LEMMA RecordKeeps ==
  ASSUME IInv, NEW s \in Syncs, NEW r,
         r \in [at : {"idle", "query", "save"}, after : 0 .. Len(emitted),
                rows : Seq(DOMAIN emitted)],
         r.at = "save" <=> r.rows # <<>>,
         sync' = [sync EXCEPT ![s] = r], kills' \in 0 .. MaxKills,
         UNCHANGED <<emitted, log, now>>,
         saved \subseteq saved', saved' \subseteq DOMAIN emitted,
         \A i \in log : i <= LatestId(saved') => i \in saved',
         r.at # "idle" => \A i \in log : i <= r.after => i \in saved',
         r.at = "save" => \A k \in DOMAIN r.rows : \A i \in log : i <= r.rows[k] =>
                            i \in saved' \/ \E j \in 1 .. k : r.rows[j] = i
  PROVE  IInv'
  <1>1. /\ sync' \in [Syncs -> [at : {"idle", "query", "save"}, after : 0 .. Len(emitted),
                                rows : Seq(DOMAIN emitted)]]
        /\ sync'[s] = r /\ \A x \in Syncs \ {s} : sync'[x] = sync[x]
    <2> DEFINE R == [at : {"idle", "query", "save"}, after : 0 .. Len(emitted),
                     rows : Seq(DOMAIN emitted)]
    <2>1. sync \in [Syncs -> R] /\ r \in R
      BY DEF IInv, TypeOK
    <2> HIDE DEF R
    <2>2. sync' \in [Syncs -> R] /\ sync'[s] = r /\ \A x \in Syncs \ {s} : sync'[x] = sync[x]
      BY <2>1
    <2>3. QED
      BY <2>2 DEF R
  <1>2. TypeOK'
    BY <1>1 DEF IInv, TypeOK
  <1>3. NothingBehindTheCursorIsMissing'
    BY DEF NothingBehindTheCursorIsMissing
  <1>4. GoesOnFrom'
    BY <1>1 DEF IInv, GoesOnFrom
  <1>5. RowsLeaveNoGap'
    <2>1. ASSUME NEW x \in Syncs, sync'[x].at = "save", NEW k \in DOMAIN sync'[x].rows,
                 NEW i \in log, i <= sync'[x].rows[k]
          PROVE  i \in saved' \/ \E j \in 1 .. k : sync'[x].rows[j] = i
      <3>1. CASE x = s
        BY <1>1, <2>1, <3>1
      <3>2. CASE x # s
        BY <1>1, <2>1, <3>2, SMTT(30) DEF IInv, RowsLeaveNoGap
      <3>3. QED
        BY <3>1, <3>2
    <2>2. QED
      BY <2>1 DEF RowsLeaveNoGap
  <1>6. QED
    BY <1>2, <1>3, <1>4, <1>5 DEF IInv

(* A sync that ends, or is killed, leaves what was stored.                 *)
LEMMA IdleKeeps ==
  ASSUME IInv, NEW s \in Syncs, sync' = [sync EXCEPT ![s] = Idle],
         kills' \in 0 .. MaxKills, UNCHANGED <<emitted, log, now, saved>>
  PROVE  IInv'
  <1>1. Idle \in [at : {"idle", "query", "save"}, after : 0 .. Len(emitted),
                  rows : Seq(DOMAIN emitted)]
    BY DEF Idle, IInv, TypeOK
  <1>2. Idle.at = "idle" /\ Idle.rows = <<>>
    BY DEF Idle
  <1>3. \A i \in log : i <= LatestId(saved') => i \in saved'
    BY DEF IInv, NothingBehindTheCursorIsMissing
  <1>4. saved \subseteq saved' /\ saved' \subseteq DOMAIN emitted
    BY DEF IInv, TypeOK
  <1> DEFINE r == Idle
  <1>5. r.at = "idle" /\ r.rows = <<>> /\ sync' = [sync EXCEPT ![s] = r]
    BY <1>2
  <1> HIDE DEF r
  <1>6. QED
    BY <1>1, <1>3, <1>4, <1>5, RecordKeeps DEF r

(* The latest id stored is the cursor of a sync that begins.               *)
LEMMA BeginKeeps == ASSUME IInv, NEW s \in Syncs, Begin(s) PROVE IInv'
  <1> DEFINE r == [Idle EXCEPT !.at = "query", !.after = LatestId(saved)]
  <1>1. r.at = "query" /\ r.rows = <<>> /\ r.after = LatestId(saved)
    BY DEF Idle
  <1>2. LatestId(saved) \in 0 .. Len(emitted)
    BY LatestIsLargest DEF IInv, TypeOK
  <1>3. sync' = [sync EXCEPT ![s] = r] /\ UNCHANGED <<emitted, log, now, saved, kills>>
    BY DEF Begin
  <1>4. r \in [at : {"idle", "query", "save"}, after : 0 .. Len(emitted),
               rows : Seq(DOMAIN emitted)]
    <2>1. Idle \in [at : {"idle", "query", "save"}, after : 0 .. Len(emitted),
                    rows : Seq(DOMAIN emitted)]
      BY DEF Idle, IInv, TypeOK
    <2>2. QED
      BY <1>2, <2>1
  <1> HIDE DEF r
  <1>6. \A i \in log : i <= LatestId(saved) => i \in saved
    BY DEF IInv, NothingBehindTheCursorIsMissing
  <1>7. kills' \in 0 .. MaxKills /\ saved' \subseteq DOMAIN emitted
    BY <1>3 DEF IInv, TypeOK
  <1>8. /\ r.at = "save" <=> r.rows # <<>>
        /\ saved \subseteq saved'
        /\ \A i \in log : i <= LatestId(saved') => i \in saved'
        /\ r.at # "idle" => \A i \in log : i <= r.after => i \in saved'
        /\ r.at # "save"
    BY <1>1, <1>3, <1>6
  <1>9. QED
    BY <1>3, <1>4, <1>7, <1>8, RecordKeeps

(* The answer of a query: between the cursor and each row none is left     *)
(* out, and behind the cursor all is stored.                               *)
LEMMA QueryKeeps == ASSUME IInv, NEW s \in Syncs, Query(s) PROVE IInv'
  <1>1. TypeOK /\ UNCHANGED <<emitted, log, now, saved, kills>> /\ sync[s].at = "query"
    BY DEF IInv, Query
  <1>2. PICK upTo \in 0 .. Len(emitted) :
          LET rows == AllEvents(sync[s].after, upTo) IN
          sync' = [sync EXCEPT ![s] =
            IF rows = <<>> THEN Idle ELSE [@ EXCEPT !.at = "save", !.rows = rows]]
    BY DEF Query
  <1> DEFINE a == sync[s].after
             rows == AllEvents(a, upTo)
             r == [sync[s] EXCEPT !.at = "save", !.rows = rows]
  <1>3. a \in Nat /\ upTo \in Nat /\ a \in 0 .. Len(emitted)
    BY <1>1, <1>2 DEF TypeOK
  <1>4. kills' \in 0 .. MaxKills
    BY <1>1 DEF TypeOK
  <1>5. CASE rows = <<>>
    <2>1. sync' = [sync EXCEPT ![s] = Idle]
      BY <1>1, <1>2, <1>5 DEF TypeOK
    <2>2. QED
      BY <1>1, <1>4, <2>1, IdleKeeps
  <1>6. CASE rows # <<>>
    <2>1. sync' = [sync EXCEPT ![s] = r]
      BY <1>1, <1>2, <1>6 DEF TypeOK
    <2>2. sync[s] \in [at : {"idle", "query", "save"}, after : 0 .. Len(emitted),
                        rows : Seq(DOMAIN emitted)]
      BY <1>1 DEF TypeOK
    <2> HIDE DEF rows
    <2>6. r.at = "save" /\ r.rows = rows /\ r.after = a
      BY <2>2
    <2>3. rows \in Seq(DOMAIN emitted)
          /\ \A k \in DOMAIN rows : \A i \in log :
               a < i /\ i <= rows[k] => \E j \in 1 .. k : rows[j] = i
      <3> HIDE DEF a
      <3>1. QED
        BY <1>1, <1>3, RowsOfQuery DEF rows
    <2>4. \A i \in log : i <= a => i \in saved
      BY <1>1 DEF IInv, GoesOnFrom
    <2>5. r \in [at : {"idle", "query", "save"}, after : 0 .. Len(emitted),
                 rows : Seq(DOMAIN emitted)]
      BY <2>2, <2>3
    <2> HIDE DEF a, r
    <2>7. \A i \in log : i \in Nat
      BY <1>1 DEF TypeOK
    <2>8. \A k \in DOMAIN rows : \A i \in log : i <= rows[k] =>
            i \in saved \/ \E j \in 1 .. k : rows[j] = i
      BY <1>3, <2>3, <2>4, <2>7
    <2>9. /\ r.at = "save" <=> r.rows # <<>>
          /\ saved \subseteq saved' /\ saved' \subseteq DOMAIN emitted
          /\ \A i \in log : i <= LatestId(saved') => i \in saved'
          /\ r.at # "idle" => \A i \in log : i <= r.after => i \in saved'
          /\ r.at = "save" => \A k \in DOMAIN r.rows : \A i \in log : i <= r.rows[k] =>
                                i \in saved' \/ \E j \in 1 .. k : r.rows[j] = i
      BY <1>1, <1>6, <2>4, <2>6, <2>8 DEF IInv, TypeOK, NothingBehindTheCursorIsMissing
    <2>10. QED
      BY <1>1, <1>4, <2>1, <2>5, <2>9, RecordKeeps
  <1>7. QED
    BY <1>5, <1>6

(* What is left of a sequence after its first rows.                        *)
LEMMA OtherRows ==
  ASSUME NEW S, NEW seq \in Seq(S), NEW n \in Nat
  PROVE  /\ SubSeq(seq, n + 1, Len(seq)) \in Seq(S)
         /\ \A k \in DOMAIN SubSeq(seq, n + 1, Len(seq)) :
              k \in Nat /\ n + k \in DOMAIN seq /\ SubSeq(seq, n + 1, Len(seq))[k] = seq[n + k]
         /\ \A k \in Nat : k # 0 /\ n + k \in DOMAIN seq =>
              /\ k \in DOMAIN SubSeq(seq, n + 1, Len(seq))
              /\ SubSeq(seq, n + 1, Len(seq))[k] = seq[n + k]
  <1> DEFINE l == Len(seq)
             rest == SubSeq(seq, n + 1, l)
  <1>1. l \in Nat /\ DOMAIN seq = 1 .. l
    OBVIOUS
  <1>2. rest \in Seq(S)
    OBVIOUS
  <1>3. Len(rest) = IF n + 1 <= l THEN l - n ELSE 0
    BY <1>1
  <1>4. \A k \in 1 .. Len(rest) : rest[k] = seq[n + k]
    BY <1>1
  <1>5. DOMAIN rest = 1 .. Len(rest)
    BY <1>2
  <1> HIDE DEF rest, l
  <1>6. \A k \in DOMAIN rest : k \in Nat /\ n + k \in DOMAIN seq /\ rest[k] = seq[n + k]
    BY <1>1, <1>3, <1>4, <1>5
  <1>7. \A k \in Nat : k # 0 /\ n + k \in DOMAIN seq =>
          k \in DOMAIN rest /\ rest[k] = seq[n + k]
    BY <1>1, <1>3, <1>4, <1>5
  <1>8. QED
    BY <1>2, <1>6, <1>7 DEF rest, l

(* saveEvents: a batch is stored.  The latest id stored is now the one it  *)
(* was or one of the batch, and neither has a gap behind it.               *)
LEMMA SaveKeeps == ASSUME IInv, NEW s \in Syncs, Save(s) PROVE IInv'
  <1> DEFINE rows == sync[s].rows
             a == sync[s].after
             first == FirstOf(rows, Batch)
             rest == SubSeq(rows, Batch + 1, Len(rows))
             r == [sync[s] EXCEPT !.rows = rest]
  <1>1. TypeOK /\ sync[s].at = "save" /\ UNCHANGED <<emitted, log, now, kills>>
    BY DEF IInv, Save
  <1>2. rows \in Seq(DOMAIN emitted) /\ Batch \in Nat
    BY <1>1, SyncAt, EventLogAssumption
  <1>3. saved' = saved \cup {first[k] : k \in DOMAIN first}
    BY DEF Save, ToSet
  <1>4. /\ first \in Seq(DOMAIN emitted)
        /\ \A k : k \in DOMAIN first <=> k \in DOMAIN rows /\ k <= Batch
        /\ \A k \in DOMAIN first : first[k] = rows[k]
    <2> DEFINE D == DOMAIN emitted
    <2>1. rows \in Seq(D) /\ Batch \in Nat
      BY <1>2
    <2> HIDE DEF D, rows
    <2>2. FirstOf(rows, Batch) \in Seq(D)
      BY <2>1, FirstRows
    <2>3. \A k : k \in DOMAIN FirstOf(rows, Batch) <=> k \in DOMAIN rows /\ k <= Batch
      BY <2>1, FirstRows
    <2>4. \A k \in DOMAIN FirstOf(rows, Batch) : FirstOf(rows, Batch)[k] = rows[k]
      BY <2>1, FirstRows
    <2>5. QED
      BY <2>2, <2>3, <2>4 DEF D
  <1> HIDE DEF first
  <1>5. saved \subseteq saved' /\ saved' \subseteq DOMAIN emitted
    BY <1>1, <1>3, <1>4 DEF TypeOK
  <1>6. \A k \in DOMAIN rows : k <= Batch => rows[k] \in saved'
    BY <1>3, <1>4
  <1>7. \A k \in DOMAIN rows : \A i \in log : i <= rows[k] =>
          i \in saved \/ \E j \in 1 .. k : rows[j] = i
    BY <1>1 DEF IInv, RowsLeaveNoGap
  <1>8. \A k \in DOMAIN rows : k \in Nat /\ rows[k] \in Nat /\ 1 .. k \subseteq DOMAIN rows
    <2>1. \A k \in DOMAIN rows : rows[k] \in DOMAIN emitted
      BY <1>2
    <2>2. DOMAIN emitted \subseteq Nat
      BY <1>1 DEF TypeOK
    <2>3. \A k \in DOMAIN rows : k \in Nat /\ 1 .. k \subseteq DOMAIN rows
      BY <1>2
    <2>4. QED
      BY <2>1, <2>2, <2>3
  <1> HIDE DEF rows, rest
  <1>9. \A i \in log : i \in Nat
    BY <1>1 DEF TypeOK
  <1>10. ASSUME NEW i \in log, i <= LatestId(saved')
         PROVE  i \in saved'
    <2> DEFINE x == LatestId(saved')
    <2>1. DOMAIN emitted = 1 .. Len(emitted) /\ Len(emitted) \in Nat
      BY <1>1, SyncAt
    <2>2. x \in 0 .. Len(emitted) /\ (x # 0 => x \in saved')
      BY <1>5, <2>1, LatestIsLargest
    <2>3. i \in 1 .. Len(emitted)
      BY <1>1, <2>1 DEF TypeOK
    <2> HIDE DEF x
    <2>4. i <= x
      BY <1>10 DEF x
    <2>5. x \in saved'
      BY <2>1, <2>2, <2>3, <2>4
    <2>6. CASE x \in saved
      <3>1. x <= LatestId(saved) /\ LatestId(saved) \in Nat
        <4>1. saved \in SUBSET (1 .. Len(emitted))
          BY <1>1, <2>1 DEF TypeOK
        <4>2. LatestId(saved) \in 0 .. Len(emitted) /\ x <= LatestId(saved)
          BY <2>1, <2>6, <4>1, LatestIsLargest
        <4>3. QED
          BY <4>2
      <3>2. i <= LatestId(saved)
        BY <1>9, <2>2, <2>4, <3>1
      <3>3. i \in saved
        BY <3>2 DEF IInv, NothingBehindTheCursorIsMissing
      <3>4. QED
        BY <1>5, <3>3
    <2>7. CASE x \notin saved
      <3>1. PICK k \in DOMAIN first : x = first[k]
        BY <1>3, <2>5, <2>7
      <3>2. k \in DOMAIN rows /\ k <= Batch /\ i <= rows[k]
        BY <1>4, <2>4, <3>1
      <3>3. CASE i \in saved
        BY <1>5, <3>3
      <3>4. CASE \E j \in 1 .. k : rows[j] = i
        <4>1. PICK j \in 1 .. k : rows[j] = i
          BY <3>4
        <4>2. j \in DOMAIN rows /\ j <= Batch
          BY <1>2, <1>8, <3>2
        <4>3. QED
          BY <1>6, <4>1, <4>2
      <3>5. QED
        BY <1>7, <3>2, <3>3, <3>4
    <2>8. QED
      BY <2>6, <2>7
  <1>11. kills' \in 0 .. MaxKills
    BY <1>1 DEF TypeOK
  <1>12. sync' = [sync EXCEPT ![s] = IF rest = <<>> THEN Idle ELSE [@ EXCEPT !.rows = rest]]
    BY DEF Save, rest, rows
  <1>13. CASE rest # <<>>
    <2>1. sync' = [sync EXCEPT ![s] = r]
      BY <1>1, <1>12, <1>13 DEF TypeOK
    <2>2. /\ rest \in Seq(DOMAIN emitted)
          /\ \A k \in DOMAIN rest :
               k \in Nat /\ Batch + k \in DOMAIN rows /\ rest[k] = rows[Batch + k]
          /\ \A k \in Nat : k # 0 /\ Batch + k \in DOMAIN rows =>
               k \in DOMAIN rest /\ rest[k] = rows[Batch + k]
      BY <1>2, OtherRows DEF rest
    <2>3. sync[s] \in [at : {"idle", "query", "save"}, after : 0 .. Len(emitted),
                       rows : Seq(DOMAIN emitted)]
      BY <1>1 DEF TypeOK
    <2>4. r.at = "save" /\ r.rows = rest /\ r.after = a
      BY <1>1, <2>3
    <2>5. r \in [at : {"idle", "query", "save"}, after : 0 .. Len(emitted),
                 rows : Seq(DOMAIN emitted)]
      BY <2>2, <2>3
    <2> HIDE DEF r
    <2>6. ASSUME NEW k \in DOMAIN rest, NEW i \in log, i <= rest[k]
          PROVE  i \in saved' \/ \E j \in 1 .. k : rest[j] = i
      <3>1. k \in Nat /\ Batch + k \in DOMAIN rows /\ i <= rows[Batch + k]
        BY <2>2, <2>6
      <3>2. CASE i \in saved
        BY <1>5, <3>2
      <3>3. CASE \E j \in 1 .. (Batch + k) : rows[j] = i
        <4>1. PICK j \in 1 .. (Batch + k) : rows[j] = i
          BY <3>3
        <4>2. j \in DOMAIN rows /\ j \in Nat
          BY <1>8, <3>1, <4>1
        <4>3. CASE j <= Batch
          BY <1>6, <4>1, <4>2, <4>3
        <4>4. CASE ~ (j <= Batch)
          <5>1. PICK m \in 1 .. k : j = Batch + m
            <6>1. j - Batch \in 1 .. k /\ j = Batch + (j - Batch)
              BY <1>2, <3>1, <4>2, <4>4
            <6>2. QED
              BY <6>1
          <5>2. m \in Nat /\ m # 0
            OBVIOUS
          <5>3. rest[m] = i
            BY <2>2, <4>1, <4>2, <5>1, <5>2
          <5>4. QED
            BY <5>1, <5>3
        <4>5. QED
          BY <4>3, <4>4
      <3>4. QED
        BY <1>7, <3>1, <3>2, <3>3
    <2>7. \A i \in log : i <= a => i \in saved'
      BY <1>1, <1>5 DEF IInv, GoesOnFrom
    <2>8. /\ r.at = "save" <=> r.rows # <<>>
          /\ r.at # "idle" => \A i \in log : i <= r.after => i \in saved'
          /\ r.at = "save" => \A k \in DOMAIN r.rows : \A i \in log : i <= r.rows[k] =>
                                i \in saved' \/ \E j \in 1 .. k : r.rows[j] = i
      BY <1>13, <2>4, <2>6, <2>7
    <2>9. QED
      BY <1>1, <1>5, <1>10, <1>11, <2>1, <2>5, <2>8, RecordKeeps
  <1>14. CASE rest = <<>>
    <2> DEFINE q == Idle
    <2>1. sync' = [sync EXCEPT ![s] = q]
      BY <1>1, <1>12, <1>14 DEF TypeOK
    <2>2. q.at = "idle" /\ q.rows = <<>>
      BY DEF Idle
    <2>3. q \in [at : {"idle", "query", "save"}, after : 0 .. Len(emitted),
                 rows : Seq(DOMAIN emitted)]
      BY DEF Idle, IInv, TypeOK
    <2> HIDE DEF q
    <2>4. QED
      BY <1>1, <1>5, <1>10, <1>11, <2>1, <2>2, <2>3, RecordKeeps
  <1>15. QED
    BY <1>13, <1>14

-----------------------------------------------------------------------------
(* Together: the invariant holds in every state the model reaches.         *)
THEOREM Inductive == Spec => []IInv
  <1>1. ASSUME IInv, [Next]_vars
        PROVE  IInv'
    <2>1. ASSUME NEW s \in Syncs, Stop(s)
          PROVE  IInv'
      <3>1. kills' \in 0 .. MaxKills
        BY <1>1, <2>1, EventLogAssumption DEF Stop, IInv, TypeOK
      <3>2. QED
        BY <1>1, <2>1, <3>1, IdleKeeps DEF Stop
    <2>2. CASE UNCHANGED vars
      BY <1>1, <2>2 DEF vars, IInv, TypeOK, NothingBehindTheCursorIsMissing, GoesOnFrom,
         RowsLeaveNoGap
    <2>3. QED
      BY <1>1, <2>1, <2>2, EmitKeeps, CanisterKeeps, BeginKeeps, QueryKeeps, SaveKeeps
      DEF Next, SyncStep
  <1>2. QED
    BY <1>1, InitIsGood, PTL DEF Spec

(* The log and the table hold ids that were given, and a sync has rows     *)
(* exactly while it stores them.                                           *)
THEOREM TypeCorrect == Spec => []TypeOK
  BY Inductive, PTL DEF IInv

(* However many syncs overlap, however far the answering replicas are      *)
(* behind, and wherever syncs are killed: what the canister still keeps up *)
(* to the latest id stored has been stored.                                *)
THEOREM NothingIsSkipped == Spec => []NothingBehindTheCursorIsMissing
  BY Inductive, PTL DEF IInv

-----------------------------------------------------------------------------
(* The tracking of withdrawals.                                            *)

Columns == {"status", "block", "tx", "attempts", "next", "created"}
Statuses == {"none", "broadcasting", "pending", "completed", "failed", "expired"}

(* A row of the table, or a copy of one, claims no end without a reason.   *)
RowIsTrue(w, r) ==
  /\ DOMAIN r = Columns /\ r.status \in Statuses /\ r.created \in Nat
  /\ r.status = "completed" => wdMinter[w] = "confirmed"
  /\ r.status = "failed" => wdOutcome[w] = "failed" \/ wdMinter[w] = "reimbursed"
  /\ r.status = "expired" => wdNow - r.created > WdMaxAge

(* The handler's last write is of a row that is tracked and not given up.  *)
HandlersAreTrue ==
  \A w \in Withdrawals :
    /\ DOMAIN wdHandler[w] = {"at", "polls", "since"} /\ wdHandler[w].since \in Nat
    /\ wdHandler[w].at = "idle" => wdOutcome[w] = "none"
    /\ RowIsTrue(w, wdLate[w]) /\ wdLate[w].status # "expired"
    /\ wdLate[w] # WithdrawalJobs!NoRow => wdLate[w].status # "none"

(* What a job knows stays so.                                              *)
JobsKnowTheTruth ==
  \A j \in Jobs :
    /\ DOMAIN wdJob[j] = {"at", "now", "tip", "seen"}
    /\ wdJob[j].now \in Nat /\ wdJob[j].now <= wdNow
    /\ wdJob[j].seen \subseteq {w \in Withdrawals : wdMinter[w] = "confirmed"}

(* A job's copy of a row was read while it was open, and has its time of   *)
(* creation, which nothing changes.                                        *)
CopiesAreTrue ==
  \A j \in Jobs : DOMAIN wdPart[j] = Withdrawals /\ \A w \in Withdrawals :
    LET p == wdPart[j][w] IN
    /\ DOMAIN p = {"at", "new", "old"} /\ p.at \in {"idle", "ask", "store"}
    /\ p.at # "idle" =>
         /\ DOMAIN p.old = Columns /\ p.old.status \in {"broadcasting", "pending"}
         /\ wdRow[w].status # "none" /\ p.old.created = wdRow[w].created
    /\ p.at = "store" =>
         RowIsTrue(w, p.new) /\ p.new.status # "none" /\ p.new.created = p.old.created

TrackingInv ==
  /\ wdNow \in Nat
  /\ DOMAIN wdRow = Withdrawals /\ DOMAIN wdLate = Withdrawals
  /\ DOMAIN wdHandler = Withdrawals /\ DOMAIN wdOutcome = Withdrawals
  /\ DOMAIN wdMinter = Withdrawals /\ DOMAIN wdJob = Jobs /\ DOMAIN wdPart = Jobs
  /\ \A w \in Withdrawals : RowIsTrue(w, wdRow[w])
  /\ HandlersAreTrue /\ JobsKnowTheTruth /\ CopiesAreTrue

(* Nothing is tracked at first.                                            *)
LEMMA TrackingInit == WithdrawalJobs!Init => TrackingInv
  BY DEF WithdrawalJobs!Init, WithdrawalJobs!NoRow, WithdrawalJobs!NoJob, WithdrawalJobs!NoPart,
     TrackingInv, HandlersAreTrue, JobsKnowTheTruth, CopiesAreTrue, RowIsTrue, Columns, Statuses

(* What the canister, the minter and the clock have once said stays so.    *)
LEMMA WorldGoesOn ==
  ASSUME TrackingInv, wdNow' \in Nat, wdNow <= wdNow',
         DOMAIN wdOutcome' = Withdrawals, DOMAIN wdMinter' = Withdrawals,
         DOMAIN wdHandler' = Withdrawals,
         \A w \in Withdrawals :
           /\ wdMinter[w] \in {"confirmed", "reimbursed"} => wdMinter'[w] = wdMinter[w]
           /\ wdOutcome[w] = "failed" => wdOutcome'[w] = "failed"
           /\ DOMAIN wdHandler'[w] = {"at", "polls", "since"} /\ wdHandler'[w].since \in Nat
           /\ wdHandler'[w].at = "idle" => wdOutcome'[w] = "none",
         UNCHANGED <<wdRow, wdLate, wdJob, wdPart>>
  PROVE  TrackingInv'
  <1>1. ASSUME NEW w \in Withdrawals, NEW r, RowIsTrue(w, r)
        PROVE  RowIsTrue(w, r)'
    <2>1. CASE r.status = "expired"
      <3>1. r.created \in Nat /\ wdNow - r.created > WdMaxAge /\ WdMaxAge \in Nat
        BY <1>1, <2>1, CronJobsAssumption DEF RowIsTrue, WithdrawalJobs!WithdrawalTrackingAssumption
      <3>2. wdNow' - r.created > WdMaxAge
        BY <3>1 DEF TrackingInv
      <3>3. QED
        BY <1>1, <2>1, <3>2 DEF RowIsTrue
    <2>2. CASE r.status # "expired"
      BY <1>1, <2>2 DEF RowIsTrue
    <2>3. QED
      BY <2>1, <2>2
  <1>2. (\A w \in Withdrawals : RowIsTrue(w, wdRow[w]))'
    <2>1. ASSUME NEW w \in Withdrawals, NEW r, r = wdRow[w]
          PROVE  RowIsTrue(w, r)'
      BY <1>1, <2>1 DEF TrackingInv
    <2>2. QED
      BY <2>1 DEF RowIsTrue
  <1>3. HandlersAreTrue'
    <2>1. ASSUME NEW w \in Withdrawals, NEW r, r = wdLate[w]
          PROVE  RowIsTrue(w, r)'
      BY <1>1, <2>1 DEF TrackingInv, HandlersAreTrue
    <2>2. (\A w \in Withdrawals : RowIsTrue(w, wdLate[w]))'
      BY <2>1 DEF RowIsTrue
    <2>3. QED
      BY <2>2 DEF TrackingInv, HandlersAreTrue
  <1>4. JobsKnowTheTruth'
    <2>1. ASSUME NEW j \in Jobs
          PROVE  wdJob[j].now \in Nat /\ wdJob[j].now <= wdNow'
      <3>1. wdJob[j].now \in Nat /\ wdJob[j].now <= wdNow /\ wdNow \in Nat
        BY DEF TrackingInv, JobsKnowTheTruth
      <3>2. QED
        BY <3>1
    <2>2. ASSUME NEW j \in Jobs, NEW w \in wdJob[j].seen
          PROVE  w \in Withdrawals /\ wdMinter'[w] = "confirmed"
      BY DEF TrackingInv, JobsKnowTheTruth
    <2>3. QED
      BY <2>1, <2>2 DEF TrackingInv, JobsKnowTheTruth
  <1>5. CopiesAreTrue'
    <2>1. ASSUME NEW j \in Jobs, NEW w \in Withdrawals, NEW r, r = wdPart[j][w].new,
                 wdPart[j][w].at = "store"
          PROVE  RowIsTrue(w, r)'
      BY <1>1, <2>1 DEF TrackingInv, CopiesAreTrue
    <2>2. (\A j \in Jobs, w \in Withdrawals :
             wdPart[j][w].at = "store" => RowIsTrue(w, wdPart[j][w].new))'
      BY <2>1 DEF RowIsTrue
    <2>3. QED
      BY <2>2 DEF TrackingInv, CopiesAreTrue
  <1>6. QED
    BY <1>2, <1>3, <1>4, <1>5 DEF TrackingInv

(* A row that is written claims no more than what is written, and keeps    *)
(* its time of creation.                                                   *)
LEMMA RowIsSaved ==
  ASSUME TrackingInv, NEW w \in Withdrawals, NEW new, RowIsTrue(w, new), new.status # "none",
         new.status = "expired" => wdRow[w].status # "none" /\ new.created = wdRow[w].created,
         WithdrawalJobs!Save(w, new), UNCHANGED <<wdNow, wdOutcome, wdMinter>>
  PROVE  /\ DOMAIN wdRow' = Withdrawals
         /\ (\A v \in Withdrawals : RowIsTrue(v, wdRow[v]))'
         /\ \A v \in Withdrawals : wdRow[v].status # "none" =>
              wdRow'[v].status # "none" /\ wdRow'[v].created = wdRow[v].created
  <1> DEFINE to == WithdrawalJobs!Upsert(wdRow[w], new)
  <1>1. wdRow' = [wdRow EXCEPT ![w] = to]
    BY DEF WithdrawalJobs!Save
  <1>2. RowIsTrue(w, wdRow[w])
    BY DEF TrackingInv
  <1>3. /\ DOMAIN to = Columns /\ to.status = new.status
        /\ wdRow[w].status # "none" => to.created = wdRow[w].created
        /\ wdRow[w].status = "none" => to.created = new.created
    BY <1>2 DEF WithdrawalJobs!Upsert, RowIsTrue, Columns
  <1>4. RowIsTrue(w, to)
    BY <1>2, <1>3 DEF RowIsTrue
  <1> HIDE DEF to
  <1>5. \A v \in Withdrawals : wdRow'[v] = IF v = w THEN to ELSE wdRow[v]
    BY <1>1 DEF TrackingInv
  <1>6. ASSUME NEW v \in Withdrawals
        PROVE  RowIsTrue(v, wdRow[v])'
    <2>1. RowIsTrue(v, wdRow[v])
      BY DEF TrackingInv
    <2>2. QED
      BY <1>4, <1>5, <2>1 DEF RowIsTrue
  <1>7. QED
    BY <1>1, <1>3, <1>5, <1>6 DEF TrackingInv

(* Copies stay true while rows are written.                                *)
LEMMA CopiesStayTrue ==
  ASSUME TrackingInv, UNCHANGED <<wdNow, wdOutcome, wdMinter, wdPart>>,
         \A v \in Withdrawals : wdRow[v].status # "none" =>
           wdRow'[v].status # "none" /\ wdRow'[v].created = wdRow[v].created
  PROVE  CopiesAreTrue'
  BY DEF TrackingInv, CopiesAreTrue, RowIsTrue

(* The handler starts a row, and its polls know the canister's answer.     *)
LEMMA HandlerKeeps ==
  ASSUME TrackingInv, NEW w \in Withdrawals,
         WithdrawalJobs!HandlerStep(w) \/ WithdrawalJobs!HandlerDies(w)
  PROVE  TrackingInv'
  <1> DEFINE started == WithdrawalJobs!Started(w)
             begun == [WithdrawalJobs!NoRow EXCEPT !.status = "broadcasting", !.next = wdNow,
                                                   !.created = wdNow]
  <1>1. /\ DOMAIN wdHandler = Withdrawals /\ DOMAIN wdLate = Withdrawals
        /\ DOMAIN wdHandler[w] = {"at", "polls", "since"} /\ wdHandler[w].since \in Nat
        /\ wdHandler[w].at = "idle" => wdOutcome[w] = "none"
    BY DEF TrackingInv, HandlersAreTrue
  <1>2. ASSUME NEW r, \/ r = started \/ r = begun
                      \/ r = [started EXCEPT !.block = TRUE, !.next = wdNow]
        PROVE  RowIsTrue(w, r) /\ r.status = "broadcasting"
    BY <1>1, <1>2 DEF TrackingInv, WithdrawalJobs!Started, WithdrawalJobs!NoRow, RowIsTrue,
       Columns, Statuses
  <1>3. ASSUME NEW new, RowIsTrue(w, new), new.status # "none", new.status # "expired",
               WithdrawalJobs!Save(w, new),
               UNCHANGED <<wdNow, wdOutcome, wdMinter, wdJob, wdPart>>,
               DOMAIN wdHandler' = Withdrawals, DOMAIN wdLate' = Withdrawals, HandlersAreTrue'
        PROVE  TrackingInv'
    <2>1. /\ DOMAIN wdRow' = Withdrawals
          /\ (\A v \in Withdrawals : RowIsTrue(v, wdRow[v]))'
          /\ \A v \in Withdrawals : wdRow[v].status # "none" =>
               wdRow'[v].status # "none" /\ wdRow'[v].created = wdRow[v].created
      BY <1>3, RowIsSaved
    <2>2. CopiesAreTrue'
      BY <1>3, <2>1, CopiesStayTrue
    <2>3. QED
      BY <1>3, <2>1, <2>2 DEF TrackingInv, JobsKnowTheTruth
  <1>4. ASSUME UNCHANGED <<wdNow, wdOutcome, wdMinter, wdRow, wdJob, wdPart>>,
               DOMAIN wdHandler' = Withdrawals, DOMAIN wdLate' = Withdrawals, HandlersAreTrue'
        PROVE  TrackingInv'
    BY <1>4 DEF TrackingInv, JobsKnowTheTruth, CopiesAreTrue, RowIsTrue
  <1>5. ASSUME UNCHANGED <<wdNow, wdOutcome, wdMinter>>, DOMAIN wdHandler' = Withdrawals,
               \A v \in Withdrawals \ {w} : wdHandler'[v] = wdHandler[v],
               DOMAIN wdHandler'[w] = {"at", "polls", "since"}, wdHandler'[w].since \in Nat,
               wdHandler'[w].at = "idle" => wdHandler[w].at = "idle",
               NEW r, RowIsTrue(w, r), r.status # "expired",
               r # WithdrawalJobs!NoRow => r.status # "none",
               (wdLate' = wdLate /\ r = wdLate[w]) \/ wdLate' = [wdLate EXCEPT ![w] = r]
        PROVE  DOMAIN wdLate' = Withdrawals /\ HandlersAreTrue'
    <2>1. DOMAIN wdLate' = Withdrawals
          /\ \A v \in Withdrawals : wdLate'[v] = IF v = w THEN r ELSE wdLate[v]
      BY <1>1, <1>5
    <2>2. ASSUME NEW v \in Withdrawals
          PROVE  /\ DOMAIN wdHandler'[v] = {"at", "polls", "since"} /\ wdHandler'[v].since \in Nat
                 /\ wdHandler'[v].at = "idle" => wdOutcome'[v] = "none"
      <3>1. CASE v = w
        BY <1>1, <1>5, <3>1
      <3>2. CASE v # w
        BY <1>5, <3>2 DEF TrackingInv, HandlersAreTrue
      <3>3. QED
        BY <3>1, <3>2
    <2>3. ASSUME NEW v \in Withdrawals
          PROVE  RowIsTrue(v, wdLate[v])' /\ wdLate'[v].status # "expired"
                 /\ (wdLate'[v] # WithdrawalJobs!NoRow => wdLate'[v].status # "none")
      <3>1. CASE v = w
        BY <1>5, <2>1, <3>1 DEF RowIsTrue
      <3>2. CASE v # w
        BY <1>5, <2>1, <3>2 DEF TrackingInv, HandlersAreTrue, RowIsTrue
      <3>3. QED
        BY <3>1, <3>2
    <2>4. (WithdrawalJobs!NoRow)' = WithdrawalJobs!NoRow
      BY DEF WithdrawalJobs!NoRow
    <2>5. QED
      BY <2>1, <2>2, <2>3, <2>4 DEF HandlersAreTrue
  <1>6. /\ RowIsTrue(w, wdLate[w]) /\ wdLate[w].status # "expired"
        /\ wdLate[w] # WithdrawalJobs!NoRow => wdLate[w].status # "none"
    BY <1>1 DEF TrackingInv, HandlersAreTrue
  <1>7. CASE WithdrawalJobs!FirstSave(w)
    <2>1. /\ wdHandler' = [wdHandler EXCEPT ![w].at = "polling", ![w].since = wdNow]
          /\ WithdrawalJobs!Save(w, begun)
          /\ UNCHANGED <<wdNow, wdOutcome, wdMinter, wdLate, wdJob, wdPart>>
      BY <1>7 DEF WithdrawalJobs!FirstSave, WithdrawalJobs!world, WithdrawalJobs!locals
    <2>2. /\ DOMAIN wdHandler' = Withdrawals
          /\ \A v \in Withdrawals \ {w} : wdHandler'[v] = wdHandler[v]
          /\ DOMAIN wdHandler'[w] = {"at", "polls", "since"} /\ wdHandler'[w].since \in Nat
          /\ wdHandler'[w].at = "polling"
      BY <1>1, <2>1 DEF TrackingInv
    <2>3. DOMAIN wdLate' = Withdrawals /\ HandlersAreTrue'
      BY <1>5, <1>6, <2>1, <2>2
    <2>4. RowIsTrue(w, begun) /\ begun.status = "broadcasting"
      BY <1>2
    <2> HIDE DEF begun
    <2>5. QED
      BY <1>3, <2>1, <2>2, <2>3, <2>4
  <1>8. CASE WithdrawalJobs!Poll(w)
    <2>1. /\ \E at, polls : at # "idle" /\ wdHandler' = [wdHandler EXCEPT ![w].at = at, ![w].polls = polls]
          /\ UNCHANGED <<wdNow, wdOutcome, wdMinter, wdRow, wdJob, wdPart>>
      <3>1. wdHandler[w].at = "polling"
            /\ UNCHANGED <<wdNow, wdOutcome, wdMinter, wdRow, wdJob, wdPart>>
        BY <1>8 DEF WithdrawalJobs!Poll, WithdrawalJobs!world, WithdrawalJobs!locals
      <3>2. CASE wdHandler' = [wdHandler EXCEPT ![w].at = "ended"]
        <4>1. wdHandler' = [wdHandler EXCEPT ![w].at = "ended", ![w].polls = wdHandler[w].polls]
          BY <1>1, <3>2
        <4>2. QED
          BY <3>1, <4>1
      <3>3. CASE wdHandler' = [wdHandler EXCEPT
                   ![w].at = IF wdOutcome[w] = "pending" THEN "save" ELSE @, ![w].polls = @ + 1]
        <4>1. wdHandler' = [wdHandler EXCEPT
                ![w].at = (IF wdOutcome[w] = "pending" THEN "save" ELSE "polling"),
                ![w].polls = wdHandler[w].polls + 1]
          BY <1>1, <3>1, <3>3
        <4>2. QED
          BY <3>1, <4>1
      <3>4. QED
        BY <1>8, <3>1, <3>2, <3>3 DEF WithdrawalJobs!Poll
    <2>2. /\ DOMAIN wdHandler' = Withdrawals
          /\ \A v \in Withdrawals \ {w} : wdHandler'[v] = wdHandler[v]
          /\ DOMAIN wdHandler'[w] = {"at", "polls", "since"} /\ wdHandler'[w].since \in Nat
          /\ wdHandler'[w].at # "idle"
      BY <1>1, <2>1
    <2>3. \/ wdLate' = wdLate
          \/ wdLate' = [wdLate EXCEPT ![w] = [started EXCEPT !.block = TRUE, !.next = wdNow]]
          \/ /\ wdOutcome[w] = "failed"
             /\ wdLate' = [wdLate EXCEPT ![w] = [started EXCEPT !.status = "failed"]]
      BY <1>8 DEF WithdrawalJobs!Poll
    <2>4. ASSUME NEW r, r = [started EXCEPT !.status = "failed"], wdOutcome[w] = "failed"
          PROVE  RowIsTrue(w, r) /\ r.status = "failed"
      BY <1>1, <2>4 DEF WithdrawalJobs!Started, WithdrawalJobs!NoRow, RowIsTrue, Columns, Statuses
    <2> HIDE DEF started
    <2>5. DOMAIN wdLate' = Withdrawals /\ HandlersAreTrue'
      <3>1. CASE wdLate' = wdLate
        BY <1>5, <1>6, <2>1, <2>2, <3>1
      <3>2. ASSUME NEW r, r = [started EXCEPT !.block = TRUE, !.next = wdNow],
                   wdLate' = [wdLate EXCEPT ![w] = r]
            PROVE  DOMAIN wdLate' = Withdrawals /\ HandlersAreTrue'
        <4>1. RowIsTrue(w, r) /\ r.status = "broadcasting"
          BY <1>2, <3>2
        <4>2. QED
          BY <1>5, <2>1, <2>2, <3>2, <4>1
      <3>3. ASSUME NEW r, r = [started EXCEPT !.status = "failed"], wdOutcome[w] = "failed",
                   wdLate' = [wdLate EXCEPT ![w] = r]
            PROVE  DOMAIN wdLate' = Withdrawals /\ HandlersAreTrue'
        <4>1. RowIsTrue(w, r) /\ r.status = "failed"
          BY <2>4, <3>3
        <4>2. QED
          BY <1>5, <2>1, <2>2, <3>3, <4>1
      <3>4. QED
        BY <2>3, <3>1, <3>2, <3>3
    <2>6. QED
      BY <1>4, <2>1, <2>2, <2>5
  <1>9. CASE WithdrawalJobs!PollSave(w)
    <2>1. /\ wdHandler' = [wdHandler EXCEPT ![w].at = "polling"]
          /\ WithdrawalJobs!Save(w, started)
          /\ UNCHANGED <<wdNow, wdOutcome, wdMinter, wdLate, wdJob, wdPart>>
      BY <1>9 DEF WithdrawalJobs!PollSave, WithdrawalJobs!world, WithdrawalJobs!locals
    <2>2. /\ DOMAIN wdHandler' = Withdrawals
          /\ \A v \in Withdrawals \ {w} : wdHandler'[v] = wdHandler[v]
          /\ DOMAIN wdHandler'[w] = {"at", "polls", "since"} /\ wdHandler'[w].since \in Nat
          /\ wdHandler'[w].at = "polling"
      BY <1>1, <2>1
    <2>3. DOMAIN wdLate' = Withdrawals /\ HandlersAreTrue'
      BY <1>5, <1>6, <2>1, <2>2
    <2>4. RowIsTrue(w, started) /\ started.status = "broadcasting"
      BY <1>2
    <2> HIDE DEF started
    <2>5. QED
      BY <1>3, <2>1, <2>2, <2>3, <2>4
  <1>10. CASE WithdrawalJobs!LateSave(w)
    <2>1. /\ wdLate[w] # WithdrawalJobs!NoRow
          /\ wdLate' = [wdLate EXCEPT ![w] = WithdrawalJobs!NoRow]
          /\ WithdrawalJobs!Save(w, wdLate[w]) \/ UNCHANGED wdRow
          /\ UNCHANGED <<wdNow, wdOutcome, wdMinter, wdHandler, wdJob, wdPart>>
      BY <1>10 DEF WithdrawalJobs!LateSave, WithdrawalJobs!world, WithdrawalJobs!locals
    <2>2. RowIsTrue(w, WithdrawalJobs!NoRow) /\ WithdrawalJobs!NoRow.status = "none"
      BY DEF WithdrawalJobs!NoRow, RowIsTrue, Columns, Statuses
    <2>3. DOMAIN wdLate' = Withdrawals /\ HandlersAreTrue'
      BY <1>1, <1>5, <2>1, <2>2
    <2>4. CASE UNCHANGED wdRow
      BY <1>1, <1>4, <2>1, <2>3, <2>4
    <2>5. CASE WithdrawalJobs!Save(w, wdLate[w])
      BY <1>1, <1>3, <1>6, <2>1, <2>3, <2>5
    <2>6. QED
      BY <2>1, <2>4, <2>5
  <1>11. CASE WithdrawalJobs!HandlerDies(w)
    <2>1. /\ wdHandler' = [wdHandler EXCEPT ![w].at = "ended"]
          /\ UNCHANGED <<wdNow, wdOutcome, wdMinter, wdRow, wdLate, wdJob, wdPart>>
      BY <1>11 DEF WithdrawalJobs!HandlerDies, WithdrawalJobs!world, WithdrawalJobs!locals
    <2>2. /\ DOMAIN wdHandler' = Withdrawals
          /\ \A v \in Withdrawals \ {w} : wdHandler'[v] = wdHandler[v]
          /\ DOMAIN wdHandler'[w] = {"at", "polls", "since"} /\ wdHandler'[w].since \in Nat
          /\ wdHandler'[w].at = "ended"
      BY <1>1, <2>1
    <2>3. DOMAIN wdLate' = Withdrawals /\ HandlersAreTrue'
      BY <1>5, <1>6, <2>1, <2>2
    <2>4. QED
      BY <1>4, <2>1, <2>2, <2>3
  <1>12. QED
    BY <1>7, <1>8, <1>9, <1>10, <1>11 DEF WithdrawalJobs!HandlerStep

(* The canister, the minter and the clock go on.                           *)
LEMMA WorldKeeps ==
  ASSUME TrackingInv,
         \/ WithdrawalJobs!Tick
         \/ \E w \in Withdrawals : \/ WithdrawalJobs!Accept(w) \/ WithdrawalJobs!Resolve(w)
                                   \/ WithdrawalJobs!MinterStep(w)
  PROVE  TrackingInv'
  <1>1. \A w \in Withdrawals :
          /\ DOMAIN wdHandler[w] = {"at", "polls", "since"} /\ wdHandler[w].since \in Nat
          /\ wdHandler[w].at = "idle" => wdOutcome[w] = "none"
    BY DEF TrackingInv, HandlersAreTrue
  <1>2. /\ wdNow \in Nat /\ DOMAIN wdHandler = Withdrawals /\ DOMAIN wdOutcome = Withdrawals
        /\ DOMAIN wdMinter = Withdrawals
    BY DEF TrackingInv
  <1>3. CASE WithdrawalJobs!Tick
    BY <1>1, <1>2, <1>3, WorldGoesOn DEF WithdrawalJobs!Tick, WithdrawalJobs!request, WithdrawalJobs!locals
  <1>4. ASSUME NEW w \in Withdrawals, WithdrawalJobs!Accept(w)
        PROVE  TrackingInv'
    BY <1>1, <1>2, <1>4, WorldGoesOn DEF WithdrawalJobs!Accept, WithdrawalJobs!locals
  <1>5. ASSUME NEW w \in Withdrawals, WithdrawalJobs!Resolve(w)
        PROVE  TrackingInv'
    BY <1>1, <1>2, <1>5, WorldGoesOn
    DEF WithdrawalJobs!Resolve, WithdrawalJobs!request, WithdrawalJobs!locals
  <1>6. ASSUME NEW w \in Withdrawals, WithdrawalJobs!MinterStep(w)
        PROVE  TrackingInv'
    BY <1>1, <1>2, <1>6, WorldGoesOn
    DEF WithdrawalJobs!MinterStep, WithdrawalJobs!request, WithdrawalJobs!locals
  <1>7. QED
    BY <1>3, <1>4, <1>5, <1>6

(* What a job does changes its own variables, and the rows it stores.      *)
LEMMA JobKeeps ==
  ASSUME TrackingInv, UNCHANGED <<wdNow, wdOutcome, wdMinter, wdRow, wdLate, wdHandler>>,
         DOMAIN wdJob' = Jobs, DOMAIN wdPart' = Jobs, JobsKnowTheTruth', CopiesAreTrue'
  PROVE  TrackingInv'
  BY DEF TrackingInv, HandlersAreTrue, RowIsTrue, WithdrawalJobs!NoRow

(* A job is at an end, or goes on with what is due.                        *)
LEMMA JobMoves ==
  ASSUME TrackingInv, NEW j \in Jobs, NEW k, wdJob' = [wdJob EXCEPT ![j] = k],
         DOMAIN k = {"at", "now", "tip", "seen"}, k.now \in Nat, k.now <= wdNow,
         k.seen \subseteq {w \in Withdrawals : wdMinter[w] = "confirmed"},
         UNCHANGED <<wdNow, wdMinter>>
  PROVE  DOMAIN wdJob' = Jobs /\ JobsKnowTheTruth'
  <1>1. DOMAIN wdJob' = Jobs /\ \A i \in Jobs : wdJob'[i] = IF i = j THEN k ELSE wdJob[i]
    BY DEF TrackingInv
  <1>2. ASSUME NEW i \in Jobs
        PROVE  /\ DOMAIN wdJob'[i] = {"at", "now", "tip", "seen"}
               /\ wdJob'[i].now \in Nat /\ wdJob'[i].now <= wdNow'
               /\ wdJob'[i].seen \subseteq {w \in Withdrawals : wdMinter'[w] = "confirmed"}
    <2>1. CASE i = j
      BY <1>1, <2>1
    <2>2. CASE i # j
      BY <1>1, <2>2 DEF TrackingInv, JobsKnowTheTruth
    <2>3. QED
      BY <2>1, <2>2
  <1>3. QED
    BY <1>1, <1>2 DEF JobsKnowTheTruth

(* A job that has nothing to do yet knows no transaction.                  *)
LEMMA NewJob ==
  ASSUME TrackingInv, NEW j \in Jobs,
         \/ wdJob' = [wdJob EXCEPT ![j] = WithdrawalJobs!NoJob]
         \/ wdJob' = [wdJob EXCEPT ![j] = [WithdrawalJobs!NoJob EXCEPT !.at = "tip", !.now = wdNow]],
         UNCHANGED <<wdNow, wdMinter>>
  PROVE  DOMAIN wdJob' = Jobs /\ JobsKnowTheTruth'
  <1>1. ASSUME NEW k, \/ k = WithdrawalJobs!NoJob
                      \/ k = [WithdrawalJobs!NoJob EXCEPT !.at = "tip", !.now = wdNow]
        PROVE  /\ DOMAIN k = {"at", "now", "tip", "seen"} /\ k.now \in Nat /\ k.now <= wdNow
               /\ k.seen = {}
    <2>1. wdNow \in Nat
      BY DEF TrackingInv
    <2>2. CASE k = WithdrawalJobs!NoJob
      BY <2>1, <2>2 DEF WithdrawalJobs!NoJob
    <2>3. CASE k = [WithdrawalJobs!NoJob EXCEPT !.at = "tip", !.now = wdNow]
      BY <2>1, <2>3 DEF WithdrawalJobs!NoJob
    <2>4. QED
      BY <1>1, <2>2, <2>3
  <1>2. ASSUME NEW k, \/ k = WithdrawalJobs!NoJob
                      \/ k = [WithdrawalJobs!NoJob EXCEPT !.at = "tip", !.now = wdNow],
               wdJob' = [wdJob EXCEPT ![j] = k]
        PROVE  DOMAIN wdJob' = Jobs /\ JobsKnowTheTruth'
    <2>1. k.seen \subseteq {w \in Withdrawals : wdMinter[w] = "confirmed"}
      BY <1>1, <1>2
    <2>2. QED
      BY <1>1, <1>2, <2>1, JobMoves
  <1>3. QED
    BY <1>2

(* What a job does for a row.                                              *)
LEMMA CopyMoves ==
  ASSUME TrackingInv, NEW j \in Jobs, NEW w \in Withdrawals, NEW p,
         wdPart' = [wdPart EXCEPT ![j][w] = p],
         DOMAIN p = {"at", "new", "old"}, p.at \in {"idle", "ask", "store"},
         p.at # "idle" =>
           /\ DOMAIN p.old = Columns /\ p.old.status \in {"broadcasting", "pending"}
           /\ wdRow[w].status # "none" /\ p.old.created = wdRow[w].created,
         p.at = "store" =>
           RowIsTrue(w, p.new) /\ p.new.status # "none" /\ p.new.created = p.old.created,
         UNCHANGED <<wdNow, wdOutcome, wdMinter>>,
         \A v \in Withdrawals : wdRow[v].status # "none" =>
           wdRow'[v].status # "none" /\ wdRow'[v].created = wdRow[v].created
  PROVE  DOMAIN wdPart' = Jobs /\ CopiesAreTrue'
  <1>1. /\ DOMAIN wdPart' = Jobs
        /\ \A i \in Jobs : DOMAIN wdPart'[i] = Withdrawals /\ \A v \in Withdrawals :
             wdPart'[i][v] = IF i = j /\ v = w THEN p ELSE wdPart[i][v]
    BY DEF TrackingInv, CopiesAreTrue
  <1>2. ASSUME NEW i \in Jobs, NEW v \in Withdrawals
        PROVE  LET q == wdPart'[i][v] IN
               /\ DOMAIN q = {"at", "new", "old"} /\ q.at \in {"idle", "ask", "store"}
               /\ q.at # "idle" =>
                    /\ DOMAIN q.old = Columns /\ q.old.status \in {"broadcasting", "pending"}
                    /\ wdRow'[v].status # "none" /\ q.old.created = wdRow'[v].created
               /\ q.at = "store" =>
                    RowIsTrue(v, q.new) /\ q.new.status # "none" /\ q.new.created = q.old.created
    <2>1. CASE i = j /\ v = w
      BY <1>1, <2>1
    <2>2. CASE ~(i = j /\ v = w)
      BY <1>1, <2>2 DEF TrackingInv, CopiesAreTrue
    <2>3. QED
      BY <2>1, <2>2
  <1>3. \A v, r : RowIsTrue(v, r) => RowIsTrue(v, r)'
    BY DEF RowIsTrue
  <1>4. ASSUME NEW i \in Jobs, NEW v \in Withdrawals, NEW r, r = wdPart'[i][v].new,
               wdPart'[i][v].at = "store"
        PROVE  RowIsTrue(v, r)'
    BY <1>2, <1>3, <1>4
  <1>5. (\A i \in Jobs, v \in Withdrawals :
           wdPart[i][v].at = "store" => RowIsTrue(v, wdPart[i][v].new))'
    BY <1>4 DEF RowIsTrue
  <1>6. QED
    BY <1>1, <1>2, <1>5 DEF CopiesAreTrue

(* The copies a job makes of the rows it finds due.                        *)
LEMMA ListKeeps ==
  ASSUME TrackingInv, NEW j \in Jobs, WithdrawalJobs!List(j)
  PROVE  TrackingInv'
  <1> DEFINE asked(w) == [WithdrawalJobs!NoPart EXCEPT !.at = "ask", !.old = wdRow[w]]
  <1>1. PICK due \in WithdrawalJobs!Due :
          /\ wdPart' = [wdPart EXCEPT ![j] = [w \in Withdrawals |->
               IF w \in due THEN asked(w) ELSE WithdrawalJobs!NoPart]]
          /\ wdJob' = [wdJob EXCEPT ![j] = [WithdrawalJobs!NoJob EXCEPT !.at = "tip", !.now = wdNow]]
          /\ UNCHANGED <<wdNow, wdOutcome, wdMinter, wdRow, wdLate, wdHandler>>
    BY DEF WithdrawalJobs!List, WithdrawalJobs!world, WithdrawalJobs!request
  <1>2. \A w \in due : w \in Withdrawals /\ wdRow[w].status \in {"broadcasting", "pending"}
    BY <1>1 DEF WithdrawalJobs!Due, WithdrawalJobs!kSubset, WithdrawalJobs!Open, WithdrawalJobs!NonTerminal
  <1>3. DOMAIN wdPart' = Jobs /\ CopiesAreTrue'
    <2>1. \A w \in Withdrawals :
            /\ DOMAIN asked(w) = {"at", "new", "old"} /\ asked(w).at = "ask" /\ asked(w).old = wdRow[w]
            /\ DOMAIN WithdrawalJobs!NoPart = {"at", "new", "old"} /\ WithdrawalJobs!NoPart.at = "idle"
      BY DEF WithdrawalJobs!NoPart
    <2> HIDE DEF asked
    <2>2. /\ DOMAIN wdPart' = Jobs
          /\ \A i \in Jobs : DOMAIN wdPart'[i] = Withdrawals /\ \A w \in Withdrawals :
               wdPart'[i][w] = IF i # j THEN wdPart[i][w]
                               ELSE IF w \in due THEN asked(w) ELSE WithdrawalJobs!NoPart
      BY <1>1 DEF TrackingInv, CopiesAreTrue
    <2>3. \A w \in due : DOMAIN wdRow[w] = Columns
      BY <1>2 DEF TrackingInv, RowIsTrue
    <2>4. ASSUME NEW i \in Jobs, NEW w \in Withdrawals
          PROVE  LET q == wdPart'[i][w] IN
                 /\ DOMAIN q = {"at", "new", "old"} /\ q.at \in {"idle", "ask", "store"}
                 /\ q.at # "idle" =>
                      /\ DOMAIN q.old = Columns /\ q.old.status \in {"broadcasting", "pending"}
                      /\ wdRow[w].status # "none" /\ q.old.created = wdRow[w].created
                 /\ q.at = "store" =>
                      /\ i # j /\ RowIsTrue(w, wdPart[i][w].new) /\ q = wdPart[i][w]
                      /\ q.new.status # "none" /\ q.new.created = q.old.created
      <3>1. CASE i = j
        <4>1. CASE w \in due
          BY <1>2, <2>1, <2>2, <2>3, <3>1, <4>1
        <4>2. CASE w \notin due
          BY <2>1, <2>2, <3>1, <4>2
        <4>3. QED
          BY <4>1, <4>2
      <3>2. CASE i # j
        BY <2>2, <3>2 DEF TrackingInv, CopiesAreTrue
      <3>3. QED
        BY <3>1, <3>2
    <2>5. \A v, r : RowIsTrue(v, r) => RowIsTrue(v, r)'
      BY <1>1 DEF RowIsTrue
    <2>6. ASSUME NEW i \in Jobs, NEW v \in Withdrawals, NEW r, r = wdPart'[i][v].new,
                 wdPart'[i][v].at = "store"
          PROVE  RowIsTrue(v, r)'
      BY <2>4, <2>5, <2>6
    <2>7. (\A i \in Jobs, v \in Withdrawals :
             wdPart[i][v].at = "store" => RowIsTrue(v, wdPart[i][v].new))'
      BY <2>6 DEF RowIsTrue
    <2>8. QED
      BY <1>1, <2>2, <2>4, <2>7 DEF CopiesAreTrue
  <1>4. DOMAIN wdJob' = Jobs /\ JobsKnowTheTruth'
    BY <1>1, NewJob
  <1>5. QED
    BY <1>1, <1>3, <1>4, JobKeeps

(* The tip of the chain tells which transactions are confirmed.            *)
LEMMA TipKeeps ==
  ASSUME TrackingInv, NEW j \in Jobs, WithdrawalJobs!Tip(j)
  PROVE  TrackingInv'
  <1>1. PICK tip \in BOOLEAN :
          /\ wdJob' = [wdJob EXCEPT ![j].at = "rows", ![j].tip = tip, ![j].seen =
               IF tip THEN {w \in Withdrawals : wdMinter[w] = "confirmed"} ELSE {}]
          /\ UNCHANGED <<wdNow, wdOutcome, wdMinter, wdRow, wdLate, wdHandler, wdPart>>
    BY DEF WithdrawalJobs!Tip, WithdrawalJobs!world, WithdrawalJobs!request
  <1> DEFINE seen == IF tip THEN {w \in Withdrawals : wdMinter[w] = "confirmed"} ELSE {}
             k == [wdJob[j] EXCEPT !.at = "rows", !.tip = tip, !.seen = seen]
  <1>2. wdJob' = [wdJob EXCEPT ![j] = k]
    BY <1>1
  <1>3. /\ DOMAIN k = {"at", "now", "tip", "seen"} /\ k.now \in Nat /\ k.now <= wdNow
        /\ k.seen = seen
    <2> HIDE DEF seen
    <2>1. QED
      BY DEF TrackingInv, JobsKnowTheTruth
  <1>4. k.seen \subseteq {w \in Withdrawals : wdMinter[w] = "confirmed"}
    BY <1>3
  <1> HIDE DEF k
  <1>5. DOMAIN wdJob' = Jobs /\ JobsKnowTheTruth'
    BY <1>1, <1>2, <1>3, <1>4, JobMoves
  <1>6. CopiesAreTrue'
    BY <1>1, CopiesStayTrue
  <1>7. QED
    BY <1>1, <1>5, <1>6, JobKeeps DEF TrackingInv

(* The rows a job may write of a withdrawal it has asked for.              *)
LEMMA AnswersAreTrue ==
  ASSUME TrackingInv, NEW j \in Jobs, NEW w \in Withdrawals, wdPart[j][w].at # "idle",
         NEW new,
         \/ new = WithdrawalJobs!Waiting(j, w) \/ new = WithdrawalJobs!FromCanister(j, w)
         \/ new = WithdrawalJobs!FromMinter(j, w) \/ new = WithdrawalJobs!FromChain(j, w)
         \/ /\ WithdrawalJobs!Age(j, w) > WdMaxAge
            /\ new = [wdPart[j][w].old EXCEPT !.status = "expired"]
  PROVE  RowIsTrue(w, new) /\ new.status # "none" /\ new.created = wdPart[j][w].old.created
  <1> DEFINE old == wdPart[j][w].old
  <1>1. /\ DOMAIN old = Columns /\ old.status \in {"broadcasting", "pending"}
        /\ old.created \in Nat
    <2>1. wdRow[w].created \in Nat
      BY DEF TrackingInv, RowIsTrue
    <2>2. QED
      BY <2>1 DEF TrackingInv, CopiesAreTrue
  <1>2. ASSUME NEW r, DOMAIN r = Columns, r.status \in {"broadcasting", "pending"},
               r.created = old.created
        PROVE  RowIsTrue(w, r) /\ r.status # "none" /\ r.created = old.created
    BY <1>1, <1>2 DEF RowIsTrue, Statuses
  <1> DEFINE waiting == WithdrawalJobs!Waiting(j, w)
             attempted == WithdrawalJobs!Attempted(j, w)
             resolved == WithdrawalJobs!Resolved(j, w)
  <1>3. /\ DOMAIN attempted = Columns /\ attempted.status = old.status
        /\ attempted.created = old.created
    <2> DEFINE n == old.attempts + 1
    <2>1. attempted = [old EXCEPT !.attempts = n]
      BY <1>1 DEF WithdrawalJobs!Attempted, Columns
    <2> HIDE DEF n
    <2>2. QED
      BY <1>1, <2>1 DEF Columns
  <1>4. DOMAIN waiting = Columns /\ waiting.status = old.status /\ waiting.created = old.created
    <2> DEFINE next == wdJob[j].now + WithdrawalJobs!Backoff(attempted.attempts, WithdrawalJobs!Age(j, w))
    <2>1. waiting = [attempted EXCEPT !.next = next]
      BY DEF WithdrawalJobs!Waiting
    <2> HIDE DEF next, attempted
    <2>2. QED
      BY <1>3, <2>1 DEF Columns
  <1>5. DOMAIN resolved = Columns /\ resolved.status = old.status /\ resolved.created = old.created
    BY <1>1 DEF WithdrawalJobs!Resolved, Columns
  <1>6. ASSUME NEW status, NEW r, r = WithdrawalJobs!Ended(j, w, status)
        PROVE  DOMAIN r = Columns /\ r.status = status /\ r.created = old.created
    <2> HIDE DEF attempted, old
    <2>1. r = [attempted EXCEPT !.status = status]
      BY <1>6 DEF WithdrawalJobs!Ended, attempted
    <2>2. QED
      BY <1>3, <2>1 DEF Columns
  <1> HIDE DEF waiting, attempted, resolved
  <1>7. CASE new = waiting
    BY <1>1, <1>2, <1>4, <1>7
  <1>8. CASE new = WithdrawalJobs!FromCanister(j, w)
    <2>1. \/ wdOutcome[w] = "failed" /\ new = WithdrawalJobs!Ended(j, w, "failed")
          \/ new = [resolved EXCEPT !.block = TRUE] \/ new = waiting
      BY <1>8 DEF WithdrawalJobs!FromCanister, resolved, waiting
    <2>2. CASE wdOutcome[w] = "failed" /\ new = WithdrawalJobs!Ended(j, w, "failed")
      BY <1>1, <1>6, <2>2 DEF RowIsTrue, Statuses
    <2>3. CASE new = [resolved EXCEPT !.block = TRUE]
      BY <1>1, <1>2, <1>5, <2>3 DEF Columns
    <2>4. QED
      BY <1>7, <2>1, <2>2, <2>3
  <1>9. CASE new = WithdrawalJobs!FromMinter(j, w)
    <2>1. \/ wdMinter[w] = "reimbursed" /\ new = WithdrawalJobs!Ended(j, w, "failed")
          \/ new = [resolved EXCEPT !.tx = TRUE, !.status = "pending"] \/ new = waiting
      BY <1>9 DEF WithdrawalJobs!FromMinter, resolved, waiting
    <2>2. CASE wdMinter[w] = "reimbursed" /\ new = WithdrawalJobs!Ended(j, w, "failed")
      BY <1>1, <1>6, <2>2 DEF RowIsTrue, Statuses
    <2>3. CASE new = [resolved EXCEPT !.tx = TRUE, !.status = "pending"]
      BY <1>1, <1>2, <1>5, <2>3 DEF Columns
    <2>4. QED
      BY <1>7, <2>1, <2>2, <2>3
  <1>10. CASE new = WithdrawalJobs!FromChain(j, w)
    <2>1. \/ w \in wdJob[j].seen /\ new = WithdrawalJobs!Ended(j, w, "completed")
          \/ new = waiting
      BY <1>10 DEF WithdrawalJobs!FromChain, waiting
    <2>2. ASSUME w \in wdJob[j].seen, new = WithdrawalJobs!Ended(j, w, "completed")
          PROVE  RowIsTrue(w, new) /\ new.status # "none" /\ new.created = old.created
      <3>1. wdMinter[w] = "confirmed"
        BY <2>2 DEF TrackingInv, JobsKnowTheTruth
      <3>2. QED
        BY <1>1, <1>6, <2>2, <3>1 DEF RowIsTrue, Statuses
    <2>3. QED
      BY <1>7, <2>1, <2>2
  <1>11. ASSUME WithdrawalJobs!Age(j, w) > WdMaxAge, new = [old EXCEPT !.status = "expired"]
         PROVE  RowIsTrue(w, new) /\ new.status # "none" /\ new.created = old.created
    <2>1. wdJob[j].now - old.created > WdMaxAge
      BY <1>11 DEF WithdrawalJobs!Age
    <2>2. wdJob[j].now \in Nat /\ wdJob[j].now <= wdNow /\ wdNow \in Nat /\ WdMaxAge \in Nat
      BY CronJobsAssumption DEF WithdrawalJobs!WithdrawalTrackingAssumption, TrackingInv, JobsKnowTheTruth
    <2>3. DOMAIN new = Columns /\ new.status = "expired" /\ new.created = old.created
      BY <1>1, <1>11 DEF Columns
    <2> HIDE DEF old
    <2>4. wdNow - old.created > WdMaxAge
      BY <1>1, <2>1, <2>2
    <2>5. QED
      BY <1>1, <2>3, <2>4 DEF RowIsTrue, Statuses
  <1>12. QED
    BY <1>7, <1>8, <1>9, <1>10, <1>11 DEF waiting

(* A question is answered, or counted as an attempt.                       *)
LEMMA WdAskKeeps ==
  ASSUME TrackingInv, NEW j \in Jobs, NEW w \in Withdrawals, WithdrawalJobs!Ask(j, w)
  PROVE  TrackingInv'
  <1> DEFINE old == wdPart[j][w].old
  <1>1. /\ wdPart[j][w].at = "ask"
        /\ UNCHANGED <<wdNow, wdOutcome, wdMinter, wdRow, wdLate, wdHandler, wdJob>>
    BY DEF WithdrawalJobs!Ask, WithdrawalJobs!world, WithdrawalJobs!request
  <1>2. PICK new :
          /\ \/ new = WithdrawalJobs!Waiting(j, w) \/ new = WithdrawalJobs!FromCanister(j, w)
             \/ new = WithdrawalJobs!FromMinter(j, w) \/ new = WithdrawalJobs!FromChain(j, w)
             \/ /\ WithdrawalJobs!Age(j, w) > WdMaxAge
                /\ new = [wdPart[j][w].old EXCEPT !.status = "expired"]
          /\ wdPart' = [wdPart EXCEPT ![j][w].at = "store", ![j][w].new = new]
    BY DEF WithdrawalJobs!Ask
  <1>3. RowIsTrue(w, new) /\ new.status # "none" /\ new.created = wdPart[j][w].old.created
    BY <1>1, <1>2, AnswersAreTrue
  <1> DEFINE p == [wdPart[j][w] EXCEPT !.at = "store", !.new = new]
  <1>4. wdPart' = [wdPart EXCEPT ![j][w] = p]
    BY <1>2 DEF TrackingInv, CopiesAreTrue
  <1>5. /\ DOMAIN p = {"at", "new", "old"} /\ p.at = "store" /\ p.new = new /\ p.old = old
        /\ DOMAIN old = Columns /\ old.status \in {"broadcasting", "pending"}
        /\ wdRow[w].status # "none" /\ old.created = wdRow[w].created
    BY <1>1 DEF TrackingInv, CopiesAreTrue
  <1> HIDE DEF p
  <1>6. DOMAIN wdPart' = Jobs /\ CopiesAreTrue'
    BY <1>1, <1>3, <1>4, <1>5, CopyMoves
  <1>7. JobsKnowTheTruth'
    BY <1>1 DEF TrackingInv, JobsKnowTheTruth
  <1>8. QED
    BY <1>1, <1>6, <1>7, JobKeeps DEF TrackingInv

(* A job is done with a row, and with the last of them altogether.         *)
LEMMA CloseKeeps ==
  ASSUME TrackingInv, NEW j \in Jobs, NEW w \in Withdrawals, WithdrawalJobs!Close(j, w),
         UNCHANGED <<wdNow, wdOutcome, wdMinter>>,
         \A v \in Withdrawals : wdRow[v].status # "none" =>
           wdRow'[v].status # "none" /\ wdRow'[v].created = wdRow[v].created
  PROVE  /\ DOMAIN wdPart' = Jobs /\ CopiesAreTrue'
         /\ DOMAIN wdJob' = Jobs /\ JobsKnowTheTruth'
  <1>1. /\ wdPart' = [wdPart EXCEPT ![j][w] = WithdrawalJobs!NoPart]
        /\ wdJob' = wdJob \/ wdJob' = [wdJob EXCEPT ![j] = WithdrawalJobs!NoJob]
    BY DEF WithdrawalJobs!Close
  <1>2. DOMAIN WithdrawalJobs!NoPart = {"at", "new", "old"} /\ WithdrawalJobs!NoPart.at = "idle"
    BY DEF WithdrawalJobs!NoPart
  <1>3. DOMAIN wdPart' = Jobs /\ CopiesAreTrue'
    BY <1>1, <1>2, CopyMoves
  <1>4. CASE wdJob' = wdJob
    BY <1>3, <1>4 DEF TrackingInv, JobsKnowTheTruth
  <1>5. CASE wdJob' = [wdJob EXCEPT ![j] = WithdrawalJobs!NoJob]
    BY <1>3, <1>5, NewJob
  <1>6. QED
    BY <1>1, <1>4, <1>5

(* A row is stored.                                                        *)
LEMMA StoreKeeps ==
  ASSUME TrackingInv, NEW j \in Jobs, NEW w \in Withdrawals, WithdrawalJobs!Store(j, w)
  PROVE  TrackingInv'
  <1> DEFINE new == wdPart[j][w].new
  <1>1. /\ wdPart[j][w].at = "store" /\ WithdrawalJobs!Save(w, new) /\ WithdrawalJobs!Close(j, w)
        /\ UNCHANGED <<wdNow, wdOutcome, wdMinter, wdLate, wdHandler>>
    BY DEF WithdrawalJobs!Store, WithdrawalJobs!world, WithdrawalJobs!request
  <1>2. /\ RowIsTrue(w, new) /\ new.status # "none"
        /\ wdRow[w].status # "none" /\ new.created = wdRow[w].created
    BY <1>1 DEF TrackingInv, CopiesAreTrue
  <1> HIDE DEF new
  <1>3. /\ DOMAIN wdRow' = Withdrawals
        /\ (\A v \in Withdrawals : RowIsTrue(v, wdRow[v]))'
        /\ \A v \in Withdrawals : wdRow[v].status # "none" =>
             wdRow'[v].status # "none" /\ wdRow'[v].created = wdRow[v].created
    BY <1>1, <1>2, RowIsSaved
  <1>4. /\ DOMAIN wdPart' = Jobs /\ CopiesAreTrue'
        /\ DOMAIN wdJob' = Jobs /\ JobsKnowTheTruth'
    BY <1>1, <1>3, CloseKeeps
  <1>5. HandlersAreTrue'
    BY <1>1 DEF TrackingInv, HandlersAreTrue, RowIsTrue, WithdrawalJobs!NoRow
  <1>6. QED
    BY <1>1, <1>3, <1>4, <1>5 DEF TrackingInv

(* A row cannot be stored, or a job is stopped.                            *)
LEMMA FailsKeep ==
  ASSUME TrackingInv, NEW j \in Jobs,
         WithdrawalJobs!Abort(j) \/ \E w \in Withdrawals : WithdrawalJobs!StoreFails(j, w)
  PROVE  TrackingInv'
  <1>1. CASE WithdrawalJobs!Abort(j)
    <2>1. /\ wdJob' = [wdJob EXCEPT ![j] = WithdrawalJobs!NoJob]
          /\ wdPart' = [wdPart EXCEPT ![j] = [w \in Withdrawals |-> WithdrawalJobs!NoPart]]
          /\ UNCHANGED <<wdNow, wdOutcome, wdMinter, wdRow, wdLate, wdHandler>>
      BY <1>1 DEF WithdrawalJobs!Abort, WithdrawalJobs!world, WithdrawalJobs!request
    <2>2. DOMAIN wdJob' = Jobs /\ JobsKnowTheTruth'
      BY <2>1, NewJob
    <2>3. DOMAIN WithdrawalJobs!NoPart = {"at", "new", "old"} /\ WithdrawalJobs!NoPart.at = "idle"
      BY DEF WithdrawalJobs!NoPart
    <2>4. /\ DOMAIN wdPart' = Jobs
          /\ \A i \in Jobs : DOMAIN wdPart'[i] = Withdrawals /\ \A w \in Withdrawals :
               wdPart'[i][w] = IF i = j THEN WithdrawalJobs!NoPart ELSE wdPart[i][w]
      BY <2>1 DEF TrackingInv, CopiesAreTrue
    <2>5. CopiesAreTrue'
      BY <2>1, <2>3, <2>4 DEF TrackingInv, CopiesAreTrue, RowIsTrue
    <2>6. QED
      BY <2>1, <2>2, <2>4, <2>5, JobKeeps
  <1>2. ASSUME NEW w \in Withdrawals, WithdrawalJobs!StoreFails(j, w)
        PROVE  TrackingInv'
    <2>1. /\ wdPart[j][w].at = "store"
          /\ UNCHANGED <<wdNow, wdOutcome, wdMinter, wdRow, wdLate, wdHandler>>
      BY <1>2 DEF WithdrawalJobs!StoreFails, WithdrawalJobs!world, WithdrawalJobs!request
    <2>2. CASE WithdrawalJobs!Close(j, w)
      <3>1. /\ DOMAIN wdPart' = Jobs /\ CopiesAreTrue'
            /\ DOMAIN wdJob' = Jobs /\ JobsKnowTheTruth'
        BY <2>1, <2>2, CloseKeeps
      <3>2. QED
        BY <2>1, <3>1, JobKeeps
    <2>3. ASSUME wdPart' = [wdPart EXCEPT ![j][w].new = WithdrawalJobs!Waiting(j, w)],
                 UNCHANGED wdJob
          PROVE  TrackingInv'
      <3> DEFINE new == WithdrawalJobs!Waiting(j, w)
                 p == [wdPart[j][w] EXCEPT !.new = new]
                 old == wdPart[j][w].old
      <3>1. RowIsTrue(w, new) /\ new.status # "none" /\ new.created = old.created
        BY <2>1, AnswersAreTrue
      <3> HIDE DEF new
      <3>2. wdPart' = [wdPart EXCEPT ![j][w] = p]
        BY <2>3 DEF new
      <3>3. /\ DOMAIN p = {"at", "new", "old"} /\ p.at = "store" /\ p.new = new /\ p.old = old
            /\ DOMAIN old = Columns /\ old.status \in {"broadcasting", "pending"}
            /\ wdRow[w].status # "none" /\ old.created = wdRow[w].created
        BY <2>1 DEF TrackingInv, CopiesAreTrue
      <3> HIDE DEF p
      <3>4. DOMAIN wdPart' = Jobs /\ CopiesAreTrue'
        BY <2>1, <3>1, <3>2, <3>3, CopyMoves
      <3>5. JobsKnowTheTruth'
        BY <2>1, <2>3 DEF TrackingInv, JobsKnowTheTruth
      <3>6. QED
        BY <2>1, <2>3, <3>4, <3>5, JobKeeps DEF TrackingInv
    <2>4. QED
      BY <1>2, <2>2, <2>3 DEF WithdrawalJobs!StoreFails
  <1>3. QED
    BY <1>1, <1>2

(* LeavesTheListForAReason: whatever the handler and the jobs write over   *)
(* each other, a withdrawal leaves the list of the user only when it is    *)
(* confirmed, has certainly failed, or was followed long enough            *)
(* (sync-withdrawals, account/withdraw).                                   *)
THEOREM NobodyIsDroppedEarly == UnionSpec => []LeavesTheListForAReason
  <1>1. UnionInit => TrackingInv
    BY TrackingInit DEF UnionInit
  <1>2. TrackingInv /\ [UnionNext]_unionVars => TrackingInv'
    <2> SUFFICES ASSUME TrackingInv, [UnionNext]_unionVars PROVE TrackingInv'
      OBVIOUS
    <2>1. CASE WithdrawalJobs!Next
      BY <2>1, WorldKeeps, HandlerKeeps, ListKeeps, TipKeeps, WdAskKeeps, StoreKeeps, FailsKeep
      DEF WithdrawalJobs!Next, WithdrawalJobs!JobStep
    <2>2. CASE UNCHANGED wdVars
      BY <2>2 DEF wdVars, TrackingInv, HandlersAreTrue, JobsKnowTheTruth, CopiesAreTrue, RowIsTrue,
         WithdrawalJobs!NoRow
    <2>3. QED
      BY <2>1, <2>2 DEF UnionNext, unionVars
  <1>3. TrackingInv => LeavesTheListForAReason
    BY DEF TrackingInv, RowIsTrue, Statuses, LeavesTheListForAReason,
       WithdrawalJobs!LeavesTheListForAReason, WithdrawalJobs!Tracked, WithdrawalJobs!Open,
       WithdrawalJobs!NonTerminal
  <1>4. QED
    BY <1>1, <1>2, <1>3, PTL DEF UnionSpec

-----------------------------------------------------------------------------
(* The market data.                                                        *)

First0(k) == k.end - HistoryHours

(* A job has all candles of its windows so far, none quoted before the job *)
(* began; once it saves them it has those of every hour, and the history   *)
(* has the hours of the batches it has saved.                              *)
JobFits(k, t, hours) ==
  /\ DOMAIN k = {"at", "nowMs", "due", "quoted", "end", "window", "quotes", "saved"}
  /\ k.at \in {"idle", "read", "quote", "candles", "save", "points"}
  /\ k.nowMs \in Nat /\ k.quoted \in Nat /\ k.end \in Nat /\ k.window \in Nat /\ k.saved \in Nat
  /\ k.at \in {"idle", "read", "quote"} => k.quotes = <<>> /\ k.window = 0 /\ k.saved = 0
  /\ k.at # "idle" => k.nowMs <= t
  /\ k.at \in {"candles", "save", "points"} =>
       /\ k.nowMs <= k.quoted /\ k.end <= t
       /\ \A h \in DOMAIN k.quotes : k.quotes[h] \in Nat /\ k.nowMs <= k.quotes[h]
  /\ k.at \in {"candles", "save"} => k.saved = 0
  /\ k.at = "candles" =>
       /\ First0(k) + k.window * WindowSpan < k.end
       /\ DOMAIN k.quotes = IF k.window = 0 THEN {}
                            ELSE First0(k) .. First0(k) + k.window * WindowSpan
  /\ (k.at = "points" \/ (k.at = "save" /\ k.due)) => DOMAIN k.quotes = First0(k) .. k.end
  /\ k.at = "points" =>
       \A h \in First0(k) .. First0(k) + k.saved - 1 : h \in hours

JobIsTrue(k) == JobFits(k, mkNow, DOMAIN mkHistory)

(* Below an hour the history has it has every hour a reader asks for.      *)
HistoryIsFilled ==
  /\ \A h \in DOMAIN mkHistory : h \in Int /\ h <= mkNow
  /\ \A h \in DOMAIN mkHistory, g \in Int :
       mkNow - HistoryHours <= g /\ g <= h => g \in DOMAIN mkHistory

MarketInv ==
  /\ mkNow \in Nat /\ HistoryHours <= mkNow
  /\ DOMAIN mkJobs = Jobs /\ \A j \in Jobs : JobIsTrue(mkJobs[j])
  /\ HistoryIsFilled
  /\ mkPrice # None => mkPrice.quoted >= mkPrice.updatedAt
  /\ \A h \in DOMAIN mkHistory : mkHistory[h].quoted >= mkHistory[h].updatedAt

(* Numbers the model is bounded by.                                        *)
LEMMA MarketNumbers ==
  /\ HistoryHours \in Nat \ {0} /\ WindowSpan \in Nat \ {0} /\ SaveBatch \in Nat \ {0}
  /\ Start \in Nat /\ HistoryHours <= Start
  BY CronJobsAssumption DEF MarketJobs!MarketAssumption

(* A job at rest is true at any time.                                      *)
LEMMA IdleIsTrue == JobIsTrue(MarketJobs!Idle)
  BY DEF JobIsTrue, JobFits, MarketJobs!Idle, First0

(* At first there are no rows.                                             *)
LEMMA MarketInit == MarketJobs!Init => MarketInv
  BY MarketNumbers, IdleIsTrue DEF MarketJobs!Init, MarketInv, HistoryIsFilled

(* What a job does.                                                        *)
LEMMA MarketMoves ==
  ASSUME MarketInv, NEW j \in Jobs, NEW k, mkJobs' = [mkJobs EXCEPT ![j] = k],
         UNCHANGED mkNow, DOMAIN mkHistory \subseteq DOMAIN mkHistory',
         JobFits(k, mkNow, DOMAIN mkHistory')
  PROVE  (DOMAIN mkJobs = Jobs /\ \A i \in Jobs : JobIsTrue(mkJobs[i]))'
  <1>1. DOMAIN mkJobs' = Jobs /\ \A i \in Jobs : mkJobs'[i] = IF i = j THEN k ELSE mkJobs[i]
    BY DEF MarketInv
  <1>2. ASSUME NEW i \in Jobs
        PROVE  JobFits(mkJobs'[i], mkNow', DOMAIN mkHistory')
    <2>1. CASE i = j
      BY <1>1, <2>1
    <2>2. CASE i # j
      <3>1. mkJobs'[i] = mkJobs[i] /\ JobFits(mkJobs[i], mkNow, DOMAIN mkHistory)
        BY <1>1, <2>2 DEF MarketInv, JobIsTrue
      <3>2. QED
        BY <3>1 DEF JobFits
    <2>3. QED
      BY <2>1, <2>2
  <1>3. QED
    BY <1>1, <1>2 DEF JobIsTrue

(* What a job does that writes no row.                                     *)
LEMMA NoRowWritten ==
  ASSUME MarketInv, NEW j \in Jobs, NEW k, JobIsTrue(k), mkJobs' = [mkJobs EXCEPT ![j] = k],
         UNCHANGED <<mkNow, mkHistory>>,
         UNCHANGED mkPrice \/ mkPrice'.quoted >= mkPrice'.updatedAt
  PROVE  MarketInv'
  <1>1. (DOMAIN mkJobs = Jobs /\ \A i \in Jobs : JobIsTrue(mkJobs[i]))'
    BY MarketMoves DEF JobIsTrue
  <1>2. QED
    BY <1>1 DEF MarketInv, HistoryIsFilled

(* A job begins, reads the history's age, and is quoted a price.           *)
LEMMA EarlyKeeps ==
  ASSUME MarketInv, NEW j \in Jobs,
         MarketJobs!Begin(j) \/ MarketJobs!Read(j) \/ MarketJobs!Quote(j) \/ MarketJobs!Fail(j)
  PROVE  MarketInv'
  <1>1. JobIsTrue(mkJobs[j]) /\ mkNow \in Nat
    BY DEF MarketInv
  <1> DEFINE q == mkJobs[j]
  <1>2. CASE MarketJobs!Begin(j)
    <2> DEFINE k == [q EXCEPT !.at = "read", !.nowMs = mkNow]
    <2>1. mkJobs' = [mkJobs EXCEPT ![j] = k] /\ UNCHANGED <<mkNow, mkHistory, mkPrice>> /\ q.at = "idle"
      BY <1>2 DEF MarketJobs!Begin, MarketInv
    <2>2. JobIsTrue(k)
      BY <1>1, <2>1 DEF JobIsTrue, JobFits
    <2> HIDE DEF k
    <2>3. QED
      BY <2>1, <2>2, NoRowWritten
  <1>3. CASE MarketJobs!Read(j)
    <2> DEFINE due == MarketJobs!ShouldRefresh(MarketJobs!LatestUpdatedAt, q.nowMs)
               k == [q EXCEPT !.at = "quote", !.due = due]
    <2>1. mkJobs' = [mkJobs EXCEPT ![j] = k] /\ UNCHANGED <<mkNow, mkHistory, mkPrice>> /\ q.at = "read"
      BY <1>3 DEF MarketJobs!Read, MarketInv
    <2>2. JobIsTrue(k)
      <3> HIDE DEF due
      <3>1. QED
        BY <1>1, <2>1 DEF JobIsTrue, JobFits
    <2> HIDE DEF k
    <2>3. QED
      BY <2>1, <2>2, NoRowWritten
  <1>4. CASE MarketJobs!Quote(j)
    <2> DEFINE k == [q EXCEPT !.at = IF q.due THEN "candles" ELSE "save", !.quoted = mkNow, !.end = mkNow]
    <2>1. mkJobs' = [mkJobs EXCEPT ![j] = k] /\ UNCHANGED <<mkNow, mkHistory, mkPrice>> /\ q.at = "quote"
      BY <1>4 DEF MarketJobs!Quote, MarketInv
    <2>2. /\ DOMAIN k = DOMAIN q /\ k.at = IF q.due THEN "candles" ELSE "save"
          /\ k.quoted = mkNow /\ k.end = mkNow /\ k.nowMs = q.nowMs /\ k.due = q.due
          /\ k.window = q.window /\ k.quotes = q.quotes /\ k.saved = q.saved
      BY <1>1 DEF JobIsTrue, JobFits
    <2>3. /\ q.quotes = <<>> /\ q.window = 0 /\ q.saved = 0 /\ q.nowMs \in Nat /\ q.nowMs <= mkNow
          /\ DOMAIN q = {"at", "nowMs", "due", "quoted", "end", "window", "quotes", "saved"}
      BY <1>1, <2>1 DEF JobIsTrue, JobFits
    <2> HIDE DEF k, q
    <2>4. CASE q.due
      <3>1. k.at = "candles" /\ DOMAIN k.quotes = {}
        BY <2>2, <2>3, <2>4
      <3>2. First0(k) + k.window * WindowSpan < k.end
        BY <1>1, <2>2, <2>3, MarketNumbers DEF First0
      <3>3. JobIsTrue(k)
        BY <1>1, <2>2, <2>3, <3>1, <3>2 DEF JobIsTrue, JobFits
      <3>4. QED
        BY <2>1, <3>3, NoRowWritten
    <2>5. CASE ~q.due
      <3>1. k.at = "save" /\ DOMAIN k.quotes = {} /\ ~k.due
        BY <2>2, <2>3, <2>5
      <3>2. JobIsTrue(k)
        BY <1>1, <2>2, <2>3, <3>1 DEF JobIsTrue, JobFits
      <3>3. QED
        BY <2>1, <3>2, NoRowWritten
    <2>6. QED
      BY <2>4, <2>5
  <1>5. CASE MarketJobs!Fail(j)
    BY <1>5, IdleIsTrue, NoRowWritten DEF MarketJobs!Fail
  <1>6. QED
    BY <1>2, <1>3, <1>4, <1>5

(* The smaller of two.                                                     *)
LEMMA SmallerOfTwo ==
  ASSUME NEW x \in Int, NEW y \in Int
  PROVE  MarketJobs!Min({x, y}) = IF x <= y THEN x ELSE y
  BY DEF MarketJobs!Min

(* What a set of numbers a quote is taken from becomes by another window.  *)
LEMMA WindowsMeet ==
  ASSUME NEW s \in Int, NEW a \in Nat, NEW w \in Nat, NEW e \in Int, s + a < e,
         NEW D, D = IF a = 0 THEN {} ELSE s .. s + a,
         NEW m, m = IF s + (a + w) <= e THEN s + (a + w) ELSE e
  PROVE  D \cup ((s + a) .. m) = s .. m
  <1>1. m \in Int /\ s + a <= m
    OBVIOUS
  <1>2. CASE a = 0
    BY <1>1, <1>2
  <1>3. CASE a # 0
    BY <1>1, <1>3
  <1>4. QED
    BY <1>2, <1>3

(* A window begins where the last one ended, and the last one ends now.    *)
LEMMA CandlesKeep ==
  ASSUME MarketInv, NEW j \in Jobs, MarketJobs!Candles(j)
  PROVE  MarketInv'
  <1> DEFINE q == mkJobs[j]
             start == q.end - HistoryHours
             hours == MarketJobs!WindowAt(start, q.end, q.window)
             quotes == [h \in DOMAIN q.quotes \union hours |->
                          IF h \in hours THEN mkNow ELSE q.quotes[h]]
             last == start + (q.window + 1) * WindowSpan >= q.end
             k == [q EXCEPT !.quotes = quotes, !.window = q.window + 1,
                            !.at = IF last THEN "save" ELSE "candles"]
  <1>1. JobIsTrue(q) /\ mkNow \in Nat /\ DOMAIN mkJobs = Jobs
    BY DEF MarketInv
  <1>2. q.at = "candles" /\ mkJobs' = [mkJobs EXCEPT ![j] = k] /\ UNCHANGED <<mkNow, mkHistory, mkPrice>>
    <2>1. /\ q.at = "candles" /\ UNCHANGED <<mkNow, mkHistory, mkPrice>>
          /\ mkJobs' = [mkJobs EXCEPT ![j].quotes = quotes, ![j].window = @ + 1,
                                      ![j].at = IF last THEN "save" ELSE "candles"]
      BY DEF MarketJobs!Candles
    <2>2. QED
      BY <1>1, <2>1
  <1>3. /\ DOMAIN q = {"at", "nowMs", "due", "quoted", "end", "window", "quotes", "saved"}
        /\ q.nowMs \in Nat /\ q.quoted \in Nat /\ q.end \in Nat /\ q.window \in Nat /\ q.saved = 0
        /\ q.nowMs <= mkNow /\ q.nowMs <= q.quoted /\ q.end <= mkNow
        /\ \A h \in DOMAIN q.quotes : q.quotes[h] \in Nat /\ q.nowMs <= q.quotes[h]
        /\ start + q.window * WindowSpan < q.end
        /\ DOMAIN q.quotes = IF q.window = 0 THEN {} ELSE start .. start + q.window * WindowSpan
    BY <1>1, <1>2 DEF JobIsTrue, JobFits, First0
  <1> DEFINE a == q.window * WindowSpan
             b == (q.window + 1) * WindowSpan
             m == IF start + b <= q.end THEN start + b ELSE q.end
  <1>4. a \in Nat /\ b = a + WindowSpan /\ (q.window # 0 <=> a # 0) /\ start \in Int
    <2>1. q.window \in Nat /\ WindowSpan \in Nat /\ WindowSpan # 0
      BY <1>3, MarketNumbers
    <2>2. a \in Nat /\ b = a + WindowSpan /\ (q.window # 0 <=> a # 0)
      <3> HIDE DEF q
      <3>1. QED
        BY <2>1, SMTT(30)
    <2>3. QED
      BY <1>3, <2>2, MarketNumbers
  <1>5. hours = start + a .. m
    <2>1. hours = start + a .. MarketJobs!Min({start + b, q.end})
      BY DEF MarketJobs!WindowAt
    <2>2. start + b \in Int /\ q.end \in Int
      <3> HIDE DEF a, b, start
      <3>1. QED
        BY <1>3, <1>4, MarketNumbers
    <2>3. MarketJobs!Min({start + b, q.end}) = m
      <3> HIDE DEF b, start
      <3>1. QED
        BY <2>2, SmallerOfTwo
    <2>4. QED
      BY <2>1, <2>3
  <1>6. DOMAIN q.quotes \cup hours = start .. m
    <2>1. start + a < q.end /\ DOMAIN q.quotes = (IF a = 0 THEN {} ELSE start .. start + a)
      <3>1. start + a < q.end /\ DOMAIN q.quotes = IF q.window = 0 THEN {} ELSE start .. start + a
        BY <1>3
      <3> HIDE DEF a, start, q
      <3>2. QED
        BY <1>4, <3>1
    <2>2. m = IF start + (a + WindowSpan) <= q.end THEN start + (a + WindowSpan) ELSE q.end
      <3> HIDE DEF a, b, start
      <3>1. QED
        BY <1>4
    <2> DEFINE D == DOMAIN q.quotes  e == q.end
    <2>3. /\ start + a < e /\ D = (IF a = 0 THEN {} ELSE start .. start + a)
          /\ m = IF start + (a + WindowSpan) <= e THEN start + (a + WindowSpan) ELSE e
          /\ start \in Int /\ a \in Nat /\ WindowSpan \in Nat /\ e \in Int
      BY <1>3, <1>4, <2>1, <2>2, MarketNumbers
    <2> HIDE DEF a, m, start, hours, D, e
    <2>5. D \cup (start + a .. m) = start .. m
      BY <2>3, WindowsMeet
    <2> USE DEF D
    <2>4. QED
      BY <1>5, <2>5
  <1>7. \A h \in DOMAIN quotes : quotes[h] \in Nat /\ q.nowMs <= quotes[h]
    <2> HIDE DEF hours
    <2>1. QED
      BY <1>1, <1>3
  <1>8. /\ DOMAIN k = DOMAIN q /\ k.quotes = quotes /\ k.window = q.window + 1
        /\ k.at = (IF last THEN "save" ELSE "candles")
        /\ k.nowMs = q.nowMs /\ k.quoted = q.quoted /\ k.end = q.end /\ k.saved = q.saved
    <2> HIDE DEF quotes, last
    <2>1. QED
      BY <1>3
  <1>9. DOMAIN quotes = start .. m
    BY <1>6
  <1>10. k.window # 0 /\ k.window * WindowSpan = b /\ k.window \in Nat
    <2>1. k.window = q.window + 1 /\ q.window \in Nat
      BY <1>3, <1>8
    <2> HIDE DEF k, q
    <2>2. QED
      BY <2>1
  <1>11. last <=> ~(start + b < q.end)
    <2>1. start + b \in Int /\ q.end \in Int
      <3> HIDE DEF a, b, start
      <3>1. QED
        BY <1>3, <1>4, MarketNumbers
    <2>2. last <=> start + b >= q.end
      OBVIOUS
    <2> HIDE DEF last, b, start
    <2>3. QED
      BY <2>1, <2>2
  <1>12. JobIsTrue(k)
    <2>1. First0(k) = start
      BY <1>8 DEF First0
    <2>2. start + b \in Int
      <3> HIDE DEF a, b, start
      <3>1. QED
        BY <1>4, MarketNumbers
    <2>3. k.at = "candles" => start + b < q.end /\ m = start + b
      <3> HIDE DEF last, k, b, start
      <3>1. QED
        BY <1>3, <1>8, <1>11, <2>2
    <2>4. k.at # "candles" => k.at = "save" /\ m = q.end
      <3> HIDE DEF last, k, b, start
      <3>1. QED
        BY <1>3, <1>8, <1>11, <2>2
    <2> HIDE DEF k, quotes, hours, last, b, a, m, start, q
    <2>5. CASE k.at = "candles"
      <3>1. DOMAIN k.quotes = First0(k) .. First0(k) + k.window * WindowSpan
        BY <1>8, <1>9, <1>10, <2>1, <2>3, <2>5
      <3>2. First0(k) + k.window * WindowSpan < k.end
        BY <1>8, <1>10, <2>1, <2>3, <2>5
      <3>3. QED
        BY <1>3, <1>7, <1>8, <1>10, <2>5, <3>1, <3>2 DEF JobIsTrue, JobFits
    <2>6. CASE k.at # "candles"
      <3>1. DOMAIN k.quotes = First0(k) .. k.end /\ k.at = "save"
        BY <1>8, <1>9, <2>1, <2>4, <2>6
      <3>2. QED
        BY <1>3, <1>7, <1>8, <1>10, <3>1 DEF JobIsTrue, JobFits
    <2>7. QED
      BY <2>5, <2>6
  <1> HIDE DEF k
  <1>13. QED
    BY <1>2, <1>12, NoRowWritten

(* The price is saved with the time at which the job began, before it was  *)
(* quoted.                                                                 *)
LEMMA SavePriceKeeps ==
  ASSUME MarketInv, NEW j \in Jobs, MarketJobs!SavePrice(j)
  PROVE  MarketInv'
  <1> DEFINE q == mkJobs[j]
             k == IF q.due THEN [q EXCEPT !.at = "points"] ELSE MarketJobs!Idle
  <1>1. JobIsTrue(q) /\ DOMAIN mkJobs = Jobs
    BY DEF MarketInv
  <1>2. /\ q.at = "save" /\ mkJobs' = [mkJobs EXCEPT ![j] = k] /\ UNCHANGED <<mkNow, mkHistory>>
        /\ mkPrice' = [quoted |-> q.quoted, updatedAt |-> q.nowMs]
    BY <1>1 DEF MarketJobs!SavePrice
  <1>3. mkPrice'.quoted >= mkPrice'.updatedAt
    BY <1>1, <1>2 DEF JobIsTrue, JobFits
  <1>4. JobIsTrue(k)
    <2>1. CASE q.due
      <3>1. k = [q EXCEPT !.at = "points"]
        BY <2>1
      <3>2. First0(k) = First0(q)
        BY <1>1, <3>1 DEF JobIsTrue, JobFits, First0
      <3>3. First0(q) \in Int
        BY <1>1, MarketNumbers DEF JobIsTrue, JobFits, First0
      <3>4. First0(q) .. First0(q) + 0 - 1 = {}
        <4> DEFINE f == First0(q)
        <4> HIDE DEF f
        <4>1. f \in Int => f .. f + 0 - 1 = {}
          OBVIOUS
        <4>2. QED
          BY <3>3, <4>1 DEF f
      <3> HIDE DEF q
      <3>5. QED
        BY <1>1, <1>2, <2>1, <3>1, <3>2, <3>4 DEF JobIsTrue, JobFits
    <2>2. CASE ~q.due
      BY <2>2, IdleIsTrue
    <2>3. QED
      BY <2>1, <2>2
  <1> HIDE DEF k, q
  <1>5. QED
    BY <1>2, <1>3, <1>4, NoRowWritten

(* The hours of a batch are those whose place among the hours is.          *)
LEMMA BatchOfHours ==
  ASSUME NEW f \in Int, NEW e \in Int, NEW quotes, DOMAIN quotes = f .. e, NEW s \in Nat
  PROVE  \A h : h \in MarketJobs!BatchHours(quotes, s) <=>
                  h \in f .. e /\ f + s <= h /\ h <= f + s + (SaveBatch - 1)
  <1>1. ASSUME NEW h \in f .. e
        PROVE  MarketJobs!Cardinality({g \in DOMAIN quotes : g < h}) = h - f
    <2>1. {g \in DOMAIN quotes : g < h} = f .. h - 1
      OBVIOUS
    <2>2. Cardinality(f .. h - 1) = IF f > h - 1 THEN 0 ELSE (h - 1) - f + 1
      BY FS_Interval
    <2>3. Cardinality({g \in DOMAIN quotes : g < h}) = h - f
      <3>1. h \in Int /\ f <= h
        OBVIOUS
      <3>2. (IF f > h - 1 THEN 0 ELSE (h - 1) - f + 1) = h - f
        BY <3>1
      <3>3. QED
        BY <2>1, <2>2, <3>2, Zenon
    <2>4. QED
      BY <2>3 DEF MarketJobs!Cardinality, Cardinality
  <1>2. \A h : h \in MarketJobs!BatchHours(quotes, s) <=>
                 h \in f .. e /\ h - f \in s .. s + SaveBatch - 1
    BY <1>1 DEF MarketJobs!BatchHours
  <1>3. ASSUME NEW h \in f .. e
        PROVE  h - f \in s .. s + SaveBatch - 1 <=> f + s <= h /\ h <= f + s + (SaveBatch - 1)
    BY MarketNumbers
  <1>4. QED
    BY <1>2, <1>3

(* A batch is saved: the history has all hours of the job up to its end.   *)
LEMMA SavePointsKeeps ==
  ASSUME MarketInv, NEW j \in Jobs, MarketJobs!SavePoints(j)
  PROVE  MarketInv'
  <1> DEFINE q == mkJobs[j]
             f == q.end - HistoryHours
             s == q.saved
             hours == MarketJobs!BatchHours(q.quotes, s)
             done == s + SaveBatch >= MarketJobs!Cardinality(DOMAIN q.quotes)
             k == IF done THEN MarketJobs!Idle ELSE [q EXCEPT !.saved = s + SaveBatch]
  <1>1. JobIsTrue(q) /\ DOMAIN mkJobs = Jobs /\ mkNow \in Nat
    BY DEF MarketInv
  <1>2. /\ q.at = "points" /\ mkJobs' = [mkJobs EXCEPT ![j] = k] /\ UNCHANGED <<mkNow, mkPrice>>
        /\ mkHistory' = [h \in DOMAIN mkHistory \union hours |->
                           IF h \in hours THEN [quoted |-> q.quotes[h], updatedAt |-> q.nowMs]
                           ELSE mkHistory[h]]
    <2>1. mkJobs' = [mkJobs EXCEPT ![j] = IF done THEN MarketJobs!Idle ELSE [q EXCEPT !.saved = s + SaveBatch]]
      BY <1>1 DEF MarketJobs!SavePoints
    <2>2. mkJobs' = [mkJobs EXCEPT ![j] = k]
      <3> HIDE DEF done
      <3>1. QED
        BY <1>1, <2>1
    <2>3. QED
      BY <2>2 DEF MarketJobs!SavePoints
  <1>3. /\ DOMAIN q = {"at", "nowMs", "due", "quoted", "end", "window", "quotes", "saved"}
        /\ q.nowMs \in Nat /\ q.quoted \in Nat /\ q.end \in Nat /\ q.window \in Nat /\ s \in Nat
        /\ q.nowMs <= mkNow /\ q.nowMs <= q.quoted /\ q.end <= mkNow
        /\ \A h \in DOMAIN q.quotes : q.quotes[h] \in Nat /\ q.nowMs <= q.quotes[h]
        /\ DOMAIN q.quotes = f .. q.end
        /\ \A h \in f .. f + s - 1 : h \in DOMAIN mkHistory
    BY <1>1, <1>2 DEF JobIsTrue, JobFits, First0
  <1>4. f \in Int /\ f <= q.end /\ f <= mkNow - HistoryHours /\ SaveBatch \in Nat \ {0}
    BY <1>1, <1>3, MarketNumbers
  <1>5. \A h : h \in hours <=> h \in f .. q.end /\ f + s <= h /\ h <= f + s + (SaveBatch - 1)
    <2> DEFINE e == q.end  quotes == q.quotes
    <2>1. f \in Int /\ e \in Int /\ DOMAIN quotes = f .. e /\ s \in Nat
      BY <1>3, <1>4
    <2> HIDE DEF e, f, quotes, s
    <2>2. \A h : h \in MarketJobs!BatchHours(quotes, s) <=>
                   h \in f .. e /\ f + s <= h /\ h <= f + s + (SaveBatch - 1)
      BY <2>1, BatchOfHours
    <2>3. QED
      BY <2>2 DEF e, quotes
  <1>6. \A h \in f .. f + s + (SaveBatch - 1) : h <= q.end => h \in DOMAIN mkHistory'
    <2>1. \A h : h \in DOMAIN mkHistory' <=> h \in DOMAIN mkHistory \/ h \in hours
      <3> HIDE DEF hours
      <3>1. QED
        BY <1>2
    <2> HIDE DEF hours, f, s, q
    <2>2. ASSUME NEW h \in f .. f + s + (SaveBatch - 1), h <= q.end, h \notin f .. f + s - 1
          PROVE  h \in hours
      BY <1>3, <1>4, <1>5, <2>2
    <2>3. QED
      BY <1>3, <2>1, <2>2
  <1>7. JobFits(k, mkNow, DOMAIN mkHistory')
    <2>1. CASE done
      <3>1. k = MarketJobs!Idle
        BY <2>1
      <3> HIDE DEF k
      <3>2. QED
        BY <3>1 DEF JobFits, MarketJobs!Idle, First0
    <2>2. CASE ~done
      <3>1. MarketJobs!Cardinality(DOMAIN q.quotes) = q.end - f + 1
        <4>1. Cardinality(f .. q.end) = q.end - f + 1
          <5> DEFINE e == q.end
          <5>1. f \in Int /\ e \in Int /\ ~(f > e)
            BY <1>3, <1>4
          <5> HIDE DEF f, e
          <5>2. Cardinality(f .. e) = e - f + 1
            BY <5>1, FS_Interval
          <5>3. QED
            BY <5>2 DEF e
        <4>2. QED
          BY <1>3, <4>1 DEF MarketJobs!Cardinality, Cardinality
      <3>2. f + s + (SaveBatch - 1) <= q.end
        <4>1. ~(s + SaveBatch >= q.end - f + 1)
          BY <2>2, <3>1
        <4> HIDE DEF f, s, q, done
        <4>2. QED
          BY <1>3, <1>4, <4>1
      <3>3. /\ DOMAIN k = DOMAIN q /\ k.saved = s + SaveBatch /\ k.at = "points" /\ k.quotes = q.quotes
            /\ k.nowMs = q.nowMs /\ k.end = q.end /\ k.quoted = q.quoted /\ k.window = q.window
        <4>1. k = [q EXCEPT !.saved = s + SaveBatch]
          BY <2>2
        <4> HIDE DEF k, done, s, f
        <4>2. QED
          BY <1>2, <1>3, <4>1
      <3>4. First0(k) = f
        BY <3>3 DEF First0
      <3> DEFINE fin == f + (s + SaveBatch) - 1
      <3>5. \A h \in f .. fin : h \in DOMAIN mkHistory'
        <4> HIDE DEF f, s, q
        <4>1. fin = f + s + (SaveBatch - 1)
          BY <1>3, <1>4
        <4>2. \A h \in f .. fin : h <= q.end
          BY <1>3, <1>4, <3>2, <4>1
        <4>3. QED
          BY <1>6, <4>1, <4>2
      <3> HIDE DEF k, done, f, hours, fin, q, s
      <3>6. \A h \in First0(k) .. First0(k) + k.saved - 1 : h \in DOMAIN mkHistory'
        BY <3>3, <3>4, <3>5 DEF fin
      <3>7. k.saved \in Nat
        BY <1>3, <1>4, <3>3
      <3>8. /\ k.nowMs \in Nat /\ k.quoted \in Nat /\ k.end \in Nat /\ k.window \in Nat
            /\ k.nowMs <= mkNow /\ k.nowMs <= k.quoted /\ k.end <= mkNow
            /\ \A h \in DOMAIN k.quotes : k.quotes[h] \in Nat /\ k.nowMs <= k.quotes[h]
            /\ DOMAIN k.quotes = First0(k) .. k.end
        BY <1>2, <1>3, <3>3, <3>4
      <3>10. DOMAIN k = {"at", "nowMs", "due", "quoted", "end", "window", "quotes", "saved"} /\ k.at = "points"
        BY <1>3, <3>3
      <3>9. QED
        BY <3>6, <3>7, <3>8, <3>10 DEF JobFits
    <2>3. QED
      BY <2>1, <2>2
  <1>8. (DOMAIN mkJobs = Jobs /\ \A i \in Jobs : JobIsTrue(mkJobs[i]))'
    <2>1. DOMAIN mkHistory \subseteq DOMAIN mkHistory' /\ mkNow' = mkNow
      BY <1>2
    <2> HIDE DEF k, hours, q
    <2>2. QED
      BY <1>2, <1>7, <2>1, MarketMoves
  <1>9. HistoryIsFilled'
    <2>1. \A h : h \in DOMAIN mkHistory' <=> h \in DOMAIN mkHistory \/ h \in hours
      <3> HIDE DEF hours
      <3>1. QED
        BY <1>2
    <2>2. HistoryIsFilled /\ mkNow' = mkNow
      BY <1>2 DEF MarketInv
    <2> HIDE DEF hours, f, s, q
    <2>3. \A h \in DOMAIN mkHistory' : h \in Int /\ h <= mkNow
      BY <1>1, <1>3, <1>4, <1>5, <2>1, <2>2 DEF HistoryIsFilled
    <2>4. ASSUME NEW h \in DOMAIN mkHistory', NEW g \in Int, mkNow - HistoryHours <= g, g <= h
          PROVE  g \in DOMAIN mkHistory'
      <3>1. CASE h \in DOMAIN mkHistory
        BY <2>1, <2>2, <2>4, <3>1 DEF HistoryIsFilled
      <3>2. CASE h \in hours
        <4>1. h \in Int /\ h <= q.end /\ h <= f + s + (SaveBatch - 1)
          BY <1>3, <1>4, <1>5, <3>2
        <4>2. f <= g
          BY <1>1, <1>4, <2>4, MarketNumbers
        <4>3. g <= q.end /\ g <= f + s + (SaveBatch - 1)
          BY <1>3, <1>4, <2>4, <4>1
        <4>4. g \in f .. f + s + (SaveBatch - 1)
          BY <1>3, <1>4, <4>2, <4>3
        <4>5. QED
          BY <1>6, <4>3, <4>4
      <3>3. QED
        BY <2>1, <3>1, <3>2
    <2>5. QED
      BY <2>2, <2>3, <2>4 DEF HistoryIsFilled
  <1>10. \A h \in DOMAIN mkHistory' : mkHistory'[h].quoted >= mkHistory'[h].updatedAt
    <2>1. \A h \in hours : h \in DOMAIN q.quotes
      <3> HIDE DEF hours, f, s, q
      <3>1. QED
        BY <1>3, <1>5
    <2>2. \A h \in DOMAIN mkHistory : mkHistory[h].quoted >= mkHistory[h].updatedAt
      BY DEF MarketInv
    <2>3. ASSUME NEW h \in DOMAIN mkHistory'
          PROVE  mkHistory'[h].quoted >= mkHistory'[h].updatedAt
      <3> HIDE DEF hours, f, s, k
      <3>1. CASE h \in hours
        <4>1. mkHistory'[h] = [quoted |-> q.quotes[h], updatedAt |-> q.nowMs]
          BY <1>2, <3>1
        <4>2. q.quotes[h] \in Nat /\ q.nowMs <= q.quotes[h] /\ q.nowMs \in Nat
          BY <1>3, <2>1, <3>1
        <4> HIDE DEF q
        <4>3. QED
          BY <4>1, <4>2
      <3>2. CASE h \notin hours
        BY <1>2, <2>2, <3>2
      <3>3. QED
        BY <3>1, <3>2
    <2>4. QED
      BY <2>3
  <1>11. QED
    <2>1. mkNow' = mkNow /\ mkPrice' = mkPrice
      BY <1>2
    <2> HIDE DEF k, hours, f, s, q
    <2>2. QED
      BY <1>8, <1>9, <1>10, <2>1 DEF MarketInv

(* As time passes less is asked for.                                       *)
LEMMA MarketTickKeeps ==
  ASSUME MarketInv, MarketJobs!Tick
  PROVE  MarketInv'
  <1>1. mkNow \in Nat /\ mkNow' = mkNow + 1 /\ UNCHANGED <<mkPrice, mkHistory, mkJobs>>
    BY DEF MarketInv, MarketJobs!Tick
  <1>2. ASSUME NEW i \in Jobs
        PROVE  JobFits(mkJobs[i], mkNow + 1, DOMAIN mkHistory)
    <2>1. JobFits(mkJobs[i], mkNow, DOMAIN mkHistory)
      BY DEF MarketInv, JobIsTrue
    <2>2. QED
      BY <1>1, <2>1 DEF JobFits
  <1>3. (\A i \in Jobs : JobIsTrue(mkJobs[i]))'
    BY <1>1, <1>2 DEF JobIsTrue
  <1>4. HistoryIsFilled'
    <2>1. HistoryIsFilled
      BY DEF MarketInv
    <2>2. \A h \in DOMAIN mkHistory : h \in Int /\ h <= mkNow + 1
      BY <1>1, <2>1 DEF HistoryIsFilled
    <2>3. \A g \in Int : (mkNow + 1) - HistoryHours <= g => mkNow - HistoryHours <= g
      BY <1>1, MarketNumbers
    <2>4. \A h \in DOMAIN mkHistory, g \in Int :
            (mkNow + 1) - HistoryHours <= g /\ g <= h => g \in DOMAIN mkHistory
      BY <2>1, <2>3 DEF HistoryIsFilled
    <2>5. QED
      BY <1>1, <2>2, <2>4 DEF HistoryIsFilled
  <1>5. QED
    BY <1>1, <1>3, <1>4, MarketNumbers DEF MarketInv

(* Whatever a job of the market data does, the rows stay true.             *)
LEMMA MarketKeeps ==
  ASSUME MarketInv, MarketJobs!Next \/ UNCHANGED mkVars
  PROVE  MarketInv'
  <1>1. CASE MarketJobs!Tick
    BY <1>1, MarketTickKeeps
  <1>2. ASSUME NEW j \in Jobs, MarketJobs!Step(j)
        PROVE  MarketInv'
    <2>1. CASE MarketJobs!Begin(j) \/ MarketJobs!Read(j) \/ MarketJobs!Quote(j) \/ MarketJobs!Fail(j)
      BY <2>1, EarlyKeeps
    <2>2. CASE MarketJobs!Candles(j)
      BY <2>2, CandlesKeep
    <2>3. CASE MarketJobs!SavePrice(j)
      BY <2>3, SavePriceKeeps
    <2>4. CASE MarketJobs!SavePoints(j)
      BY <2>4, SavePointsKeeps
    <2>5. QED
      BY <1>2, <2>1, <2>2, <2>3, <2>4 DEF MarketJobs!Step
  <1>3. CASE UNCHANGED mkVars
    BY <1>3 DEF mkVars, MarketInv, HistoryIsFilled, JobIsTrue
  <1>4. QED
    BY <1>1, <1>2, <1>3 DEF MarketJobs!Next

(* A history filled below its last hour is seen without a hole.            *)
LEMMA SeenWithoutHole ==
  ASSUME MarketInv
  PROVE  MarketJobs!HistoryHasNoHole
  <1> DEFINE first == mkNow - HistoryHours
             seen == {h \in DOMAIN mkHistory : h >= first}
  <1>1. first \in Nat /\ mkNow \in Nat
    BY MarketNumbers DEF MarketInv
  <1>2. \A h \in seen : h \in first .. mkNow
    BY <1>1 DEF MarketInv, HistoryIsFilled
  <1>3. \A h \in seen, g \in Int : first <= g /\ g <= h => g \in seen
    BY <1>1, <1>2 DEF MarketInv, HistoryIsFilled
  <1>4. ASSUME seen # {}
        PROVE  seen = MarketJobs!Min(seen) .. MarketJobs!Max(seen)
    <2>1. seen \in SUBSET Nat /\ IsFiniteSet(seen)
      <3>1. IsFiniteSet(first .. mkNow)
        BY <1>1, FS_Interval
      <3>2. seen \subseteq first .. mkNow
        BY <1>2
      <3>3. IsFiniteSet(seen)
        <4> HIDE DEF seen, first
        <4>1. QED
          BY <3>1, <3>2, FS_Subset
      <3>4. first .. mkNow \subseteq Nat
        <4> HIDE DEF first
        <4>1. QED
          BY <1>1
      <3>5. QED
        BY <3>2, <3>3, <3>4
    <2> HIDE DEF seen, first
    <2>2. PICK m \in seen : \A y \in seen : m >= y
      BY <1>4, <2>1, HasLargest
    <2>3. MarketJobs!Max(seen) \in seen /\ \A y \in seen : MarketJobs!Max(seen) >= y
      BY <2>2 DEF MarketJobs!Max
    <2>4. \A y \in seen : y \in Nat /\ first <= y
      BY <1>1, <1>2
    <2>5. first \in seen
      BY <1>1, <1>3, <2>2, <2>4
    <2>6. MarketJobs!Min(seen) \in seen /\ \A y \in seen : MarketJobs!Min(seen) <= y
      BY <2>4, <2>5 DEF MarketJobs!Min
    <2> DEFINE lo == MarketJobs!Min(seen)  hi == MarketJobs!Max(seen)
    <2>7. lo \in seen /\ hi \in seen /\ (\A y \in seen : lo <= y) /\ (\A y \in seen : hi >= y)
      BY <2>3, <2>6
    <2> HIDE DEF lo, hi
    <2>8. lo = first /\ hi \in Nat
      <3>1. lo \in Nat /\ first <= lo /\ lo <= first
        BY <2>4, <2>5, <2>7
      <3>2. QED
        BY <1>1, <2>4, <2>7, <3>1
    <2>9. seen = lo .. hi
      <3>1. \A y \in seen : y \in lo .. hi
        BY <2>4, <2>7, <2>8
      <3>2. \A y \in lo .. hi : y \in seen
        BY <1>1, <1>3, <2>7, <2>8
      <3>3. QED
        BY <3>1, <3>2
    <2>10. QED
      BY <2>9 DEF lo, hi
  <1>5. MarketJobs!HistorySince(mkNow) = seen
    BY DEF MarketJobs!HistorySince
  <1> HIDE DEF seen, first
  <1>6. QED
    BY <1>4, <1>5 DEF MarketJobs!HistoryHasNoHole

(* What the market tables say follows.                                     *)
LEMMA TablesAreTrue ==
  ASSUME MarketInv
  PROVE  /\ MarketJobs!RowsAreNoOlderThanTheySay /\ MarketJobs!HistoryHasNoHole
         /\ MarketJobs!NothingIsLeftOut
  <1>1. MarketJobs!RowsAreNoOlderThanTheySay
    BY DEF MarketInv, MarketJobs!RowsAreNoOlderThanTheySay
  <1>2. MarketJobs!NothingIsLeftOut
    BY DEF MarketInv, JobIsTrue, JobFits, First0, MarketJobs!NothingIsLeftOut
  <1>3. QED
    BY <1>1, <1>2, SeenWithoutHole

-----------------------------------------------------------------------------
(* The price table over the oracle.                                        *)

(* A rate that was seen has one at least as late in the cache, or the      *)
(* cache was emptied and the rate is older than what is kept.              *)
SeenIn(m, held, t) == (\E r \in held : m <= r) \/ (held = {} /\ m < t - Kept)

(* Calls wait no longer than Wait, and settlements begin at the expiry.    *)
WaitsInv ==
  /\ arNow \in Nat /\ arRates \subseteq 0 .. arNow
  /\ DOMAIN arCalls = Archive!Calls
  /\ \A c \in Archive!Calls :
       /\ DOMAIN arCalls[c] = {"at", "asked", "sent", "attempt", "answer", "answered"}
       /\ arCalls[c].at = "current" =>
            arCalls[c].sent \in Nat /\ arCalls[c].sent <= arNow /\ arNow <= arCalls[c].sent + Wait
       /\ arCalls[c].at = "historical" => Expiry <= arNow
       /\ arCalls[c].at = "historical" => arCalls[c].sent \in Nat

(* What a row and a job of the price table hold.                           *)
PriceRow == [rate : Nat, begun : Nat, seen : Nat]
PriceJob == [at : {"idle", "rate", "row"}, candidate : Nat \union {None}, begun : Nat, seen : Nat]

(* A row is not the same as the one its job read last, and a job is not    *)
(* about to write such a row.                                              *)
RowsTold(rows) ==
  \A k, i \in 1 .. Len(rows) : k < i /\ rows[i].rate = rows[k].rate => rows[i].seen # k
JobTold(jb, rows) ==
  jb.at = "row" => /\ jb.seen <= Len(rows)
                   /\ \A i \in 1 .. Len(rows) : rows[i].rate = jb.candidate => jb.seen # i

(* A row is no older than those that were there when its job asked, and    *)
(* neither is what a job is about to write.                                *)
RowsAhead(rows) ==
  \A k, i \in 1 .. Len(rows) : k < i /\ rows[i].rate < rows[k].rate => rows[i].begun < k
JobAhead(jb, rows) ==
  jb.at # "idle" => \A i \in 1 .. jb.begun : rows[i].rate <= jb.candidate

(* What was the latest rate once was seen, and so are the rows and what    *)
(* the jobs were told.                                                     *)
TableInv ==
  /\ arRows \in Seq(PriceRow) /\ arJobs \in [Jobs -> PriceJob]
  /\ arLatests \subseteq Nat \union {None}
  /\ \A i \in 1 .. Len(arRows) : arRows[i].rate \in arLatests
  /\ \A j \in Jobs : arJobs[j].at # "idle" =>
       arJobs[j].candidate \in arLatests \ {None} /\ arJobs[j].begun <= Len(arRows)
  /\ RowsTold(arRows) /\ \A j \in Jobs : JobTold(arJobs[j], arRows)
  /\ arNow <= Expiry + Kept =>
       /\ RowsAhead(arRows) /\ \A j \in Jobs : JobAhead(arJobs[j], arRows)
       /\ \A m \in arLatests \ {None} : SeenIn(m, arRates, arNow)

ArchiveInv == WaitsInv /\ TableInv

(* The numbers of the oracle: a call waits less than a rate is kept.       *)
LEMMA OracleNumbers ==
  /\ Expiry \in Nat /\ Wait \in Nat /\ Kept \in Nat /\ Wait < Kept
  /\ None \notin Nat
  <1>1. /\ Expiry \in Nat /\ Window \in Nat /\ XrcAttempts \in Nat \ {0} /\ Wait \in Nat
        /\ Kept \in Nat /\ XrcAttempts * Wait <= Window /\ Window < Kept /\ None \notin Nat
    BY CronJobsAssumption DEF Archive!OracleAssumption
  <1>2. XrcAttempts >= 1
    BY <1>1
  <1>3. Wait <= XrcAttempts * Wait /\ XrcAttempts * Wait \in Nat
    <2>1. \A n, w \in Nat : n >= 1 => w <= n * w /\ n * w \in Nat
      <3>1. \A n, w \in Nat : n >= 1 => n * w = (n - 1) * w + w /\ (n - 1) * w >= 0 /\ n * w \in Nat
        BY SMTT(30)
      <3>2. QED
        BY <3>1, SMTT(30)
    <2>2. QED
      BY <1>1, <1>2, <2>1
  <1> DEFINE aw == XrcAttempts * Wait
  <1>4. Wait <= aw /\ aw \in Nat /\ aw <= Window
    BY <1>1, <1>3
  <1> HIDE DEF aw
  <1>5. QED
    BY <1>1, <1>4

(* At first nothing is cached and no row written.                          *)
LEMMA ArchiveStarts == Archive!ArchiveInit => ArchiveInv
  <1> SUFFICES ASSUME Archive!ArchiveInit PROVE ArchiveInv
    OBVIOUS
  <1>1. WaitsInv
    BY DEF Archive!ArchiveInit, Archive!Init, Archive!Idle, WaitsInv
  <1>2. /\ arRows = <<>> /\ arLatests = {None}
        /\ arJobs = [j \in Jobs |-> [at |-> "idle", candidate |-> None, begun |-> 0, seen |-> 0]]
    BY DEF Archive!ArchiveInit, Archive!Init, Archive!NoJob, Archive!LatestRate
  <1>3. /\ arRows \in Seq(PriceRow) /\ Len(arRows) = 0 /\ arJobs \in [Jobs -> PriceJob]
        /\ \A j \in Jobs : arJobs[j].at = "idle"
    BY <1>2 DEF PriceJob
  <1>4. TableInv
    BY <1>2, <1>3 DEF TableInv, RowsTold, JobTold, RowsAhead, JobAhead
  <1>5. QED
    BY <1>1, <1>4 DEF ArchiveInv

(* A call ends: it waits no more.                                          *)
LEMMA CallEnds ==
  ASSUME WaitsInv, NEW c \in Archive!Calls, NEW r, Archive!Done(c, r), arNow' = arNow,
         arRates' \subseteq 0 .. arNow
  PROVE  WaitsInv'
  <1> DEFINE k == IF c \in Snapshots THEN Archive!Idle
                  ELSE [Archive!Idle EXCEPT !.at = "done", !.asked = arCalls[c].asked,
                                            !.answer = r, !.answered = arNow]
  <1>1. arCalls' = [arCalls EXCEPT ![c] = k]
    BY DEF Archive!Done
  <1>2. DOMAIN k = {"at", "asked", "sent", "attempt", "answer", "answered"} /\ k.at \in {"idle", "done"}
    BY DEF Archive!Idle
  <1> HIDE DEF k
  <1>3. QED
    BY <1>1, <1>2 DEF WaitsInv

(* Calls wait no longer than Wait.                                         *)
LEMMA WaitsKeep ==
  ASSUME WaitsInv, Archive!Next
  PROVE  WaitsInv'
  <1>0. /\ arNow \in Nat /\ DOMAIN arCalls = Archive!Calls /\ Wait \in Nat /\ Expiry \in Nat
        /\ arRates \subseteq 0 .. arNow
        /\ \A c \in Archive!Calls :
             DOMAIN arCalls[c] = {"at", "asked", "sent", "attempt", "answer", "answered"}
    BY OracleNumbers DEF WaitsInv
  <1>1. ASSUME NEW c \in Archive!Calls, Archive!Ask(c)
        PROVE  WaitsInv'
    <2>1. /\ arCalls' = [arCalls EXCEPT ![c].at = IF c \in Settlements THEN "historical" ELSE "current",
                                       ![c].asked = arNow, ![c].sent = arNow]
          /\ c \in Settlements => arNow >= Expiry
          /\ arNow' = arNow /\ arRates' = arRates
      BY <1>1 DEF Archive!Ask
    <2>2. /\ DOMAIN arCalls' = Archive!Calls
          /\ \A d \in Archive!Calls : d # c => arCalls'[d] = arCalls[d]
          /\ DOMAIN arCalls'[c] = {"at", "asked", "sent", "attempt", "answer", "answered"}
          /\ arCalls'[c].at = (IF c \in Settlements THEN "historical" ELSE "current")
          /\ arCalls'[c].sent = arNow
      BY <1>0, <2>1
    <2>3. QED
      BY <1>0, <2>1, <2>2 DEF WaitsInv
  <1>2. ASSUME NEW c \in Archive!Calls, Archive!Historical(c)
        PROVE  WaitsInv'
    <2>1. arCalls[c].at = "historical" /\ Expiry <= arNow /\ arNow' = arNow
      BY <1>2 DEF Archive!Historical, WaitsInv
    <2>2. CASE arRates' = arRates \union {Expiry} /\ Archive!Done(c, Expiry)
      BY <1>0, <2>1, <2>2, CallEnds
    <2>3. CASE /\ arCalls' = [arCalls EXCEPT ![c].at = "current", ![c].sent = arNow]
               /\ arRates' = arRates
      <3>1. /\ DOMAIN arCalls' = Archive!Calls
            /\ \A d \in Archive!Calls : d # c => arCalls'[d] = arCalls[d]
            /\ DOMAIN arCalls'[c] = {"at", "asked", "sent", "attempt", "answer", "answered"}
            /\ arCalls'[c].at = "current" /\ arCalls'[c].sent = arNow
        BY <1>0, <2>3
      <3>2. QED
        BY <1>0, <2>1, <2>3, <3>1 DEF WaitsInv
    <2>4. QED
      BY <1>2, <2>2, <2>3 DEF Archive!Historical
  <1>3. ASSUME NEW c \in Archive!Calls, Archive!CurrentAnswered(c)
        PROVE  WaitsInv'
    <2>1. PICK r \in arCalls[c].sent .. arNow :
             /\ arRates' = arRates \union {r}
             /\ Archive!Done(c, IF c \in Settlements THEN Archive!Nearest(arRates', Expiry) ELSE r)
      BY <1>3 DEF Archive!CurrentAnswered
    <2>2. arCalls[c].at = "current" /\ arNow' = arNow
      BY <1>3 DEF Archive!CurrentAnswered
    <2>3. r \in 0 .. arNow
      BY <1>0, <2>2 DEF WaitsInv
    <2>4. arRates' \subseteq 0 .. arNow
      BY <1>0, <2>1, <2>3
    <2>5. QED
      BY <2>1, <2>2, <2>4, CallEnds
  <1>4. ASSUME NEW c \in Archive!Calls, Archive!Retry(c)
        PROVE  WaitsInv'
    <2>1. /\ arCalls' = [arCalls EXCEPT ![c].attempt = arCalls[c].attempt + 1, ![c].sent = arNow]
          /\ arCalls[c].at = "current"
          /\ arNow' = arNow /\ arRates' = arRates
      BY <1>0, <1>4 DEF Archive!Retry
    <2>2. /\ DOMAIN arCalls' = Archive!Calls
          /\ \A d \in Archive!Calls : d # c => arCalls'[d] = arCalls[d]
          /\ DOMAIN arCalls'[c] = {"at", "asked", "sent", "attempt", "answer", "answered"}
          /\ arCalls'[c].at = "current"
          /\ arCalls'[c].sent = arNow
      BY <1>0, <2>1
    <2>3. QED
      BY <1>0, <2>1, <2>2 DEF WaitsInv
  <1>5. ASSUME NEW c \in Archive!Calls, Archive!FallBack(c)
        PROVE  WaitsInv'
    <2>1. PICK a : Archive!Done(c, a)
      BY <1>5 DEF Archive!FallBack
    <2>2. arNow' = arNow /\ arRates' = arRates
      BY <1>5 DEF Archive!FallBack
    <2>3. QED
      BY <1>0, <2>1, <2>2, CallEnds
  <1>6. CASE Archive!Cleanup
    BY <1>6 DEF Archive!Cleanup, WaitsInv
  <1>7. CASE Archive!Tick
    <2>1. /\ arNow' = arNow + 1 /\ arRates' = arRates /\ arCalls' = arCalls
          /\ \A c \in Archive!Calls : arCalls[c].at = "current" => arNow - arCalls[c].sent < Wait
      BY <1>7 DEF Archive!Tick, Archive!Waiting
    <2>2. QED
      BY <1>0, <2>1 DEF WaitsInv
  <1>8. QED
    BY <1>1, <1>2, <1>3, <1>4, <1>5, <1>6, <1>7 DEF Archive!Next, Archive!Reply

(* The latest of a cache is one of its rates, and none is later.           *)
LEMMA MaxHeld ==
  ASSUME NEW t \in Nat, NEW held, held \subseteq 0 .. t, held # {}
  PROVE  /\ Archive!Max(held) \in held /\ Archive!Max(held) \in Nat
         /\ \A r \in held : r <= Archive!Max(held)
  <1>1. held \in SUBSET Nat /\ IsFiniteSet(held)
    <2>1. IsFiniteSet(0 .. t)
      BY FS_Interval
    <2>2. IsFiniteSet(held)
      BY <2>1, FS_Subset
    <2>3. QED
      BY <2>2
  <1>2. PICK m \in held : \A y \in held : m >= y
    BY <1>1, HasLargest
  <1>3. Archive!Max(held) \in held /\ \A y \in held : Archive!Max(held) >= y
    BY <1>2 DEF Archive!Max
  <1> DEFINE hi == Archive!Max(held)
  <1>4. hi \in held /\ \A y \in held : hi >= y
    BY <1>3
  <1> HIDE DEF hi
  <1>5. hi \in Nat /\ \A y \in held : y <= hi
    BY <1>1, <1>4
  <1>6. QED
    BY <1>4, <1>5 DEF hi

(* What was seen stays seen while the cache is filled, emptied from below, *)
(* and time passes, up to a week after the expiry.                         *)
LEMMA SeenStays ==
  ASSUME WaitsInv, Archive!Next
  PROVE  /\ arNow' \in Nat /\ arNow <= arNow'
         /\ arNow <= Expiry + Kept =>
              \A m \in Nat : SeenIn(m, arRates, arNow) => SeenIn(m, arRates', arNow')
  <1>0. arNow \in Nat /\ arRates \subseteq 0 .. arNow /\ \A r \in arRates : r \in Nat
    <2>1. arNow \in Nat /\ arRates \subseteq 0 .. arNow
      BY DEF WaitsInv
    <2>2. QED
      BY <2>1
  <1>1. CASE UNCHANGED <<arNow, arRates>>
    BY <1>0, <1>1
  <1>2. ASSUME NEW r \in Nat, arRates' = arRates \union {r}, arNow' = arNow,
               arNow <= Expiry + Kept => arNow - Kept <= r
        PROVE  arNow <= Expiry + Kept =>
                 \A m \in Nat : SeenIn(m, arRates, arNow) => SeenIn(m, arRates', arNow')
    BY <1>0, <1>2, OracleNumbers DEF SeenIn
  <1>3. ASSUME NEW c \in Archive!Calls, Archive!Historical(c)
        PROVE  /\ arNow' = arNow
               /\ arNow <= Expiry + Kept =>
                    \A m \in Nat : SeenIn(m, arRates, arNow) => SeenIn(m, arRates', arNow')
    <2>1. arNow' = arNow /\ (arRates' = arRates \/ arRates' = arRates \union {Expiry})
      BY <1>3 DEF Archive!Historical
    <2>2. Expiry \in Nat /\ (arNow <= Expiry + Kept => arNow - Kept <= Expiry)
      BY <1>0, OracleNumbers
    <2>3. QED
      BY <1>2, <2>1, <2>2
  <1>4. ASSUME NEW c \in Archive!Calls, Archive!CurrentAnswered(c)
        PROVE  /\ arNow' = arNow
               /\ arNow <= Expiry + Kept =>
                    \A m \in Nat : SeenIn(m, arRates, arNow) => SeenIn(m, arRates', arNow')
    <2>1. PICK r \in arCalls[c].sent .. arNow : arRates' = arRates \union {r}
      BY <1>4 DEF Archive!CurrentAnswered
    <2>2. arNow' = arNow /\ arCalls[c].at = "current"
      BY <1>4 DEF Archive!CurrentAnswered
    <2>3. arCalls[c].sent \in Nat /\ arNow <= arCalls[c].sent + Wait
      BY <2>2 DEF WaitsInv
    <2>4. r \in Nat /\ arNow - Kept <= r
      BY <1>0, <2>1, <2>3, OracleNumbers
    <2>5. QED
      BY <1>2, <2>1, <2>2, <2>4
  <1>5. CASE Archive!Cleanup
    <2>1. arRates' = {r \in arRates : r >= arNow - Kept} /\ arNow' = arNow
      BY <1>5 DEF Archive!Cleanup
    <2>2. ASSUME NEW m \in Nat, SeenIn(m, arRates, arNow)
          PROVE  SeenIn(m, arRates', arNow)
      <3>1. CASE \E r \in arRates' : m <= r
        BY <3>1 DEF SeenIn
      <3>2. CASE ~ \E r \in arRates' : m <= r
        <4>1. m < arNow - Kept
          BY <1>0, <2>1, <2>2, <3>2, OracleNumbers DEF SeenIn
        <4>2. arRates' = {}
          <5>1. ASSUME NEW r \in arRates'
                PROVE  m <= r
            <6>1. r \in Nat /\ r >= arNow - Kept
              BY <1>0, <2>1
            <6>2. QED
              BY <1>0, <4>1, <6>1, OracleNumbers
          <5>2. QED
            BY <3>2, <5>1
        <4>3. QED
          BY <4>1, <4>2 DEF SeenIn
      <3>3. QED
        BY <3>1, <3>2
    <2>3. QED
      BY <1>0, <2>1, <2>2
  <1>6. CASE Archive!Tick
    <2>1. arNow' = arNow + 1 /\ arRates' = arRates
      BY <1>6 DEF Archive!Tick
    <2>2. QED
      BY <1>0, <2>1, OracleNumbers DEF SeenIn
  <1>7. ASSUME NEW c \in Archive!Calls, Archive!Ask(c) \/ Archive!Retry(c) \/ Archive!FallBack(c)
        PROVE  UNCHANGED <<arNow, arRates>>
    BY <1>7 DEF Archive!Ask, Archive!Retry, Archive!FallBack
  <1>8. QED
    BY <1>0, <1>1, <1>3, <1>4, <1>5, <1>6, <1>7 DEF Archive!Next, Archive!Reply

(* The rows stay as they are while the oracle works, and the rates that    *)
(* were the latest stay seen.                                              *)
LEMMA OracleKeeps ==
  ASSUME ArchiveInv, Archive!Next, arLatests' = arLatests \union {Archive!LatestRate'},
         UNCHANGED <<arRows, arJobs>>
  PROVE  ArchiveInv'
  <1>1. WaitsInv' /\ TableInv
    BY WaitsKeep DEF ArchiveInv
  <1>2. arNow \in Nat /\ arNow' \in Nat /\ arNow <= arNow'
    BY SeenStays DEF ArchiveInv, WaitsInv
  <1>3. Archive!LatestRate' = None \/ (/\ Archive!LatestRate' \in Nat
                                       /\ Archive!LatestRate' \in arRates')
    <2>1. CASE arRates' = {}
      BY <2>1 DEF Archive!LatestRate
    <2>2. CASE arRates' # {}
      <3>1. arNow' \in Nat /\ arRates' \subseteq 0 .. arNow'
        BY <1>1 DEF WaitsInv
      <3>2. Archive!Max(arRates') \in arRates' /\ Archive!Max(arRates') \in Nat
        BY <2>2, <3>1, MaxHeld
      <3>3. QED
        BY <2>2, <3>2 DEF Archive!LatestRate
    <2>3. QED
      BY <2>1, <2>2
  <1>4. ASSUME arNow' <= Expiry + Kept, NEW m \in arLatests' \ {None}
        PROVE  arNow <= Expiry + Kept /\ SeenIn(m, arRates', arNow')
    <2>1. arNow <= Expiry + Kept
      BY <1>2, <1>4, OracleNumbers
    <2>2. CASE m \in arLatests
      <3>1. m \in Nat /\ SeenIn(m, arRates, arNow)
        BY <1>1, <2>1, <2>2, <1>4 DEF TableInv
      <3>2. QED
        BY <2>1, <3>1, SeenStays DEF ArchiveInv
    <2>3. CASE m = Archive!LatestRate'
      <3>1. m \in Nat /\ m \in arRates'
        BY <1>3, <1>4, <2>3
      <3>2. m <= m
        BY <3>1
      <3>3. QED
        BY <2>1, <3>1, <3>2 DEF SeenIn
    <2>4. QED
      BY <1>4, <2>2, <2>3
  <1>5. arLatests' \subseteq Nat \union {None} /\ arLatests \subseteq arLatests'
    BY <1>1, <1>3 DEF TableInv
  <1>6. TableInv'
    <2>1. /\ arRows' \in Seq(PriceRow) /\ arJobs' \in [Jobs -> PriceJob]
          /\ RowsTold(arRows') /\ \A j \in Jobs : JobTold(arJobs'[j], arRows')
          /\ \A i \in 1 .. Len(arRows') : arRows'[i].rate \in arLatests'
          /\ \A j \in Jobs : arJobs'[j].at # "idle" =>
               arJobs'[j].candidate \in arLatests' \ {None} /\ arJobs'[j].begun <= Len(arRows')
      BY <1>1, <1>5 DEF TableInv
    <2>2. arNow' <= Expiry + Kept =>
            /\ RowsAhead(arRows') /\ \A j \in Jobs : JobAhead(arJobs'[j], arRows')
            /\ \A m \in arLatests' \ {None} : SeenIn(m, arRates', arNow')
      <3>1. SUFFICES ASSUME arNow' <= Expiry + Kept
                     PROVE  /\ RowsAhead(arRows') /\ \A j \in Jobs : JobAhead(arJobs'[j], arRows')
                            /\ \A m \in arLatests' \ {None} : SeenIn(m, arRates', arNow')
        OBVIOUS
      <3>2. arNow <= Expiry + Kept
        BY <1>2, <3>1, OracleNumbers
      <3>3. RowsAhead(arRows) /\ \A j \in Jobs : JobAhead(arJobs[j], arRows)
        BY <1>1, <3>2 DEF TableInv
      <3>4. QED
        BY <1>4, <3>1, <3>3
    <2>3. QED
      BY <1>5, <2>1, <2>2 DEF TableInv
  <1>7. QED
    BY <1>1, <1>6 DEF ArchiveInv

(* The table with the row that a job is about to write.                    *)
Longer(rows, jb) ==
  Append(rows, [rate |-> jb.candidate, begun |-> jb.begun, seen |-> jb.seen])

(* A row more: what was said of the rows and of the jobs holds of it, if   *)
(* the job that writes it was not told what is there.                      *)
LEMMA RowAppended ==
  ASSUME NEW rows \in Seq(PriceRow), NEW jb \in PriceJob, jb.at = "row", jb.candidate \in Nat
  PROVE  /\ Longer(rows, jb) \in Seq(PriceRow) /\ Len(Longer(rows, jb)) = Len(rows) + 1
         /\ \A i \in 1 .. Len(rows) : Longer(rows, jb)[i] = rows[i]
         /\ Longer(rows, jb)[Len(rows) + 1].rate = jb.candidate
         /\ RowsTold(rows) /\ JobTold(jb, rows) => RowsTold(Longer(rows, jb))
         /\ RowsAhead(rows) /\ JobAhead(jb, rows) => RowsAhead(Longer(rows, jb))
         /\ \A other \in PriceJob : JobTold(other, rows) => JobTold(other, Longer(rows, jb))
         /\ \A other \in PriceJob :
              (other.at # "idle" => other.begun <= Len(rows)) /\ JobAhead(other, rows)
                => JobAhead(other, Longer(rows, jb))
  <1> DEFINE more == Longer(rows, jb)
  <1>0. more = Append(rows, [rate |-> jb.candidate, begun |-> jb.begun, seen |-> jb.seen])
    BY DEF Longer
  <1> HIDE DEF more
  <1> DEFINE n == Len(rows)
             new == [rate |-> jb.candidate, begun |-> jb.begun, seen |-> jb.seen]
  <1>1. jb.begun \in Nat /\ jb.seen \in Nat
    BY DEF PriceJob
  <1>2. new \in PriceRow /\ new.rate = jb.candidate /\ new.begun = jb.begun /\ new.seen = jb.seen
    BY <1>1 DEF PriceRow
  <1> HIDE DEF new
  <1>3. /\ n \in Nat /\ more \in Seq(PriceRow) /\ Len(more) = n + 1
        /\ \A i \in 1 .. n : more[i] = rows[i]
        /\ more[n + 1] = new
    BY <1>0, <1>2 DEF new
  <1>4. \A i \in 1 .. n : /\ rows[i].rate \in Nat /\ rows[i].begun \in Nat /\ rows[i].seen \in Nat
    <2>1. \A i \in 1 .. n : rows[i] \in PriceRow
      OBVIOUS
    <2>2. QED
      BY <2>1 DEF PriceRow
  <1> HIDE DEF n
  <1>5. ASSUME NEW k \in 1 .. n + 1, NEW i \in 1 .. n + 1, k < i
        PROVE  /\ k \in 1 .. n /\ more[k] = rows[k]
               /\ (i \in 1 .. n /\ more[i] = rows[i]) \/ (i = n + 1 /\ more[i] = new)
    BY <1>3, <1>5
  <1>6. ASSUME RowsTold(rows), JobTold(jb, rows), NEW k \in 1 .. n + 1, NEW i \in 1 .. n + 1, k < i,
               more[i].rate = more[k].rate
        PROVE  more[i].seen # k
    <2>1. CASE i \in 1 .. n /\ more[i] = rows[i]
      BY <1>5, <1>6, <2>1 DEF RowsTold, n
    <2>2. CASE i = n + 1 /\ more[i] = new
      BY <1>2, <1>5, <1>6, <2>2 DEF JobTold, n
    <2>3. QED
      BY <1>5, <1>6, <2>1, <2>2
  <1>7. ASSUME RowsAhead(rows), JobAhead(jb, rows), NEW k \in 1 .. n + 1, NEW i \in 1 .. n + 1, k < i,
               more[i].rate < more[k].rate
        PROVE  more[i].begun < k
    <2>1. CASE i \in 1 .. n /\ more[i] = rows[i]
      BY <1>5, <1>7, <2>1 DEF RowsAhead, n
    <2>2. CASE i = n + 1 /\ more[i] = new
      <3>1. jb.candidate < rows[k].rate /\ more[i].begun = jb.begun /\ k \in 1 .. n
        BY <1>2, <1>5, <1>7, <2>2
      <3>2. k \notin 1 .. jb.begun
        <4>1. k \in 1 .. jb.begun => rows[k].rate <= jb.candidate
          BY <1>7 DEF JobAhead
        <4>2. rows[k].rate \in Nat
          BY <1>4, <3>1
        <4>3. QED
          BY <3>1, <4>1, <4>2
      <3>3. QED
        BY <1>1, <1>3, <3>1, <3>2
    <2>3. QED
      BY <1>5, <1>7, <2>1, <2>2
  <1>8. ASSUME NEW other \in PriceJob, JobTold(other, rows)
        PROVE  JobTold(other, more)
    <2>1. other.seen \in Nat
      BY DEF PriceJob
    <2>2. ASSUME other.at = "row"
          PROVE  /\ other.seen <= n + 1
                 /\ \A i \in 1 .. n + 1 : more[i].rate = other.candidate => other.seen # i
      <3>1. /\ other.seen <= n
            /\ \A i \in 1 .. n : rows[i].rate = other.candidate => other.seen # i
        BY <1>8, <2>2 DEF JobTold, n
      <3>2. QED
        BY <1>3, <2>1, <3>1
    <2>3. QED
      BY <1>3, <2>2 DEF JobTold
  <1>9. ASSUME NEW other \in PriceJob, other.at # "idle" => other.begun <= n, JobAhead(other, rows)
        PROVE  JobAhead(other, more)
    <2>1. other.begun \in Nat
      BY DEF PriceJob
    <2>2. ASSUME other.at # "idle", NEW i \in 1 .. other.begun
          PROVE  more[i].rate <= other.candidate
      <3>1. i \in 1 .. n
        BY <1>3, <1>9, <2>1, <2>2
      <3>2. rows[i].rate <= other.candidate
        BY <1>9, <2>2 DEF JobAhead
      <3>3. QED
        BY <1>3, <3>1, <3>2
    <2>3. QED
      BY <2>2 DEF JobAhead
  <1>10. RowsTold(rows) /\ JobTold(jb, rows) => RowsTold(more)
    BY <1>3, <1>6 DEF RowsTold
  <1>11. RowsAhead(rows) /\ JobAhead(jb, rows) => RowsAhead(more)
    BY <1>3, <1>7 DEF RowsAhead
  <1>12. QED
    BY <1>2, <1>3, <1>8, <1>9, <1>10, <1>11 DEF n, more

(* A job that changes alone: the table is as before, and the job must be   *)
(* what the invariant says of it.                                          *)
LEMMA PriceJobMoves ==
  ASSUME ArchiveInv, UNCHANGED <<arNow, arRates, arCalls, arRows, arLatests>>, NEW j \in Jobs,
         NEW k \in PriceJob, arJobs' = [arJobs EXCEPT ![j] = k],
         k.at # "idle" => k.candidate \in arLatests \ {None} /\ k.begun <= Len(arRows),
         JobTold(k, arRows), arNow <= Expiry + Kept => JobAhead(k, arRows)
  PROVE  ArchiveInv'
  <1>1. WaitsInv' /\ TableInv
    BY DEF ArchiveInv, WaitsInv
  <1>2. /\ arJobs' \in [Jobs -> PriceJob] /\ arJobs'[j] = k
        /\ \A i \in Jobs : i # j => arJobs'[i] = arJobs[i]
    BY <1>1 DEF TableInv
  <1>3. ASSUME NEW i \in Jobs
        PROVE  /\ arJobs'[i].at # "idle" =>
                    arJobs'[i].candidate \in arLatests \ {None} /\ arJobs'[i].begun <= Len(arRows)
               /\ JobTold(arJobs'[i], arRows)
               /\ arNow <= Expiry + Kept => JobAhead(arJobs'[i], arRows)
    <2>1. CASE i = j
      BY <1>2, <2>1
    <2>2. CASE i # j
      BY <1>1, <1>2, <2>2 DEF TableInv
    <2>3. QED
      BY <2>1, <2>2
  <1>4. TableInv'
    BY <1>1, <1>2, <1>3 DEF TableInv
  <1>5. QED
    BY <1>1, <1>4 DEF ArchiveInv

(* A job is told a rate, now or by a replica that is behind, looks at the  *)
(* last row, writes or fails.                                              *)
LEMMA CopyKeeps ==
  ASSUME ArchiveInv, NEW j \in Jobs,
         \/ Archive!ReadRate(j) \/ Archive!ReadLastRow(j)
         \/ Archive!InsertRow(j) \/ Archive!JobFails(j)
  PROVE  ArchiveInv'
  <1> DEFINE k == arJobs[j]
             none == Archive!NoJob
  <1>0. /\ UNCHANGED <<arNow, arRates, arCalls, arLatests>> /\ WaitsInv /\ TableInv
        /\ arRows \in Seq(PriceRow) /\ Len(arRows) \in Nat
        /\ arJobs \in [Jobs -> PriceJob] /\ k \in PriceJob
        /\ k.at # "idle" => k.candidate \in arLatests \ {None} /\ k.begun <= Len(arRows)
    <2>1. UNCHANGED <<arNow, arRates, arCalls, arLatests>>
      BY DEF Archive!ReadRate, Archive!ReadLastRow, Archive!InsertRow, Archive!JobFails, Archive!vars
    <2>2. WaitsInv /\ TableInv
      BY DEF ArchiveInv
    <2>3. /\ arRows \in Seq(PriceRow) /\ arJobs \in [Jobs -> PriceJob]
          /\ k.at # "idle" => k.candidate \in arLatests \ {None} /\ k.begun <= Len(arRows)
      BY <2>2 DEF TableInv
    <2>4. QED
      BY <2>1, <2>2, <2>3
  <1>1. none \in PriceJob /\ none.at = "idle" /\ none.candidate = None /\ none.begun = 0 /\ none.seen = 0
    BY DEF Archive!NoJob, PriceJob
  <1> HIDE DEF none
  <1>2. JobTold(none, arRows) /\ JobAhead(none, arRows)
    BY <1>1 DEF JobTold, JobAhead
  <1>3. ASSUME arJobs' = [arJobs EXCEPT ![j] = none], arRows' = arRows
        PROVE  ArchiveInv'
    BY <1>0, <1>1, <1>2, <1>3, PriceJobMoves
  <1>4. CASE Archive!ReadRate(j)
    <2>1. PICK r \in arLatests \ {None} :
            /\ arRows' = arRows
            /\ arJobs' = [arJobs EXCEPT ![j] =
                 [none EXCEPT !.at = "rate", !.candidate = r,
                              !.begun = IF r = Archive!LatestRate THEN Len(arRows) ELSE 0]]
      BY <1>4 DEF Archive!ReadRate, none
    <2> DEFINE b == IF r = Archive!LatestRate THEN Len(arRows) ELSE 0
               m == [none EXCEPT !.at = "rate", !.candidate = r, !.begun = b]
    <2>2. b \in Nat /\ b <= Len(arRows) /\ (b # 0 => r = Archive!LatestRate)
      BY <1>0
    <2>3. r \in Nat
      BY <1>0, <2>1 DEF TableInv
    <2>4. arJobs' = [arJobs EXCEPT ![j] = m]
      BY <2>1
    <2> HIDE DEF b
    <2>5. m \in PriceJob /\ m.at = "rate" /\ m.candidate = r /\ m.begun = b
      BY <1>1, <2>2, <2>3 DEF PriceJob
    <2> HIDE DEF m
    <2>6. ASSUME arNow <= Expiry + Kept, NEW i \in 1 .. b
          PROVE  arRows[i].rate <= r
      <3>1. r = Archive!LatestRate /\ i \in 1 .. Len(arRows)
        BY <1>0, <2>2, <2>6
      <3>2. arRates # {} /\ \A q \in arRates : q \in Nat
        BY <1>0, <2>3, <3>1, OracleNumbers DEF Archive!LatestRate, WaitsInv
      <3>3. \A q \in arRates : q <= r
        <4>1. arNow \in Nat /\ arRates \subseteq 0 .. arNow
          BY <1>0 DEF WaitsInv
        <4>2. \A q \in arRates : q <= Archive!Max(arRates)
          BY <3>2, <4>1, MaxHeld
        <4>3. QED
          BY <3>1, <3>2, <4>2 DEF Archive!LatestRate
      <3>4. /\ arRows[i].rate \in Nat /\ arRows[i].rate \in arLatests \ {None}
        <4>1. arRows[i] \in PriceRow
          BY <1>0, <3>1
        <4>2. arRows[i].rate \in Nat
          BY <4>1 DEF PriceRow
        <4>3. QED
          BY <1>0, <3>1, <4>2, OracleNumbers DEF TableInv
      <3>5. SeenIn(arRows[i].rate, arRates, arNow)
        BY <1>0, <2>6, <3>4 DEF TableInv
      <3>6. PICK q \in arRates : arRows[i].rate <= q
        BY <3>2, <3>5 DEF SeenIn
      <3>7. q \in Nat /\ q <= r
        BY <3>2, <3>3, <3>6
      <3>8. QED
        BY <2>3, <3>4, <3>6, <3>7
    <2>7. JobTold(m, arRows) /\ (arNow <= Expiry + Kept => JobAhead(m, arRows))
      BY <2>5, <2>6 DEF JobTold, JobAhead
    <2>8. m.at # "idle" => m.candidate \in arLatests \ {None} /\ m.begun <= Len(arRows)
      BY <2>1, <2>2, <2>5
    <2>9. QED
      BY <1>0, <2>1, <2>4, <2>5, <2>7, <2>8, PriceJobMoves
  <1>5. CASE Archive!ReadLastRow(j)
    <2> DEFINE same == arRows # <<>> /\ arRows[Len(arRows)].rate = k.candidate
               m == [k EXCEPT !.at = "row", !.seen = Len(arRows)]
    <2>1. /\ k.at = "rate" /\ arRows' = arRows
          /\ arJobs' = [arJobs EXCEPT ![j] = IF same THEN none ELSE m]
      BY <1>0, <1>5 DEF Archive!ReadLastRow, none
    <2>2. CASE same
      BY <1>3, <2>1, <2>2
    <2>3. CASE ~same
      <3>1. /\ m \in PriceJob /\ m.at = "row" /\ m.candidate = k.candidate
            /\ m.begun = k.begun /\ m.seen = Len(arRows)
        BY <1>0 DEF PriceJob
      <3>2. arNow <= Expiry + Kept => JobAhead(k, arRows)
        BY <1>0 DEF TableInv
      <3>3. arJobs' = [arJobs EXCEPT ![j] = m]
        BY <2>1, <2>3
      <3>4. arRows # <<>> => arRows[Len(arRows)].rate # k.candidate
        BY <2>3
      <3> HIDE DEF m, same, k
      <3>5. JobTold(m, arRows)
        <4>1. \A i \in 1 .. Len(arRows) : arRows # <<>>
          BY <1>0
        <4>2. QED
          BY <1>0, <3>1, <3>4, <4>1 DEF JobTold
      <3>6. arNow <= Expiry + Kept => JobAhead(m, arRows)
        BY <2>1, <3>1, <3>2 DEF JobAhead
      <3>7. m.at # "idle" => m.candidate \in arLatests \ {None} /\ m.begun <= Len(arRows)
        BY <1>0, <2>1, <3>1
      <3>8. QED
        BY <1>0, <2>1, <3>1, <3>3, <3>5, <3>6, <3>7, PriceJobMoves
    <2>4. QED
      BY <2>2, <2>3
  <1>6. CASE Archive!InsertRow(j)
    <2> DEFINE new == [rate |-> k.candidate, begun |-> k.begun, seen |-> k.seen]
    <2>1. /\ k.at = "row" /\ arRows' = Append(arRows, new)
          /\ arJobs' = [arJobs EXCEPT ![j] = none]
      BY <1>0, <1>6 DEF Archive!InsertRow, none
    <2>2. k.candidate \in arLatests /\ k.candidate \in Nat
      BY <1>0, <2>1 DEF TableInv
    <2>3. /\ RowsTold(arRows) /\ JobTold(k, arRows)
          /\ arNow <= Expiry + Kept => RowsAhead(arRows) /\ JobAhead(k, arRows)
      BY <1>0 DEF TableInv
    <2>4. /\ arRows' \in Seq(PriceRow) /\ Len(arRows') = Len(arRows) + 1
          /\ \A i \in 1 .. Len(arRows) : arRows'[i] = arRows[i]
          /\ arRows'[Len(arRows) + 1].rate = k.candidate
          /\ RowsTold(arRows) /\ JobTold(k, arRows) => RowsTold(arRows')
          /\ RowsAhead(arRows) /\ JobAhead(k, arRows) => RowsAhead(arRows')
          /\ \A other \in PriceJob : JobTold(other, arRows) => JobTold(other, arRows')
          /\ \A other \in PriceJob :
               (other.at # "idle" => other.begun <= Len(arRows)) /\ JobAhead(other, arRows)
                 => JobAhead(other, arRows')
      <3> HIDE DEF k
      <3>1. arRows' = Longer(arRows, k)
        BY <2>1 DEF Longer
      <3>2. k \in PriceJob /\ k.at = "row" /\ k.candidate \in Nat /\ arRows \in Seq(PriceRow)
        BY <1>0, <2>1, <2>2
      <3> HIDE DEF new
      <3>3. QED
        BY <3>1, <3>2, RowAppended
    <2> HIDE DEF k, new
    <2>5. \A i \in 1 .. Len(arRows') : arRows'[i].rate \in arLatests
      <3>1. ASSUME NEW i \in 1 .. Len(arRows')
            PROVE  i \in 1 .. Len(arRows) \/ i = Len(arRows) + 1
        BY <1>0, <2>4
      <3>2. \A i \in 1 .. Len(arRows) : arRows[i].rate \in arLatests
        BY <1>0 DEF TableInv
      <3>3. QED
        BY <2>2, <2>4, <3>1, <3>2
    <2>6. ASSUME NEW i \in Jobs
          PROVE  /\ arJobs'[i] \in PriceJob
                 /\ arJobs'[i].at # "idle" =>
                      arJobs'[i].candidate \in arLatests \ {None} /\ arJobs'[i].begun <= Len(arRows')
                 /\ JobTold(arJobs'[i], arRows')
                 /\ arNow <= Expiry + Kept => JobAhead(arJobs'[i], arRows')
      <3>1. CASE i = j
        <4>1. arJobs'[i] = none
          BY <1>0, <2>1, <3>1
        <4>2. JobTold(none, arRows') /\ JobAhead(none, arRows')
          BY <1>1 DEF JobTold, JobAhead
        <4>3. QED
          BY <1>1, <4>1, <4>2
      <3>2. CASE i # j
        <4>1. /\ arJobs'[i] = arJobs[i] /\ arJobs[i] \in PriceJob
              /\ arJobs[i].at # "idle" =>
                   arJobs[i].candidate \in arLatests \ {None} /\ arJobs[i].begun <= Len(arRows)
              /\ JobTold(arJobs[i], arRows)
              /\ arNow <= Expiry + Kept => JobAhead(arJobs[i], arRows)
          BY <1>0, <2>1, <3>2 DEF TableInv
        <4> DEFINE o == arJobs[i]
        <4>2. o.begun \in Nat
          BY <4>1 DEF PriceJob
        <4>3. o.begun <= Len(arRows) => o.begun <= Len(arRows')
          <5> HIDE DEF o
          <5>1. QED
            BY <1>0, <2>4, <4>2
        <4>4. /\ JobTold(o, arRows')
              /\ arNow <= Expiry + Kept => JobAhead(o, arRows')
          BY <2>4, <4>1
        <4>5. QED
          BY <4>1, <4>3, <4>4
      <3>3. QED
        BY <3>1, <3>2
    <2>7. DOMAIN arJobs' = Jobs /\ arJobs' = [i \in Jobs |-> arJobs'[i]]
      BY <1>0, <2>1
    <2>8. arJobs' \in [Jobs -> PriceJob]
      BY <2>6, <2>7
    <2>9. TableInv'
      BY <1>0, <2>3, <2>4, <2>5, <2>6, <2>8 DEF TableInv
    <2>10. QED
      BY <1>0, <2>9 DEF ArchiveInv, WaitsInv
  <1>7. CASE Archive!JobFails(j)
    <2>1. arJobs' = [arJobs EXCEPT ![j] = none] /\ arRows' = arRows
      BY <1>7 DEF Archive!JobFails, none
    <2>2. QED
      BY <1>3, <2>1
  <1>8. QED
    BY <1>4, <1>5, <1>6, <1>7

(* Whatever moves, a row steps back only for a reason.                     *)
LEMMA ArchiveKeeps ==
  ASSUME ArchiveInv, Archive!ArchiveNext \/ UNCHANGED arVars
  PROVE  ArchiveInv'
  <1>1. CASE /\ Archive!Next /\ arLatests' = arLatests \union {Archive!LatestRate'}
             /\ UNCHANGED Archive!archiveVars
    BY <1>1, OracleKeeps DEF Archive!archiveVars
  <1>2. ASSUME NEW j \in Jobs,
               \/ Archive!ReadRate(j) \/ Archive!ReadLastRow(j)
               \/ Archive!InsertRow(j) \/ Archive!JobFails(j)
        PROVE  ArchiveInv'
    BY <1>2, CopyKeeps
  <1>3. CASE UNCHANGED arVars
    BY <1>3 DEF ArchiveInv, WaitsInv, TableInv, arVars
  <1>4. QED
    BY <1>1, <1>2, <1>3 DEF Archive!ArchiveNext

(* Jobs of the market data overlap, fail between two batches and overwrite *)
(* each other's rows, and the price table is written by overlapping jobs   *)
(* from a cache that is filled and trimmed and asked through replicas that *)
(* may be behind: no row claims to be newer than what it holds, the        *)
(* history has no hole, and a price is older than one before it only if    *)
(* its job asked before that one was there or was answered by such a       *)
(* replica.                                                                *)
THEOREM MarketRowsAlwaysTrue == UnionSpec => []MarketRowsAreTrue
  <1>1. UnionInit => MarketInv /\ ArchiveInv
    BY MarketInit, ArchiveStarts DEF UnionInit
  <1>2. MarketInv /\ ArchiveInv /\ [UnionNext]_unionVars => (MarketInv /\ ArchiveInv)'
    <2>1. SUFFICES ASSUME MarketInv, ArchiveInv, [UnionNext]_unionVars
                   PROVE  (MarketInv /\ ArchiveInv)'
      OBVIOUS
    <2>2. MarketJobs!Next \/ UNCHANGED mkVars
      BY <2>1 DEF UnionNext, unionVars
    <2>3. Archive!ArchiveNext \/ UNCHANGED arVars
      BY <2>1 DEF UnionNext, unionVars
    <2>4. MarketInv'
      BY <2>1, <2>2, MarketKeeps
    <2>5. ArchiveInv'
      BY <2>1, <2>3, ArchiveKeeps
    <2>6. QED
      BY <2>4, <2>5
  <1>3. MarketInv /\ ArchiveInv => MarketRowsAreTrue
    <2>1. ArchiveInv => Archive!RowsStepBackForAReason
      BY DEF ArchiveInv, TableInv, RowsTold, RowsAhead, Archive!RowsStepBackForAReason
    <2>2. QED
      BY <2>1, TablesAreTrue DEF MarketRowsAreTrue
  <1>4. QED
    BY <1>1, <1>2, <1>3, PTL DEF UnionSpec

-----------------------------------------------------------------------------
(* The tracking of deposits.                                               *)

RowFields == {"status", "confs", "attempts", "next", "seen"}
DepJobFields == {"at", "now", "tip", "failed", "old"}
PartFields == {"at", "list", "due", "before", "rise", "linked"}

CopyFits(rows) ==
  DOMAIN rows = Deposits /\ \A d \in Deposits : DOMAIN rows[d] = RowFields

(* A job scans the chain up to its tip, then serves the users.             *)
DepJobFits(jb, h) ==
  /\ DOMAIN jb = DepJobFields /\ jb.at \in {"idle", "begun", "scan", "group", "sync"}
  /\ jb.tip \in Nat /\ jb.tip <= h /\ jb.failed \in BOOLEAN

(* What it does for a user goes with its stage, and is about his deposits. *)
PartFits(jb, p, u) ==
  /\ DOMAIN p = PartFields
  /\ p.list \subseteq DepositJobs!Of(u) /\ p.due \subseteq DepositJobs!Of(u)
  /\ p.linked \subseteq DepositJobs!Of(u)
  /\ jb.at \in {"idle", "begun", "group"} => p.at = "idle"
  /\ jb.at = "scan" => p.at \in {"fetch", "read", "write", "done"}
  /\ jb.at = "sync" =>
       p.at \in {"before", "call", "after", "list", "credit", "retry", "done"}

(* A job will still look at a deposit, or will not move the cursor.        *)
Covered(d, jb, p) ==
  \/ jb.failed \/ jb.at \in {"idle", "begun"}
  \/ jb.at = "scan" /\ (p.at = "fetch" \/ (p.at \in {"read", "write"} /\ d \in p.list))

(* A job will not write the row of a deposit from what it has read.        *)
Untouched(d, jb, p) ==
  /\ ~(p.at = "write" /\ d \in p.linked)
  /\ jb.at = "group" => d \notin jb.old /\ d \notin p.due
  /\ p.at \in {"before", "call", "after", "list"} => d \notin p.due
  /\ p.at = "credit" => d \notin p.list /\ (d \in p.due => d \in p.linked)
  /\ p.at = "retry" => d \notin p.list

(* What a job and a row know of each other: m is the deposit's height, own *)
(* says that the job credited it last, lost that its owner was skipped.    *)
Told(d, jb, p, m, r, own, lost) ==
  /\ m \in 1 .. jb.tip /\ ~lost /\ r.status = "none" => Covered(d, jb, p)
  /\ r.status = "credited" /\ own => Untouched(d, jb, p)

DepositInv ==
  /\ depHeight \in Nat /\ depCursor \in Nat /\ depCursor <= depHeight
  /\ DOMAIN depMined = Deposits
  /\ \A d \in Deposits : depMined[d] \in Nat /\ depMined[d] <= depHeight
  /\ CopyFits(depRow) /\ DOMAIN depCreditor = Deposits
  /\ DOMAIN depCopy = Jobs /\ DOMAIN depFresh = Jobs
  /\ \A j \in Jobs : CopyFits(depCopy[j]) /\ CopyFits(depFresh[j])
  /\ DOMAIN depJob = Jobs /\ DOMAIN depPart = Jobs
  /\ \A j \in Jobs : DepJobFits(depJob[j], depHeight) /\ DOMAIN depPart[j] = Users
  /\ \A j \in Jobs, u \in Users : PartFits(depJob[j], depPart[j][u], u)
  /\ \A j \in Jobs, d \in Deposits :
       Told(d, depJob[j], depPart[j][Owner[d]], depMined[d], depRow[d],
            depCreditor[d] = j, Owner[d] \in depSkipped)
  /\ DepositJobs!NoDepositOverlooked

(* What a job's step does to the rows: none disappears, and a row credited *)
(* after it was so before, or is credited by this job.                     *)
RowsGoOn(j) ==
  /\ CopyFits(depRow)' /\ DOMAIN depCreditor' = Deposits
  /\ \A d \in Deposits :
       /\ depRow'[d].status = "none" => depRow[d].status = "none"
       /\ depRow'[d].status = "credited" /\ depCreditor'[d] # j =>
            depRow[d].status = "credited" /\ depCreditor'[d] = depCreditor[d]

OnlyJob(j) ==
  /\ DOMAIN depJob' = Jobs /\ DOMAIN depPart' = Jobs
  /\ \A i \in Jobs : i # j => depJob'[i] = depJob[i] /\ depPart'[i] = depPart[i]
  /\ DOMAIN depPart'[j] = Users

OnlyUser(j, u) ==
  /\ DOMAIN depPart' = Jobs /\ DOMAIN depPart'[j] = Users
  /\ \A i \in Jobs : i # j => depPart'[i] = depPart[i]
  /\ \A v \in Users : v # u => depPart'[j][v] = depPart[j][v]

CopiesFit ==
  /\ DOMAIN depCopy = Jobs /\ DOMAIN depFresh = Jobs
  /\ \A j \in Jobs : CopyFits(depCopy[j]) /\ CopyFits(depFresh[j])

(* Every deposit has its owner.                                            *)
LEMMA Owners == \A d \in Deposits : Owner[d] \in Users
  BY CronJobsAssumption DEF DepositJobs!DepositTrackingAssumption

(* At first nothing is mined, and no job has begun.                        *)
LEMMA DepositInit == DepositJobs!Init => DepositInv
  <1>1. SUFFICES ASSUME DepositJobs!Init PROVE DepositInv
    OBVIOUS
  <1>2. CopyFits(depRow) /\ CopiesFit
    BY <1>1 DEF DepositJobs!Init, DepositJobs!NoRow, CopyFits, CopiesFit, RowFields
  <1>3. \A j \in Jobs : DepJobFits(depJob[j], depHeight) /\ DOMAIN depPart[j] = Users
    <2>1. depHeight = 0 /\ \A j \in Jobs : depJob[j] = DepositJobs!NoJob
      BY <1>1 DEF DepositJobs!Init
    <2>2. \A j \in Jobs : DOMAIN depPart[j] = Users
      BY <1>1 DEF DepositJobs!Init
    <2>3. DepJobFits(DepositJobs!NoJob, 0)
      BY DEF DepositJobs!NoJob, DepJobFits, DepJobFields
    <2>4. QED
      BY <2>1, <2>2, <2>3
  <1>4. \A j \in Jobs, u \in Users : PartFits(depJob[j], depPart[j][u], u)
    BY <1>1 DEF DepositJobs!Init, DepositJobs!NoJob, DepositJobs!NoPart, PartFits, PartFields
  <1>5. \A d \in Deposits : depRow[d].status = "none"
    BY <1>1 DEF DepositJobs!Init, DepositJobs!NoRow
  <1>6. \A j \in Jobs : depJob[j].at = "idle"
    BY <1>1 DEF DepositJobs!Init, DepositJobs!NoJob
  <1>7. \A j \in Jobs, d \in Deposits :
          Told(d, depJob[j], depPart[j][Owner[d]], depMined[d], depRow[d],
               depCreditor[d] = j, Owner[d] \in depSkipped)
    BY <1>5, <1>6 DEF Told, Covered
  <1>8. depHeight = 0 /\ depCursor = 0 /\ depMined = [d \in Deposits |-> 0]
    BY <1>1 DEF DepositJobs!Init
  <1>9. DepositJobs!NoDepositOverlooked
    BY <1>8 DEF DepositJobs!NoDepositOverlooked
  <1>10. DOMAIN depCreditor = Deposits /\ DOMAIN depJob = Jobs /\ DOMAIN depPart = Jobs
    BY <1>1 DEF DepositJobs!Init
  <1>11. QED
    BY <1>2, <1>3, <1>4, <1>7, <1>8, <1>9, <1>10 DEF DepositInv, CopiesFit

(* A step of one job, and what has to be shown of it.                      *)
LEMMA DepositMoves ==
  ASSUME DepositInv, NEW j \in Jobs,
         UNCHANGED <<depHeight, depMined>>, depSkipped \subseteq depSkipped',
         OnlyJob(j), RowsGoOn(j), CopiesFit',
         depCursor' \in Nat, depCursor' <= depHeight,
         depCursor' = depCursor \/ (DepositJobs!NoDepositOverlooked)',
         DepJobFits(depJob'[j], depHeight),
         \A u \in Users : PartFits(depJob'[j], depPart'[j][u], u),
         \A d \in Deposits :
           Told(d, depJob'[j], depPart'[j][Owner[d]], depMined[d], depRow'[d],
                depCreditor'[d] = j, Owner[d] \in depSkipped')
  PROVE  DepositInv'
  <1>1. \A i \in Jobs : DepJobFits(depJob'[i], depHeight') /\ DOMAIN depPart'[i] = Users
    BY DEF DepositInv, OnlyJob
  <1>2. ASSUME NEW i \in Jobs, NEW u \in Users
        PROVE  PartFits(depJob'[i], depPart'[i][u], u)
    BY DEF DepositInv, OnlyJob
  <1>3. ASSUME NEW i \in Jobs, NEW d \in Deposits
        PROVE  Told(d, depJob'[i], depPart'[i][Owner[d]], depMined'[d], depRow'[d],
                    depCreditor'[d] = i, Owner[d] \in depSkipped')
    <2>1. CASE i = j
      BY <2>1
    <2>2. CASE i # j
      <3>1. Told(d, depJob[i], depPart[i][Owner[d]], depMined[d], depRow[d],
                 depCreditor[d] = i, Owner[d] \in depSkipped)
        BY DEF DepositInv
      <3>2. depJob'[i] = depJob[i] /\ depPart'[i] = depPart[i]
        BY <2>2 DEF OnlyJob
      <3>3. /\ depRow'[d].status = "none" => depRow[d].status = "none"
            /\ depRow'[d].status = "credited" /\ depCreditor'[d] = i =>
                 depRow[d].status = "credited" /\ depCreditor[d] = i
        BY <2>2 DEF RowsGoOn
      <3>4. Owner[d] \notin depSkipped' => Owner[d] \notin depSkipped
        OBVIOUS
      <3>5. QED
        BY <3>1, <3>2, <3>3, <3>4 DEF Told
    <2>3. QED
      BY <2>1, <2>2
  <1>4. (DepositJobs!NoDepositOverlooked)'
    <2>1. CASE depCursor' = depCursor
      <3>1. \A d \in Deposits : depRow'[d].status = "none" => depRow[d].status = "none"
        BY DEF RowsGoOn
      <3>2. \A d \in Deposits : Owner[d] \notin depSkipped' => Owner[d] \notin depSkipped
        OBVIOUS
      <3>3. QED
        BY <2>1, <3>1, <3>2 DEF DepositInv, DepositJobs!NoDepositOverlooked
    <2>2. QED
      BY <2>1
  <1>5. CopyFits(depRow') /\ DOMAIN depCreditor' = Deposits
    BY DEF RowsGoOn, CopyFits
  <1>6. DOMAIN depJob' = Jobs /\ DOMAIN depPart' = Jobs
    BY DEF OnlyJob
  <1>7. /\ depHeight' \in Nat /\ depCursor' <= depHeight'
        /\ DOMAIN depMined' = Deposits
        /\ \A d \in Deposits : depMined'[d] \in Nat /\ depMined'[d] <= depHeight'
    BY DEF DepositInv
  <1>8. QED
    BY <1>1, <1>2, <1>3, <1>4, <1>5, <1>6, <1>7 DEF DepositInv, CopiesFit

(* A step that writes no row.                                              *)
LEMMA RowsRest ==
  ASSUME DepositInv, NEW j \in Jobs, UNCHANGED <<depRow, depCreditor>>
  PROVE  RowsGoOn(j)
  BY DEF DepositInv, RowsGoOn, CopyFits

(* A step of a job for one user, and what has to be shown of it.           *)
LEMMA UserMoves ==
  ASSUME DepositInv, NEW j \in Jobs, NEW u \in Users,
         UNCHANGED <<depHeight, depMined, depCursor>>, depSkipped \subseteq depSkipped',
         OnlyJob(j), RowsGoOn(j), CopiesFit',
         \A v \in Users : v # u => depPart'[j][v] = depPart[j][v],
         \A d \in Deposits : Owner[d] # u =>
           depRow'[d] = depRow[d] /\ depCreditor'[d] = depCreditor[d],
         DOMAIN depJob'[j] = DepJobFields, depJob'[j].at = depJob[j].at,
         depJob'[j].tip = depJob[j].tip, depJob'[j].old = depJob[j].old,
         depJob'[j].failed \in BOOLEAN, depJob[j].failed => depJob'[j].failed,
         PartFits(depJob'[j], depPart'[j][u], u),
         \A d \in Deposits : Owner[d] = u =>
           Told(d, depJob'[j], depPart'[j][u], depMined[d], depRow'[d],
                depCreditor'[d] = j, u \in depSkipped')
  PROVE  DepositInv'
  <1>1. DepJobFits(depJob'[j], depHeight)
    BY DEF DepositInv, DepJobFits
  <1>2. ASSUME NEW v \in Users
        PROVE  PartFits(depJob'[j], depPart'[j][v], v)
    <2>1. CASE v = u
      BY <2>1
    <2>2. CASE v # u
      <3>1. PartFits(depJob[j], depPart[j][v], v) /\ depPart'[j][v] = depPart[j][v]
        BY <2>2 DEF DepositInv
      <3>2. QED
        BY <3>1 DEF PartFits
    <2>3. QED
      BY <2>1, <2>2
  <1>3. ASSUME NEW d \in Deposits
        PROVE  Told(d, depJob'[j], depPart'[j][Owner[d]], depMined[d], depRow'[d],
                    depCreditor'[d] = j, Owner[d] \in depSkipped')
    <2>1. CASE Owner[d] = u
      BY <2>1
    <2>2. CASE Owner[d] # u
      <3>1. Told(d, depJob[j], depPart[j][Owner[d]], depMined[d], depRow[d],
                 depCreditor[d] = j, Owner[d] \in depSkipped)
        BY DEF DepositInv
      <3>2. depPart'[j][Owner[d]] = depPart[j][Owner[d]]
        BY <2>2, Owners
      <3>3. depRow'[d] = depRow[d] /\ depCreditor'[d] = depCreditor[d]
        BY <2>2
      <3>4. Owner[d] \notin depSkipped' => Owner[d] \notin depSkipped
        OBVIOUS
      <3>5. Covered(d, depJob[j], depPart[j][Owner[d]]) => Covered(d, depJob'[j], depPart[j][Owner[d]])
        BY DEF Covered
      <3>6. Untouched(d, depJob[j], depPart[j][Owner[d]]) => Untouched(d, depJob'[j], depPart[j][Owner[d]])
        BY DEF Untouched
      <3>7. QED
        BY <3>1, <3>2, <3>3, <3>4, <3>5, <3>6 DEF Told
    <2>3. QED
      BY <2>1, <2>2
  <1>4. depCursor' \in Nat /\ depCursor' <= depHeight
    BY DEF DepositInv
  <1>5. QED
    BY <1>1, <1>2, <1>3, <1>4, DepositMoves

(* What is known of a job and its user.                                    *)
LEMMA UserAt ==
  ASSUME DepositInv, NEW j \in Jobs, NEW u \in Users
  PROVE  /\ DepJobFits(depJob[j], depHeight) /\ PartFits(depJob[j], depPart[j][u], u)
         /\ DOMAIN depJob = Jobs /\ DOMAIN depPart = Jobs /\ DOMAIN depPart[j] = Users
         /\ \A d \in Deposits : Owner[d] = u =>
              Told(d, depJob[j], depPart[j][u], depMined[d], depRow[d],
                   depCreditor[d] = j, u \in depSkipped)
         /\ \A d \in DepositJobs!Of(u) : d \in Deposits /\ Owner[d] = u
  BY DEF DepositInv, DepositJobs!Of

(* A job's step for one user that leaves the job and the rows as they are. *)
LEMMA QuietMove ==
  ASSUME DepositInv, NEW j \in Jobs, NEW u \in Users, NEW p,
         UNCHANGED <<depHeight, depMined, depCursor, depRow, depCreditor, depJob, depSkipped>>,
         OnlyUser(j, u), depPart'[j][u] = p, CopiesFit',
         PartFits(depJob[j], p, u),
         \A d \in DepositJobs!Of(u) :
           /\ depRow[d].status = "none" /\ Covered(d, depJob[j], depPart[j][u]) =>
                Covered(d, depJob[j], p)
           /\ depRow[d].status = "credited" /\ Untouched(d, depJob[j], depPart[j][u]) =>
                Untouched(d, depJob[j], p)
  PROVE  DepositInv'
  <1>1. /\ DOMAIN depJob = Jobs /\ DOMAIN depPart = Jobs /\ DOMAIN depPart[j] = Users
        /\ DepJobFits(depJob[j], depHeight)
    BY DEF DepositInv
  <1>2. (\A v \in Users : v # u => depPart'[j][v] = depPart[j][v]) /\ OnlyJob(j)
    BY <1>1 DEF OnlyUser, OnlyJob
  <1>3. ASSUME NEW d \in Deposits, Owner[d] = u
        PROVE  Told(d, depJob[j], p, depMined[d], depRow[d], depCreditor[d] = j, u \in depSkipped)
    <2>1. d \in DepositJobs!Of(u)
      BY <1>3 DEF DepositJobs!Of
    <2>2. Told(d, depJob[j], depPart[j][u], depMined[d], depRow[d], depCreditor[d] = j, u \in depSkipped)
      BY <1>3, UserAt
    <2>3. QED
      BY <2>1, <2>2 DEF Told
  <1>4. RowsGoOn(j)
    BY RowsRest
  <1>5. QED
    BY <1>1, <1>2, <1>3, <1>4, UserMoves DEF DepJobFits

(* A job's step for one user that writes the row of one of his deposits,   *)
(* which it then is done with.                                             *)
LEMMA RowMove ==
  ASSUME DepositInv, NEW j \in Jobs, NEW u \in Users, NEW p, NEW d \in DepositJobs!Of(u), NEW r,
         UNCHANGED <<depHeight, depMined, depCursor, depJob, depSkipped>>,
         depRow' = [depRow EXCEPT ![d] = r], DOMAIN r = RowFields, r.status # "none",
         \/ depCreditor' = [depCreditor EXCEPT ![d] = j]
         \/ r.status # "credited" /\ depCreditor' = depCreditor,
         OnlyUser(j, u), depPart'[j][u] = p, CopiesFit',
         PartFits(depJob[j], p, u),
         r.status = "credited" => Untouched(d, depJob[j], p),
         \A e \in DepositJobs!Of(u) : e # d =>
           /\ Covered(e, depJob[j], depPart[j][u]) => Covered(e, depJob[j], p)
           /\ Untouched(e, depJob[j], depPart[j][u]) => Untouched(e, depJob[j], p)
  PROVE  DepositInv'
  <1>1. /\ DOMAIN depJob = Jobs /\ DOMAIN depPart = Jobs /\ DOMAIN depPart[j] = Users
        /\ DepJobFits(depJob[j], depHeight)
        /\ DOMAIN depRow = Deposits /\ DOMAIN depCreditor = Deposits
        /\ \A e \in Deposits : DOMAIN depRow[e] = RowFields
    BY DEF DepositInv, CopyFits
  <1>2. (\A v \in Users : v # u => depPart'[j][v] = depPart[j][v]) /\ OnlyJob(j)
    BY <1>1 DEF OnlyUser, OnlyJob
  <1>3. d \in Deposits /\ Owner[d] = u
    BY DEF DepositJobs!Of
  <1>4. /\ DOMAIN depRow' = Deposits /\ depRow'[d] = r
        /\ \A e \in Deposits : e # d => depRow'[e] = depRow[e] /\ depCreditor'[e] = depCreditor[e]
        /\ DOMAIN depCreditor' = Deposits
        /\ r.status = "credited" => depCreditor'[d] = j
    BY <1>1, <1>3
  <1>5. RowsGoOn(j)
    BY <1>1, <1>3, <1>4 DEF RowsGoOn, CopyFits
  <1>6. ASSUME NEW e \in Deposits, Owner[e] = u
        PROVE  Told(e, depJob[j], p, depMined[e], depRow'[e], depCreditor'[e] = j, u \in depSkipped)
    <2>1. CASE e = d
      BY <1>4, <2>1 DEF Told
    <2>2. CASE e # d
      <3>1. e \in DepositJobs!Of(u)
        BY <1>6 DEF DepositJobs!Of
      <3>2. Told(e, depJob[j], depPart[j][u], depMined[e], depRow[e], depCreditor[e] = j, u \in depSkipped)
        BY <1>6, UserAt
      <3>3. depRow'[e] = depRow[e] /\ depCreditor'[e] = depCreditor[e]
        BY <1>4, <2>2
      <3>4. QED
        BY <2>2, <3>1, <3>2, <3>3 DEF Told
    <2>3. QED
      BY <2>1, <2>2
  <1>7. \A e \in Deposits : Owner[e] # u => depRow'[e] = depRow[e] /\ depCreditor'[e] = depCreditor[e]
    BY <1>3, <1>4
  <1>8. QED
    BY <1>1, <1>2, <1>5, <1>6, <1>7, UserMoves DEF DepJobFits

(* Copies that rest, are taken of rows, or are forgotten keep their shape. *)
LEMMA CopiesRest == ASSUME DepositInv, UNCHANGED <<depCopy, depFresh>> PROVE CopiesFit'
  BY DEF DepositInv, CopiesFit

(* So does one copy taken anew.                                            *)
LEMMA CopyTaken ==
  ASSUME DepositInv, NEW j \in Jobs, NEW rows, CopyFits(rows),
         \/ depCopy' = [depCopy EXCEPT ![j] = rows] /\ depFresh' = depFresh
         \/ depFresh' = [depFresh EXCEPT ![j] = rows] /\ depCopy' = depCopy
  PROVE  CopiesFit'
  BY DEF DepositInv, CopiesFit

(* And what is left of one.                                                *)
LEMMA Forgotten ==
  ASSUME DepositInv, NEW rows, CopyFits(rows), NEW ds
  PROVE  CopyFits(DepositJobs!Forget(rows, ds))
  BY DEF CopyFits, DepositJobs!Forget, DepositJobs!NoRow, RowFields

(* The scan: a deposit the explorer lists is on the list until it is       *)
(* written; a user without an address is skipped.                          *)
LEMMA FetchKeeps ==
  ASSUME DepositInv, NEW j \in Jobs, NEW u \in Users, DepositJobs!Fetch(j, u)
  PROVE  DepositInv'
  <1> DEFINE jb == depJob[j]
             p == depPart[j][u]
  <1>1. /\ DepJobFits(jb, depHeight) /\ PartFits(jb, p, u) /\ DOMAIN depJob = Jobs
        /\ DOMAIN depPart = Jobs /\ DOMAIN depPart[j] = Users
    BY UserAt
  <1>2. /\ p.at = "fetch"
        /\ UNCHANGED <<depHeight, depMined, depCursor, depRow, depCreditor, depJob, depCopy, depFresh>>
    BY DEF DepositJobs!Fetch, DepositJobs!chain, DepositJobs!canister
  <1>3. jb.at = "scan" /\ DOMAIN p = PartFields
    BY <1>1, <1>2 DEF DepJobFits, PartFits
  <1>4. CopiesFit' /\ RowsGoOn(j)
    BY <1>2, CopiesRest, RowsRest
  <1>5. CASE /\ depPart' = [depPart EXCEPT ![j][u].at = "read",
                                           ![j][u].list = DepositJobs!Confirmed(j, u)]
             /\ UNCHANGED depSkipped
    <2> DEFINE q == depPart'[j][u]
    <2>1. /\ OnlyJob(j) /\ (\A v \in Users : v # u => depPart'[j][v] = depPart[j][v])
          /\ DOMAIN q = PartFields /\ q.at = "read" /\ q.list = DepositJobs!Confirmed(j, u)
          /\ q.due = p.due /\ q.linked = p.linked
      BY <1>1, <1>2, <1>3, <1>5 DEF OnlyJob, PartFields
    <2>2. DepositJobs!Confirmed(j, u) = {d \in DepositJobs!Of(u) : depMined[d] \in 1 .. jb.tip}
      BY DEF DepositJobs!Confirmed
    <2> HIDE DEF q, p, jb
    <2>3. PartFits(jb, q, u)
      BY <1>1, <1>3, <2>1, <2>2 DEF PartFits
    <2>4. ASSUME NEW d \in Deposits, Owner[d] = u
          PROVE  Told(d, jb, q, depMined[d], depRow'[d], depCreditor'[d] = j, u \in depSkipped')
      <3>1. d \in DepositJobs!Of(u)
        BY <2>4 DEF DepositJobs!Of
      <3>2. QED
        BY <1>3, <2>1, <2>2, <3>1 DEF Told, Covered, Untouched
    <2>5. QED
      BY <1>1, <1>2, <1>4, <1>5, <2>1, <2>3, <2>4, UserMoves DEF q, p, jb, DepJobFits
  <1>6. CASE /\ depSkipped' = depSkipped \cup {u}
             /\ depPart' = [depPart EXCEPT ![j][u].at = "done"]
    <2> DEFINE q == depPart'[j][u]
    <2>1. /\ OnlyJob(j) /\ (\A v \in Users : v # u => depPart'[j][v] = depPart[j][v])
          /\ DOMAIN q = PartFields /\ q.at = "done" /\ q.list = p.list
          /\ q.due = p.due /\ q.linked = p.linked
      BY <1>1, <1>2, <1>3, <1>6 DEF OnlyJob, PartFields
    <2> HIDE DEF q, p, jb
    <2>3. PartFits(jb, q, u)
      BY <1>1, <1>3, <2>1 DEF PartFits
    <2>4. ASSUME NEW d \in Deposits, Owner[d] = u
          PROVE  Told(d, jb, q, depMined[d], depRow'[d], depCreditor'[d] = j, u \in depSkipped')
      BY <1>3, <1>6, <2>1 DEF Told, Untouched
    <2>5. QED
      BY <1>1, <1>2, <1>4, <1>6, <2>1, <2>3, <2>4, UserMoves DEF q, p, jb, DepJobFits
  <1>7. QED
    BY <1>5, <1>6 DEF DepositJobs!Fetch

(* A listed deposit whose row is credited is passed over; the row of       *)
(* another is read to be written.                                          *)
LEMMA DepReadKeeps ==
  ASSUME DepositInv, NEW j \in Jobs, NEW u \in Users, DepositJobs!Read(j, u)
  PROVE  DepositInv'
  <1> DEFINE jb == depJob[j]
             p == depPart[j][u]
             q == depPart'[j][u]
  <1>1. /\ DepJobFits(jb, depHeight) /\ PartFits(jb, p, u) /\ DOMAIN depPart = Jobs
        /\ DOMAIN depPart[j] = Users /\ \A d \in DepositJobs!Of(u) : d \in Deposits /\ Owner[d] = u
    BY UserAt
  <1>2. /\ p.at = "read" /\ depFresh' = depFresh
        /\ UNCHANGED <<depHeight, depMined, depCursor, depRow, depCreditor, depJob, depSkipped>>
    BY DEF DepositJobs!Read, DepositJobs!chain, DepositJobs!canister, DepositJobs!tables, DepositJobs!history
  <1>3. jb.at = "scan" /\ DOMAIN p = PartFields
    BY <1>1, <1>2 DEF DepJobFits, PartFits
  <1>4. CASE p.list = {} /\ depPart' = [depPart EXCEPT ![j][u].at = "done"] /\ UNCHANGED depCopy
    <2>1. /\ OnlyUser(j, u) /\ DOMAIN q = PartFields /\ q.at = "done" /\ q.list = p.list
          /\ q.due = p.due /\ q.linked = p.linked
      BY <1>1, <1>2, <1>3, <1>4 DEF OnlyUser, PartFields
    <2> HIDE DEF q, p, jb
    <2>2. PartFits(jb, q, u)
      BY <1>1, <1>3, <2>1 DEF PartFits
    <2>3. CopiesFit'
      BY <1>2, <1>4, CopiesRest
    <2>4. \A d \in DepositJobs!Of(u) : Covered(d, jb, p) => Covered(d, jb, q)
      BY <1>2, <1>3, <1>4, <2>1 DEF Covered
    <2>5. \A d \in DepositJobs!Of(u) : Untouched(d, jb, q)
      BY <1>3, <2>1 DEF Untouched
    <2>6. QED
      BY <1>2, <2>1, <2>2, <2>3, <2>4, <2>5, QuietMove DEF q, p, jb
  <1>5. ASSUME NEW d \in p.list, depRow[d].status = "credited",
               depPart' = [depPart EXCEPT ![j][u].list = p.list \ {d}], UNCHANGED depCopy
        PROVE  DepositInv'
    <2>1. /\ OnlyUser(j, u) /\ DOMAIN q = PartFields /\ q.at = "read" /\ q.list = p.list \ {d}
          /\ q.due = p.due /\ q.linked = p.linked
      BY <1>1, <1>2, <1>3, <1>5 DEF OnlyUser, PartFields
    <2> HIDE DEF q, p, jb
    <2>2. PartFits(jb, q, u)
      BY <1>1, <1>3, <2>1 DEF PartFits
    <2>3. CopiesFit'
      BY <1>2, <1>5, CopiesRest
    <2>4. \A e \in DepositJobs!Of(u) :
            depRow[e].status = "none" /\ Covered(e, jb, p) => Covered(e, jb, q)
      BY <1>2, <1>3, <1>5, <2>1 DEF Covered
    <2>5. \A e \in DepositJobs!Of(u) : Untouched(e, jb, q)
      BY <1>3, <2>1 DEF Untouched
    <2>6. QED
      BY <1>2, <2>1, <2>2, <2>3, <2>4, <2>5, QuietMove DEF q, p, jb
  <1>6. ASSUME NEW d \in p.list, depRow[d].status # "credited",
               depPart' = [depPart EXCEPT ![j][u].at = "write", ![j][u].linked = {d}],
               depCopy' = [depCopy EXCEPT ![j][d] = depRow[d]]
        PROVE  DepositInv'
    <2>0. d \in DepositJobs!Of(u) /\ d \in Deposits
      BY <1>1 DEF PartFits
    <2>1. /\ OnlyUser(j, u) /\ DOMAIN q = PartFields /\ q.at = "write" /\ q.list = p.list
          /\ q.due = p.due /\ q.linked = {d}
      BY <1>1, <1>2, <1>3, <1>6 DEF OnlyUser, PartFields
    <2> HIDE DEF q, p, jb
    <2>2. PartFits(jb, q, u)
      BY <1>1, <1>3, <2>0, <2>1 DEF PartFits
    <2>3. CopiesFit'
      <3>1. CopyFits([depCopy[j] EXCEPT ![d] = depRow[d]])
        BY <2>0 DEF DepositInv, CopyFits
      <3>2. QED
        BY <1>2, <1>6, <3>1, CopyTaken
    <2>4. \A e \in DepositJobs!Of(u) : Covered(e, jb, p) => Covered(e, jb, q)
      BY <1>2, <1>3, <2>1 DEF Covered
    <2>5. \A e \in DepositJobs!Of(u) : depRow[e].status = "credited" => Untouched(e, jb, q)
      BY <1>3, <1>6, <2>1 DEF Untouched
    <2>6. QED
      BY <1>2, <2>1, <2>2, <2>3, <2>4, <2>5, QuietMove DEF q, p, jb
  <1>7. QED
    BY <1>4, <1>5, <1>6 DEF DepositJobs!Read

(* The row is written, and the deposit leaves the list.                    *)
LEMMA DepWriteKeeps ==
  ASSUME DepositInv, NEW j \in Jobs, NEW u \in Users, DepositJobs!Write(j, u)
  PROVE  DepositInv'
  <1> DEFINE jb == depJob[j]
             p == depPart[j][u]
             q == depPart'[j][u]
  <1>1. /\ DepJobFits(jb, depHeight) /\ PartFits(jb, p, u) /\ DOMAIN depPart = Jobs
        /\ DOMAIN depPart[j] = Users /\ \A d \in DepositJobs!Of(u) : d \in Deposits /\ Owner[d] = u
    BY UserAt
  <1>2. /\ p.at = "write" /\ depFresh' = depFresh
        /\ UNCHANGED <<depHeight, depMined, depCursor, depCreditor, depJob, depSkipped>>
    BY DEF DepositJobs!Write, DepositJobs!chain, DepositJobs!canister, DepositJobs!history
  <1>3. jb.at = "scan" /\ DOMAIN p = PartFields
    BY <1>1, <1>2 DEF DepJobFits, PartFits
  <1>4. PICK d \in p.linked :
          /\ depRow' = [depRow EXCEPT ![d] = DepositJobs!Detected(j, d)]
          /\ depCopy' = [depCopy EXCEPT ![j][d] = DepositJobs!NoRow]
          /\ depPart' = [depPart EXCEPT ![j][u].at = "read", ![j][u].list = p.list \ {d},
                                        ![j][u].linked = {}]
    BY <1>1, <1>3 DEF DepositJobs!Write, PartFields
  <1>5. d \in DepositJobs!Of(u) /\ d \in Deposits
    BY <1>1 DEF PartFits
  <1>6. /\ OnlyUser(j, u) /\ DOMAIN q = PartFields /\ q.at = "read" /\ q.list = p.list \ {d}
        /\ q.due = p.due /\ q.linked = {}
    BY <1>1, <1>2, <1>3, <1>4 DEF OnlyUser, PartFields
  <1> DEFINE r == DepositJobs!Detected(j, d)
  <1>7. DOMAIN r = RowFields /\ r.status = "matured"
    <2>1. DOMAIN depCopy[j][d] = RowFields
      BY <1>5 DEF DepositInv, CopyFits
    <2>2. QED
      BY <2>1 DEF DepositJobs!Detected, RowFields
  <1>8. CopiesFit'
    <2>1. CopyFits([depCopy[j] EXCEPT ![d] = DepositJobs!NoRow])
      BY <1>5 DEF DepositInv, CopyFits, DepositJobs!NoRow, RowFields
    <2>2. QED
      BY <1>2, <1>4, <2>1, CopyTaken
  <1> HIDE DEF q, p, jb, r
  <1>9. PartFits(jb, q, u)
    BY <1>1, <1>3, <1>6 DEF PartFits
  <1>10. \A e \in DepositJobs!Of(u) : e # d /\ Covered(e, jb, p) => Covered(e, jb, q)
    BY <1>2, <1>3, <1>6 DEF Covered
  <1>11. \A e \in DepositJobs!Of(u) : Untouched(e, jb, q)
    BY <1>3, <1>6 DEF Untouched
  <1>12. QED
    BY <1>2, <1>4, <1>5, <1>6, <1>7, <1>8, <1>9, <1>10, <1>11, RowMove DEF q, p, jb, r

(* What is thrown ends the work for the user, and keeps the cursor.        *)
LEMMA ThrowKeeps ==
  ASSUME DepositInv, NEW j \in Jobs, NEW u \in Users, DepositJobs!Throw(j, u)
  PROVE  DepositInv'
  <1> DEFINE jb == depJob[j]
             p == depPart[j][u]
             q == depPart'[j][u]
             k == depJob'[j]
  <1>1. /\ DepJobFits(jb, depHeight) /\ PartFits(jb, p, u) /\ DOMAIN depPart = Jobs
        /\ DOMAIN depJob = Jobs
        /\ DOMAIN depPart[j] = Users /\ \A d \in DepositJobs!Of(u) : d \in Deposits /\ Owner[d] = u
    BY UserAt
  <1>2. /\ p.at \in {"fetch", "read", "write", "before", "list", "credit", "retry"}
        /\ depPart' = [depPart EXCEPT ![j][u] = [DepositJobs!NoPart EXCEPT !.at = "done"]]
        /\ depJob' = [depJob EXCEPT ![j].failed = TRUE]
        /\ depCopy' = [depCopy EXCEPT ![j] = DepositJobs!Forget(depCopy[j], DepositJobs!Of(u))]
        /\ depFresh' = [depFresh EXCEPT ![j] = DepositJobs!Forget(depFresh[j], DepositJobs!Of(u))]
        /\ UNCHANGED <<depHeight, depMined, depCursor, depRow, depCreditor, depSkipped>>
    BY DEF DepositJobs!Throw, DepositJobs!chain, DepositJobs!canister, DepositJobs!tables, DepositJobs!history
  <1>3. DOMAIN jb = DepJobFields /\ jb.at \in {"scan", "sync"}
    BY <1>1, <1>2 DEF DepJobFits, PartFits
  <1>4. /\ OnlyUser(j, u) /\ OnlyJob(j) /\ DOMAIN q = PartFields /\ q.at = "done" /\ q.list = {}
        /\ q.due = {} /\ q.linked = {}
    BY <1>1, <1>2 DEF OnlyUser, OnlyJob, PartFields, DepositJobs!NoPart
  <1>5. DOMAIN k = DepJobFields /\ k.at = jb.at /\ k.tip = jb.tip /\ k.old = jb.old /\ k.failed = TRUE
    BY <1>1, <1>2, <1>3 DEF DepJobFields
  <1>6. CopiesFit'
    <2>1. \A i \in Jobs : CopyFits(depCopy[i]) /\ CopyFits(depFresh[i])
      BY DEF DepositInv
    <2>2. /\ CopyFits(DepositJobs!Forget(depCopy[j], DepositJobs!Of(u)))
          /\ CopyFits(DepositJobs!Forget(depFresh[j], DepositJobs!Of(u)))
      BY <2>1, Forgotten
    <2>3. DOMAIN depCopy = Jobs /\ DOMAIN depFresh = Jobs
      BY DEF DepositInv
    <2>4. QED
      BY <1>2, <2>1, <2>2, <2>3 DEF CopiesFit
  <1>7. RowsGoOn(j)
    BY <1>2, RowsRest
  <1> HIDE DEF q, p, jb, k
  <1>8. PartFits(k, q, u)
    BY <1>3, <1>4, <1>5 DEF PartFits
  <1>9. \A d \in Deposits :
          Told(d, k, q, depMined[d], depRow'[d], depCreditor'[d] = j, u \in depSkipped')
    BY <1>3, <1>4, <1>5 DEF Told, Covered, Untouched
  <1>10. QED
    BY <1>2, <1>4, <1>5, <1>6, <1>7, <1>8, <1>9, UserMoves DEF q, p, jb, k, OnlyUser

(* The balance before, the call of the canister and the balance after      *)
(* touch no row.                                                           *)
LEMMA BalancesKeep ==
  ASSUME DepositInv, NEW j \in Jobs, NEW u \in Users,
         DepositJobs!Before(j, u) \/ DepositJobs!Call(j, u) \/ DepositJobs!After(j, u)
  PROVE  DepositInv'
  <1> DEFINE jb == depJob[j]
             p == depPart[j][u]
             q == depPart'[j][u]
  <1>1. /\ DepJobFits(jb, depHeight) /\ PartFits(jb, p, u) /\ DOMAIN depPart = Jobs
        /\ DOMAIN depPart[j] = Users
    BY UserAt
  <1>2. UNCHANGED <<depHeight, depMined, depCursor, depRow, depCreditor, depJob, depSkipped, depCopy, depFresh>>
    BY DEF DepositJobs!Before, DepositJobs!Call, DepositJobs!After, DepositJobs!chain,
           DepositJobs!canister, DepositJobs!tables, DepositJobs!history
  <1>3. DOMAIN p = PartFields
    BY <1>1 DEF PartFits
  <1>4. p.at \in {"before", "call", "after"} /\ OnlyUser(j, u) /\ DOMAIN q = PartFields
        /\ q.at \in {"call", "after", "list"} /\ q.list = p.list /\ q.due = p.due /\ q.linked = p.linked
    <2>1. CASE DepositJobs!Before(j, u)
      <3>1. p.at = "before" /\ depPart' = [depPart EXCEPT ![j][u].at = "call", ![j][u].before = depBalance[u]]
        BY <2>1 DEF DepositJobs!Before
      <3>2. QED
        BY <1>1, <1>3, <3>1 DEF OnlyUser, PartFields
    <2>2. CASE DepositJobs!Call(j, u)
      <3>1. PICK next \in {"after", "list"} : p.at = "call" /\ depPart' = [depPart EXCEPT ![j][u].at = next]
        BY <2>2 DEF DepositJobs!Call
      <3>2. QED
        BY <1>1, <1>3, <3>1 DEF OnlyUser, PartFields
    <2>3. CASE DepositJobs!After(j, u)
      <3>1. PICK rise : p.at = "after" /\ depPart' = [depPart EXCEPT ![j][u].at = "list", ![j][u].rise = rise]
        BY <2>3 DEF DepositJobs!After
      <3>2. QED
        BY <1>1, <1>3, <3>1 DEF OnlyUser, PartFields
    <2>4. QED
      BY <2>1, <2>2, <2>3
  <1> HIDE DEF q, p, jb
  <1>5. jb.at = "sync"
    BY <1>1, <1>4 DEF DepJobFits, PartFits
  <1>6. PartFits(jb, q, u)
    BY <1>1, <1>4, <1>5 DEF PartFits
  <1>7. \A d \in DepositJobs!Of(u) : Covered(d, jb, p) => Covered(d, jb, q)
    BY <1>5 DEF Covered
  <1>8. \A d \in DepositJobs!Of(u) : Untouched(d, jb, p) => Untouched(d, jb, q)
    BY <1>4, <1>5 DEF Untouched
  <1>9. CopiesFit'
    BY <1>2, CopiesRest
  <1>10. QED
    BY <1>2, <1>4, <1>6, <1>7, <1>8, <1>9, QuietMove DEF q, p, jb

(* The pending deposits are listed.                                        *)
LEMMA DepListKeeps ==
  ASSUME DepositInv, NEW j \in Jobs, NEW u \in Users, DepositJobs!List(j, u)
  PROVE  DepositInv'
  <1> DEFINE jb == depJob[j]
             p == depPart[j][u]
             q == depPart'[j][u]
             rows == [d \in Deposits |-> IF Owner[d] = u THEN depRow[d] ELSE depFresh[j][d]]
  <1>1. /\ DepJobFits(jb, depHeight) /\ PartFits(jb, p, u) /\ DOMAIN depPart = Jobs
        /\ DOMAIN depPart[j] = Users
    BY UserAt
  <1>2. /\ UNCHANGED <<depHeight, depMined, depCursor, depRow, depCreditor, depJob, depSkipped, depCopy>>
        /\ p.at = "list" /\ depFresh' = [depFresh EXCEPT ![j] = rows]
        /\ depPart' = [depPart EXCEPT ![j][u].at = "credit",
                                      ![j][u].list = DepositJobs!Pending \cap DepositJobs!Of(u)]
    BY DEF DepositJobs!List, DepositJobs!chain, DepositJobs!canister, DepositJobs!tables, DepositJobs!history
  <1>3. DOMAIN p = PartFields
    BY <1>1 DEF PartFits
  <1>4. OnlyUser(j, u) /\ DOMAIN q = PartFields /\ q.at = "credit"
        /\ q.list = DepositJobs!Pending \cap DepositJobs!Of(u) /\ q.due = p.due /\ q.linked = p.linked
    BY <1>1, <1>2, <1>3 DEF OnlyUser, PartFields
  <1>5. CopyFits(rows)
    BY DEF DepositInv, CopyFits
  <1> HIDE DEF q, p, jb, rows
  <1>6. jb.at = "sync"
    BY <1>1, <1>2 DEF DepJobFits, PartFits
  <1>7. PartFits(jb, q, u)
    BY <1>1, <1>4, <1>6 DEF PartFits
  <1>8. \A d \in DepositJobs!Of(u) : Covered(d, jb, p) => Covered(d, jb, q)
    BY <1>6 DEF Covered
  <1>9. \A d \in DepositJobs!Of(u) :
          depRow[d].status = "credited" /\ Untouched(d, jb, p) => Untouched(d, jb, q)
    BY <1>2, <1>4, <1>6 DEF Untouched, DepositJobs!Pending
  <1>10. CopiesFit'
    BY <1>2, <1>5, CopyTaken
  <1>11. QED
    BY <1>2, <1>4, <1>7, <1>8, <1>9, <1>10, QuietMove DEF q, p, jb

(* A deposit is credited, and the job is done with it.                     *)
LEMMA CreditKeeps ==
  ASSUME DepositInv, NEW j \in Jobs, NEW u \in Users, DepositJobs!Credit(j, u)
  PROVE  DepositInv'
  <1> DEFINE jb == depJob[j]
             p == depPart[j][u]
             q == depPart'[j][u]
  <1>1. /\ DepJobFits(jb, depHeight) /\ PartFits(jb, p, u) /\ DOMAIN depPart = Jobs
        /\ DOMAIN depPart[j] = Users /\ \A d \in DepositJobs!Of(u) : d \in Deposits /\ Owner[d] = u
    BY UserAt
  <1>2. /\ UNCHANGED <<depHeight, depMined, depCursor, depJob, depSkipped, depCopy, depFresh>>
        /\ p.at = "credit" /\ DOMAIN p = PartFields
    BY <1>1 DEF DepositJobs!Credit, DepositJobs!chain, DepositJobs!canister, PartFits
  <1>3. PICK d \in p.list :
          /\ depRow' = [depRow EXCEPT ![d] = [depFresh[j][d] EXCEPT !.status = "credited",
                                                 !.attempts = depFresh[j][d].attempts + 1]]
          /\ depCreditor' = [depCreditor EXCEPT ![d] = j]
          /\ depPart' = [depPart EXCEPT ![j][u].list = p.list \ {d},
                           ![j][u].linked = p.linked \cup {d},
                           ![j][u].rise = IF p.rise > Value[d] THEN p.rise - Value[d] ELSE 0]
    <2>1. ASSUME NEW d \in DepositJobs!Of(u)
          PROVE  [depFresh[j][d] EXCEPT !.status = "credited", !.attempts = @ + 1]
                 = [depFresh[j][d] EXCEPT !.status = "credited",
                                          !.attempts = depFresh[j][d].attempts + 1]
      <3>1. DOMAIN depFresh[j][d] = RowFields
        BY <1>1, <2>1 DEF DepositInv, CopyFits
      <3>2. QED
        BY <3>1 DEF RowFields
    <2>2. p.list \subseteq DepositJobs!Of(u)
      BY <1>1 DEF PartFits
    <2>3. QED
      BY <1>1, <1>2, <2>1, <2>2 DEF DepositJobs!Credit, PartFields
  <1>4. d \in DepositJobs!Of(u) /\ d \in Deposits
    BY <1>1 DEF PartFits
  <1>5. /\ OnlyUser(j, u) /\ DOMAIN q = PartFields /\ q.at = "credit" /\ q.list = p.list \ {d}
        /\ q.due = p.due /\ q.linked = p.linked \cup {d}
    <2> DEFINE rise == IF p.rise > Value[d] THEN p.rise - Value[d] ELSE 0
    <2>1. depPart' = [depPart EXCEPT ![j][u].list = p.list \ {d},
                           ![j][u].linked = p.linked \cup {d}, ![j][u].rise = rise]
      BY <1>3
    <2> HIDE DEF rise
    <2>2. QED
      BY <1>1, <1>2, <2>1 DEF OnlyUser, PartFields
  <1> DEFINE r == [depFresh[j][d] EXCEPT !.status = "credited",
                                         !.attempts = depFresh[j][d].attempts + 1]
  <1>6. DOMAIN r = RowFields /\ r.status = "credited"
    <2>1. DOMAIN depFresh[j][d] = RowFields
      BY <1>4 DEF DepositInv, CopyFits
    <2>2. QED
      BY <2>1 DEF RowFields
  <1>7. depRow' = [depRow EXCEPT ![d] = r]
    BY <1>3
  <1> HIDE DEF q, p, jb, r
  <1>8. jb.at = "sync"
    BY <1>1, <1>2 DEF DepJobFits, PartFits
  <1>9. PartFits(jb, q, u)
    BY <1>1, <1>4, <1>5, <1>8 DEF PartFits
  <1>10. \A e \in DepositJobs!Of(u) : Covered(e, jb, p) => Covered(e, jb, q)
    BY <1>8 DEF Covered
  <1>11. \A e \in DepositJobs!Of(u) : e # d /\ Untouched(e, jb, p) => Untouched(e, jb, q)
    BY <1>2, <1>5, <1>8 DEF Untouched
  <1>12. Untouched(d, jb, q)
    BY <1>5, <1>8 DEF Untouched
  <1>13. CopiesFit'
    BY <1>2, CopiesRest
  <1>14. QED
    BY <1>2, <1>3, <1>4, <1>5, <1>6, <1>7, <1>9, <1>10, <1>11, <1>12, <1>13, RowMove DEF q, p, jb

(* The due deposits the job has not credited are to be tried again.        *)
LEMMA CreditsDoneKeeps ==
  ASSUME DepositInv, NEW j \in Jobs, NEW u \in Users, DepositJobs!CreditsDone(j, u)
  PROVE  DepositInv'
  <1> DEFINE jb == depJob[j]
             p == depPart[j][u]
             q == depPart'[j][u]
  <1>1. /\ DepJobFits(jb, depHeight) /\ PartFits(jb, p, u) /\ DOMAIN depPart = Jobs
        /\ DOMAIN depPart[j] = Users
    BY UserAt
  <1>2. /\ UNCHANGED <<depHeight, depMined, depCursor, depRow, depCreditor, depJob, depSkipped, depCopy>>
        /\ p.at = "credit"
        /\ depFresh' = [depFresh EXCEPT ![j] = DepositJobs!Forget(depFresh[j], DepositJobs!Of(u))]
        /\ depPart' = [depPart EXCEPT ![j][u].at = "retry", ![j][u].list = p.due \ p.linked]
    BY DEF DepositJobs!CreditsDone, DepositJobs!Uncredited, DepositJobs!chain, DepositJobs!canister,
           DepositJobs!tables, DepositJobs!history
  <1>3. DOMAIN p = PartFields
    BY <1>1 DEF PartFits
  <1>4. OnlyUser(j, u) /\ DOMAIN q = PartFields /\ q.at = "retry"
        /\ q.list = p.due \ p.linked /\ q.due = p.due /\ q.linked = p.linked
    BY <1>1, <1>2, <1>3 DEF OnlyUser, PartFields
  <1>5. CopiesFit'
    <2>1. CopyFits(depFresh[j])
      BY DEF DepositInv
    <2>2. CopyFits(DepositJobs!Forget(depFresh[j], DepositJobs!Of(u)))
      BY <2>1, Forgotten
    <2>3. QED
      BY <1>2, <2>2, CopyTaken
  <1> HIDE DEF q, p, jb
  <1>6. jb.at = "sync"
    BY <1>1, <1>2 DEF DepJobFits, PartFits
  <1>7. PartFits(jb, q, u)
    BY <1>1, <1>4, <1>6 DEF PartFits
  <1>8. \A d \in DepositJobs!Of(u) : Covered(d, jb, p) => Covered(d, jb, q)
    BY <1>6 DEF Covered
  <1>9. \A d \in DepositJobs!Of(u) : Untouched(d, jb, p) => Untouched(d, jb, q)
    BY <1>2, <1>4, <1>6 DEF Untouched
  <1>10. QED
    BY <1>2, <1>4, <1>5, <1>7, <1>8, <1>9, QuietMove DEF q, p, jb

(* They wait longer, or are given up.                                      *)
LEMMA RetryKeeps ==
  ASSUME DepositInv, NEW j \in Jobs, NEW u \in Users, DepositJobs!Retry(j, u)
  PROVE  DepositInv'
  <1> DEFINE jb == depJob[j]
             p == depPart[j][u]
             q == depPart'[j][u]
  <1>1. /\ DepJobFits(jb, depHeight) /\ PartFits(jb, p, u) /\ DOMAIN depPart = Jobs
        /\ DOMAIN depPart[j] = Users /\ \A d \in DepositJobs!Of(u) : d \in Deposits /\ Owner[d] = u
    BY UserAt
  <1>2. /\ UNCHANGED <<depHeight, depMined, depCursor, depJob, depSkipped, depCreditor, depFresh>>
        /\ p.at = "retry" /\ DOMAIN p = PartFields
        /\ depCopy' = [depCopy EXCEPT ![j] = DepositJobs!Forget(depCopy[j], DepositJobs!Of(u) \ q.list)]
    BY <1>1 DEF DepositJobs!Retry, DepositJobs!chain, DepositJobs!canister, DepositJobs!history, PartFits
  <1>3. CopiesFit'
    <2>1. CopyFits(depCopy[j])
      BY DEF DepositInv
    <2>2. CopyFits(DepositJobs!Forget(depCopy[j], DepositJobs!Of(u) \ q.list))
      BY <2>1, Forgotten
    <2> HIDE DEF q
    <2>3. QED
      BY <1>2, <2>2, CopyTaken
  <1>4. jb.at = "sync"
    <2> HIDE DEF p, jb
    <2>1. QED
      BY <1>1, <1>2 DEF DepJobFits, PartFits
  <1>5. CASE depPart' = [depPart EXCEPT ![j][u].at = "done"] /\ UNCHANGED depRow
    <2>1. /\ OnlyUser(j, u) /\ DOMAIN q = PartFields /\ q.at = "done" /\ q.list = p.list
          /\ q.due = p.due /\ q.linked = p.linked
      BY <1>1, <1>2, <1>5 DEF OnlyUser, PartFields
    <2> HIDE DEF q, p, jb
    <2>2. PartFits(jb, q, u)
      BY <1>1, <1>4, <2>1 DEF PartFits
    <2>3. \A d \in DepositJobs!Of(u) : Covered(d, jb, p) => Covered(d, jb, q)
      BY <1>4 DEF Covered
    <2>4. \A d \in DepositJobs!Of(u) : Untouched(d, jb, q)
      BY <1>4, <2>1 DEF Untouched
    <2>5. QED
      BY <1>2, <1>3, <1>5, <2>1, <2>2, <2>3, <2>4, QuietMove DEF q, p, jb
  <1>6. ASSUME NEW d \in p.list, depRow' = [depRow EXCEPT ![d] = DepositJobs!Retried(j, d)],
               depPart' = [depPart EXCEPT ![j][u].list = p.list \ {d}]
        PROVE  DepositInv'
    <2>0. d \in DepositJobs!Of(u) /\ d \in Deposits
      BY <1>1 DEF PartFits
    <2>1. /\ OnlyUser(j, u) /\ DOMAIN q = PartFields /\ q.at = "retry" /\ q.list = p.list \ {d}
          /\ q.due = p.due /\ q.linked = p.linked
      BY <1>1, <1>2, <1>6 DEF OnlyUser, PartFields
    <2> DEFINE r == DepositJobs!Retried(j, d)
    <2>2. DOMAIN r = RowFields /\ r.status \in {"matured", "expired"}
      <3>1. DOMAIN depCopy[j][d] = RowFields
        BY <2>0 DEF DepositInv, CopyFits
      <3>2. QED
        BY <3>1 DEF DepositJobs!Retried, RowFields
    <2> HIDE DEF q, p, jb, r
    <2>3. PartFits(jb, q, u)
      BY <1>1, <1>4, <2>1 DEF PartFits
    <2>4. \A e \in DepositJobs!Of(u) : Covered(e, jb, p) => Covered(e, jb, q)
      BY <1>4 DEF Covered
    <2>5. \A e \in DepositJobs!Of(u) : Untouched(e, jb, p) => Untouched(e, jb, q)
      BY <1>2, <1>4, <2>1 DEF Untouched
    <2>6. QED
      BY <1>2, <1>3, <1>6, <2>0, <2>1, <2>2, <2>3, <2>4, <2>5, RowMove DEF q, p, jb, r
  <1>7. QED
    BY <1>2, <1>5, <1>6 DEF DepositJobs!Retry

(* A job's own step that writes no row: what has to be shown of it.        *)
LEMMA JobMove ==
  ASSUME DepositInv, NEW j \in Jobs,
         UNCHANGED <<depHeight, depMined, depRow, depCreditor, depSkipped>>,
         OnlyJob(j), CopiesFit', DepJobFits(depJob'[j], depHeight),
         depCursor' \in Nat, depCursor' <= depHeight,
         depCursor' = depCursor \/ (DepositJobs!NoDepositOverlooked)',
         \A u \in Users : PartFits(depJob'[j], depPart'[j][u], u),
         \A d \in Deposits :
           /\ depMined[d] \in 1 .. depJob'[j].tip /\ Owner[d] \notin depSkipped
                /\ depRow[d].status = "none" =>
                Covered(d, depJob'[j], depPart'[j][Owner[d]])
           /\ depRow[d].status = "credited" /\ depCreditor[d] = j =>
                Untouched(d, depJob'[j], depPart'[j][Owner[d]])
  PROVE  DepositInv'
  <1>1. RowsGoOn(j)
    BY RowsRest
  <1>2. \A d \in Deposits :
          Told(d, depJob'[j], depPart'[j][Owner[d]], depMined[d], depRow'[d],
               depCreditor'[d] = j, Owner[d] \in depSkipped')
    BY DEF Told
  <1>3. QED
    BY <1>1, <1>2, DepositMoves

(* A job that ends or is killed leaves nothing behind.                     *)
LEMMA JobEnds ==
  ASSUME DepositInv, NEW j \in Jobs, OnlyJob(j), CopiesFit',
         UNCHANGED <<depHeight, depMined, depRow, depCreditor, depSkipped>>,
         depCursor' \in Nat, depCursor' <= depHeight,
         depCursor' = depCursor \/ (DepositJobs!NoDepositOverlooked)',
         depJob'[j] = DepositJobs!NoJob,
         \A u \in Users : PartFits(DepositJobs!NoJob, depPart'[j][u], u)
  PROVE  DepositInv'
  <1> DEFINE jb == depJob'[j]
  <1>1. DOMAIN jb = DepJobFields /\ jb.at = "idle" /\ jb.tip = 0 /\ jb.failed \in BOOLEAN
    BY DEF DepositJobs!NoJob, DepJobFields
  <1>2. depHeight \in Nat
    BY DEF DepositInv
  <1>3. DepJobFits(jb, depHeight)
    <2> HIDE DEF jb
    <2>1. QED
      BY <1>1, <1>2 DEF DepJobFits
  <1>4. \A u \in Users : PartFits(jb, depPart'[j][u], u)
    OBVIOUS
  <1>5. \A u \in Users : depPart'[j][u].at = "idle"
    <2> HIDE DEF jb
    <2>1. QED
      BY <1>1, <1>4 DEF PartFits
  <1>6. \A d \in Deposits :
          /\ Covered(d, jb, depPart'[j][Owner[d]])
          /\ Untouched(d, jb, depPart'[j][Owner[d]])
    <2> HIDE DEF jb
    <2>1. QED
      BY <1>1, <1>5, Owners DEF Covered, Untouched
  <1>7. QED
    BY <1>3, <1>4, <1>6, JobMove

(* Nothing is done for a user at first.                                    *)
LEMMA NoPartFits ==
  ASSUME NEW u, NEW jb, jb.at \in {"idle", "begun", "group"}
  PROVE  PartFits(jb, DepositJobs!NoPart, u)
  BY DEF PartFits, PartFields, DepositJobs!NoPart

(* A job begins with the tip, and goes on if the cursor is not there.      *)
LEMMA DepBeginKeeps ==
  ASSUME DepositInv, NEW j \in Jobs, DepositJobs!Begin(j) \/ DepositJobs!LoadCursor(j)
  PROVE  DepositInv'
  <1> DEFINE jb == depJob[j]
             k == depJob'[j]
  <1>1. /\ DOMAIN depJob = Jobs /\ DOMAIN depPart = Jobs /\ DOMAIN depPart[j] = Users
        /\ DepJobFits(jb, depHeight) /\ \A u \in Users : PartFits(jb, depPart[j][u], u)
        /\ depHeight \in Nat /\ depCursor \in Nat /\ depCursor <= depHeight
    BY DEF DepositInv
  <1>2. /\ UNCHANGED <<depHeight, depMined, depRow, depCreditor, depSkipped, depCursor, depCopy, depFresh>>
    BY DEF DepositJobs!Begin, DepositJobs!LoadCursor, DepositJobs!chain, DepositJobs!canister,
           DepositJobs!tables, DepositJobs!history
  <1>3. CopiesFit'
    BY <1>2, CopiesRest
  <1>4. CASE DepositJobs!Begin(j)
    <2>1. /\ jb.at = "idle" /\ depPart' = depPart
          /\ depJob' = [depJob EXCEPT ![j] = [DepositJobs!NoJob EXCEPT !.at = "begun", !.now = depNow, !.tip = depHeight]]
      BY <1>4 DEF DepositJobs!Begin
    <2>2. /\ OnlyJob(j) /\ DOMAIN k = DepJobFields /\ k.at = "begun" /\ k.tip = depHeight
          /\ k.failed \in BOOLEAN
      BY <1>1, <2>1 DEF OnlyJob, DepositJobs!NoJob, DepJobFields
    <2> HIDE DEF jb, k
    <2>3. DepJobFits(k, depHeight)
      BY <1>1, <2>2 DEF DepJobFits
    <2>4. \A u \in Users : PartFits(k, depPart'[j][u], u) /\ depPart'[j][u].at = "idle"
      BY <1>1, <2>1, <2>2 DEF PartFits
    <2>5. \A d \in Deposits :
            /\ Covered(d, k, depPart'[j][Owner[d]])
            /\ Untouched(d, k, depPart'[j][Owner[d]])
      BY <2>2, <2>4, Owners DEF Covered, Untouched
    <2>6. QED
      BY <1>1, <1>2, <1>3, <2>2, <2>3, <2>4, <2>5, JobMove DEF k
  <1>5. CASE DepositJobs!LoadCursor(j)
    <2>1. jb.at = "begun"
      BY <1>5 DEF DepositJobs!LoadCursor
    <2>2. CASE depJob' = [depJob EXCEPT ![j] = DepositJobs!NoJob] /\ UNCHANGED depPart
      <3>1. OnlyJob(j) /\ depJob'[j] = DepositJobs!NoJob
        BY <1>1, <2>2 DEF OnlyJob
      <3>2. \A u \in Users : PartFits(DepositJobs!NoJob, depPart'[j][u], u)
        <4> HIDE DEF jb
        <4>1. QED
          BY <1>1, <2>1, <2>2 DEF PartFits, DepositJobs!NoJob
      <3>3. QED
        BY <1>1, <1>2, <1>3, <3>1, <3>2, JobEnds
    <2>3. CASE /\ depJob' = [depJob EXCEPT ![j].at = "scan"]
               /\ depPart' = [depPart EXCEPT ![j] =
                    [u \in Users |-> [DepositJobs!NoPart EXCEPT !.at = "fetch"]]]
      <3>1. /\ OnlyJob(j) /\ \A u \in Users : depPart'[j][u] = [DepositJobs!NoPart EXCEPT !.at = "fetch"]
        BY <1>1, <2>3 DEF OnlyJob
      <3>2. /\ DOMAIN k = DepJobFields /\ k.at = "scan" /\ k.tip = jb.tip
            /\ k.failed = jb.failed
        <4>1. DOMAIN jb = DepJobFields
          BY <1>1 DEF DepJobFits
        <4>2. QED
          BY <1>1, <2>3, <4>1 DEF DepJobFields
      <3>3. \A u \in Users :
              LET q == depPart'[j][u] IN
              /\ DOMAIN q = PartFields /\ q.at = "fetch" /\ q.list = {} /\ q.due = {} /\ q.linked = {}
        BY <3>1 DEF DepositJobs!NoPart, PartFields
      <3> HIDE DEF jb, k
      <3>4. DepJobFits(k, depHeight)
        BY <1>1, <3>2 DEF DepJobFits
      <3>5. \A u \in Users : PartFits(k, depPart'[j][u], u) /\ depPart'[j][u].at = "fetch"
        BY <3>2, <3>3 DEF PartFits
      <3>6. \A d \in Deposits :
              /\ Covered(d, k, depPart'[j][Owner[d]])
              /\ Untouched(d, k, depPart'[j][Owner[d]])
        BY <3>2, <3>5, Owners DEF Covered, Untouched
      <3>7. QED
        BY <1>1, <1>2, <1>3, <3>1, <3>4, <3>5, <3>6, JobMove DEF k
    <2>4. QED
      BY <1>5, <2>2, <2>3 DEF DepositJobs!LoadCursor
  <1>6. QED
    BY <1>4, <1>5

(* The due deposits are pending ones.                                      *)
LEMMA GroupKeeps ==
  ASSUME DepositInv, NEW j \in Jobs, DepositJobs!Group(j)
  PROVE  DepositInv'
  <1> DEFINE jb == depJob[j]
             k == depJob'[j]
  <1>1. /\ DOMAIN depJob = Jobs /\ DOMAIN depPart = Jobs /\ DOMAIN depPart[j] = Users
        /\ DepJobFits(jb, depHeight)
        /\ depHeight \in Nat /\ depCursor \in Nat /\ depCursor <= depHeight
    BY DEF DepositInv
  <1>2. PICK due \in DepositJobs!Due(j) :
          LET old == {d \in due : DepositJobs!IsOld(j, d)}
              ripe == {d \in due \ old : depRow[d].confs >= MinterConfs} IN
          /\ depJob' = [depJob EXCEPT ![j].at = "group", ![j].old = old]
          /\ depPart' = [depPart EXCEPT ![j] = [u \in Users |->
                [DepositJobs!NoPart EXCEPT !.due = ripe \cap DepositJobs!Of(u)]]]
          /\ depCopy' = [depCopy EXCEPT ![j] = [d \in Deposits |->
                IF d \in due THEN depRow[d] ELSE DepositJobs!NoRow]]
    BY DEF DepositJobs!Group
  <1> DEFINE old == {d \in due : DepositJobs!IsOld(j, d)}
             ripe == {d \in due \ old : depRow[d].confs >= MinterConfs}
  <1>3. /\ jb.at = "scan" /\ (\A u \in Users : depPart[j][u].at = "done")
        /\ UNCHANGED <<depHeight, depMined, depRow, depCreditor, depSkipped, depCursor, depFresh>>
    BY DEF DepositJobs!Group, DepositJobs!AllDone, DepositJobs!chain, DepositJobs!canister,
           DepositJobs!tables, DepositJobs!history
  <1>4. \A d \in due : d \in Deposits /\ depRow[d].status = "matured"
    BY DEF DepositJobs!Due, DepositJobs!kSubset, DepositJobs!Pending
  <1>5. /\ OnlyJob(j) /\ \A u \in Users : depPart'[j][u] =
             [DepositJobs!NoPart EXCEPT !.due = ripe \cap DepositJobs!Of(u)]
    <2> HIDE DEF old, ripe
    <2>1. QED
      BY <1>1, <1>2 DEF OnlyJob, old, ripe
  <1>6. /\ DOMAIN k = DepJobFields /\ k.at = "group" /\ k.tip = jb.tip /\ k.old = old
        /\ k.failed = jb.failed
    <2>1. DOMAIN jb = DepJobFields
      BY <1>1 DEF DepJobFits
    <2>2. depJob' = [depJob EXCEPT ![j].at = "group", ![j].old = old]
      BY <1>2
    <2> HIDE DEF old
    <2>3. QED
      BY <1>1, <2>1, <2>2 DEF DepJobFields
  <1>7. \A u \in Users :
          LET q == depPart'[j][u] IN
          /\ DOMAIN q = PartFields /\ q.at = "idle" /\ q.list = {}
          /\ q.due = ripe \cap DepositJobs!Of(u) /\ q.linked = {}
    <2> HIDE DEF ripe
    <2>1. QED
      BY <1>5 DEF DepositJobs!NoPart, PartFields
  <1>8. CopiesFit'
    <2> DEFINE rows == [d \in Deposits |-> IF d \in due THEN depRow[d] ELSE DepositJobs!NoRow]
    <2>1. CopyFits(rows)
      BY DEF DepositInv, CopyFits, DepositJobs!NoRow, RowFields
    <2>2. depCopy' = [depCopy EXCEPT ![j] = rows] /\ depFresh' = depFresh
      BY <1>2, <1>3
    <2> HIDE DEF rows
    <2>3. QED
      BY <2>1, <2>2, CopyTaken
  <1>9. \A d \in Deposits : depRow[d].status = "credited" => d \notin old /\ d \notin ripe
    BY <1>4
  <1>10. ASSUME NEW d \in Deposits, depMined[d] \in 1 .. jb.tip, Owner[d] \notin depSkipped,
                depRow[d].status = "none"
         PROVE  jb.failed
    <2>1. Told(d, jb, depPart[j][Owner[d]], depMined[d], depRow[d], depCreditor[d] = j,
               Owner[d] \in depSkipped)
      BY DEF DepositInv
    <2>2. depPart[j][Owner[d]].at = "done"
      BY <1>3, Owners
    <2> HIDE DEF jb
    <2>3. QED
      BY <1>3, <1>10, <2>1, <2>2 DEF Told, Covered
  <1> HIDE DEF jb, k, old, ripe
  <1>11. DepJobFits(k, depHeight)
    BY <1>1, <1>6 DEF DepJobFits
  <1>12. \A u \in Users : PartFits(k, depPart'[j][u], u)
    BY <1>6, <1>7 DEF PartFits
  <1>13. \A d \in Deposits :
           /\ depMined[d] \in 1 .. k.tip /\ Owner[d] \notin depSkipped /\ depRow[d].status = "none"
                => Covered(d, k, depPart'[j][Owner[d]])
           /\ depRow[d].status = "credited" => Untouched(d, k, depPart'[j][Owner[d]])
    <2>1. ASSUME NEW d \in Deposits, depMined[d] \in 1 .. k.tip, Owner[d] \notin depSkipped,
                 depRow[d].status = "none"
          PROVE  Covered(d, k, depPart'[j][Owner[d]])
      BY <1>6, <1>10, <2>1 DEF Covered
    <2>2. ASSUME NEW d \in Deposits, depRow[d].status = "credited"
          PROVE  Untouched(d, k, depPart'[j][Owner[d]])
      <3> DEFINE q == depPart'[j][Owner[d]]
      <3>1. q.at = "idle" /\ q.due \subseteq ripe
        BY <1>7, Owners
      <3>2. d \notin k.old /\ d \notin q.due
        BY <1>6, <1>9, <2>2, <3>1
      <3> HIDE DEF q
      <3>3. Untouched(d, k, q)
        BY <3>1, <3>2 DEF Untouched
      <3>4. QED
        BY <3>3 DEF q
    <2>3. QED
      BY <2>1, <2>2
  <1>14. QED
    BY <1>1, <1>3, <1>5, <1>8, <1>11, <1>12, <1>13, JobMove DEF k

(* A killed job is gone.                                                   *)
LEMMA AbortKeeps ==
  ASSUME DepositInv, NEW j \in Jobs, DepositJobs!Abort(j)
  PROVE  DepositInv'
  <1>1. /\ DOMAIN depJob = Jobs /\ DOMAIN depPart = Jobs
        /\ depCursor \in Nat /\ depCursor <= depHeight
        /\ DOMAIN depCopy = Jobs /\ DOMAIN depFresh = Jobs
        /\ \A i \in Jobs : CopyFits(depCopy[i]) /\ CopyFits(depFresh[i])
    BY DEF DepositInv
  <1>2. /\ UNCHANGED <<depHeight, depMined, depRow, depCreditor, depSkipped, depCursor>>
        /\ depJob' = [depJob EXCEPT ![j] = DepositJobs!NoJob]
        /\ depPart' = [depPart EXCEPT ![j] = [u \in Users |-> DepositJobs!NoPart]]
        /\ depCopy' = [depCopy EXCEPT ![j] = DepositJobs!Forget(depCopy[j], Deposits)]
        /\ depFresh' = [depFresh EXCEPT ![j] = DepositJobs!Forget(depFresh[j], Deposits)]
    BY DEF DepositJobs!Abort, DepositJobs!chain, DepositJobs!canister, DepositJobs!tables, DepositJobs!history
  <1>3. OnlyJob(j) /\ depJob'[j] = DepositJobs!NoJob /\ \A u \in Users : depPart'[j][u] = DepositJobs!NoPart
    BY <1>1, <1>2 DEF OnlyJob
  <1>4. CopiesFit'
    <2>1. /\ CopyFits(DepositJobs!Forget(depCopy[j], Deposits))
          /\ CopyFits(DepositJobs!Forget(depFresh[j], Deposits))
      BY <1>1, Forgotten
    <2>2. QED
      BY <1>1, <1>2, <2>1 DEF CopiesFit
  <1>5. DepositJobs!NoJob.at = "idle"
    BY DEF DepositJobs!NoJob
  <1>6. \A u \in Users : PartFits(DepositJobs!NoJob, depPart'[j][u], u)
    BY <1>3, <1>5, NoPartFits
  <1>7. QED
    BY <1>1, <1>2, <1>3, <1>4, <1>6, JobEnds

(* A job that has failed nowhere has every deposit of its blocks tracked.  *)
LEMMA FinishKeeps ==
  ASSUME DepositInv, NEW j \in Jobs, DepositJobs!Finish(j)
  PROVE  DepositInv'
  <1> DEFINE jb == depJob[j]
  <1>1. /\ DOMAIN depJob = Jobs /\ DOMAIN depPart = Jobs
        /\ depCursor \in Nat /\ depCursor <= depHeight
        /\ DepJobFits(jb, depHeight)
    BY DEF DepositInv
  <1>2. /\ UNCHANGED <<depHeight, depMined, depRow, depCreditor, depSkipped, depCopy, depFresh>>
        /\ depJob' = [depJob EXCEPT ![j] = DepositJobs!NoJob]
        /\ depPart' = [depPart EXCEPT ![j] = [u \in Users |-> DepositJobs!NoPart]]
        /\ depCursor' = (IF jb.failed THEN depCursor ELSE jb.tip)
        /\ jb.at = "sync"
    BY DEF DepositJobs!Finish, DepositJobs!SavedCursor, DepositJobs!chain, DepositJobs!canister,
           DepositJobs!history
  <1>3. OnlyJob(j) /\ depJob'[j] = DepositJobs!NoJob /\ \A u \in Users : depPart'[j][u] = DepositJobs!NoPart
    BY <1>1, <1>2 DEF OnlyJob
  <1>4. CopiesFit'
    BY <1>2, CopiesRest
  <1>5. DepositJobs!NoJob.at = "idle"
    BY DEF DepositJobs!NoJob
  <1>6. \A u \in Users : PartFits(DepositJobs!NoJob, depPart'[j][u], u)
    BY <1>3, <1>5, NoPartFits
  <1>7. depCursor' \in Nat /\ depCursor' <= depHeight
    <2> HIDE DEF jb
    <2>1. QED
      BY <1>1, <1>2 DEF DepJobFits
  <1>8. ASSUME ~jb.failed, NEW d \in Deposits, depMined[d] \in 1 .. jb.tip, Owner[d] \notin depSkipped
        PROVE  depRow[d].status # "none"
    <2>1. Told(d, jb, depPart[j][Owner[d]], depMined[d], depRow[d], depCreditor[d] = j,
               Owner[d] \in depSkipped)
      BY DEF DepositInv
    <2> HIDE DEF jb
    <2>2. QED
      BY <1>2, <1>8, <2>1 DEF Told, Covered
  <1>9. depCursor' = depCursor \/ (DepositJobs!NoDepositOverlooked)'
    <2> HIDE DEF jb
    <2>1. QED
      BY <1>2, <1>8 DEF DepositJobs!NoDepositOverlooked
  <1>10. QED
    BY <1>2, <1>3, <1>4, <1>6, <1>7, <1>9, JobEnds

(* The rows found too old are given up, then each user is served.          *)
LEMMA ExpireKeeps ==
  ASSUME DepositInv, NEW j \in Jobs, DepositJobs!Expire(j)
  PROVE  DepositInv'
  <1> DEFINE jb == depJob[j]
             k == depJob'[j]
  <1>1. /\ DOMAIN depJob = Jobs /\ DOMAIN depPart = Jobs /\ DOMAIN depPart[j] = Users
        /\ DepJobFits(jb, depHeight) /\ \A u \in Users : PartFits(jb, depPart[j][u], u)
        /\ depHeight \in Nat /\ depCursor \in Nat /\ depCursor <= depHeight
        /\ DOMAIN depRow = Deposits /\ DOMAIN depCreditor = Deposits
        /\ \A d \in Deposits : DOMAIN depRow[d] = RowFields
    BY DEF DepositInv, CopyFits
  <1>2. /\ jb.at = "group" /\ DOMAIN jb = DepJobFields
        /\ UNCHANGED <<depHeight, depMined, depCreditor, depSkipped, depCursor, depCopy, depFresh>>
    BY <1>1 DEF DepositJobs!Expire, DepositJobs!chain, DepositJobs!canister, DepositJobs!history, DepJobFits
  <1>3. CopiesFit'
    BY <1>2, CopiesRest
  <1>4. \A u \in Users :
          LET p == depPart[j][u] IN
          /\ DOMAIN p = PartFields /\ p.at = "idle"
          /\ p.list \subseteq DepositJobs!Of(u) /\ p.due \subseteq DepositJobs!Of(u)
          /\ p.linked \subseteq DepositJobs!Of(u)
    <2> HIDE DEF jb
    <2>1. QED
      BY <1>1, <1>2 DEF PartFits
  <1>5. ASSUME NEW d \in Deposits
        PROVE  /\ depMined[d] \in 1 .. jb.tip /\ Owner[d] \notin depSkipped /\ depRow[d].status = "none"
                    => jb.failed
               /\ depRow[d].status = "credited" /\ depCreditor[d] = j =>
                    d \notin jb.old /\ d \notin depPart[j][Owner[d]].due
    <2>1. Told(d, jb, depPart[j][Owner[d]], depMined[d], depRow[d], depCreditor[d] = j,
               Owner[d] \in depSkipped)
      BY DEF DepositInv
    <2> HIDE DEF jb
    <2>2. QED
      BY <1>2, <2>1 DEF Told, Covered, Untouched
  <1>6. CASE /\ depJob' = [depJob EXCEPT ![j].at = "sync"]
             /\ depPart' = [depPart EXCEPT ![j] = [u \in Users |->
                  [depPart[j][u] EXCEPT !.at = IF depPart[j][u].due = {} THEN "done" ELSE "before"]]]
             /\ UNCHANGED depRow
    <2>1. /\ OnlyJob(j) /\ \A u \in Users : depPart'[j][u] =
               [depPart[j][u] EXCEPT !.at = IF depPart[j][u].due = {} THEN "done" ELSE "before"]
      BY <1>1, <1>6 DEF OnlyJob
    <2>2. /\ DOMAIN k = DepJobFields /\ k.at = "sync" /\ k.tip = jb.tip /\ k.old = jb.old
          /\ k.failed = jb.failed
      BY <1>1, <1>2, <1>6 DEF DepJobFields
    <2>3. ASSUME NEW u \in Users
          PROVE  LET p == depPart[j][u]  q == depPart'[j][u] IN
                 /\ DOMAIN q = PartFields /\ q.at \in {"done", "before"}
                 /\ q.list = p.list /\ q.due = p.due /\ q.linked = p.linked
      <3> DEFINE p == depPart[j][u]
                 at == IF p.due = {} THEN "done" ELSE "before"
      <3>1. DOMAIN p = PartFields /\ depPart'[j][u] = [p EXCEPT !.at = at] /\ at \in {"done", "before"}
        BY <1>4, <2>1
      <3> HIDE DEF p, at
      <3>2. LET q == depPart'[j][u] IN
            /\ DOMAIN q = PartFields /\ q.at \in {"done", "before"}
            /\ q.list = p.list /\ q.due = p.due /\ q.linked = p.linked
        BY <3>1 DEF PartFields
      <3>3. QED
        BY <3>2 DEF p
    <2> HIDE DEF jb, k
    <2>4. DepJobFits(k, depHeight)
      BY <1>1, <2>2 DEF DepJobFits
    <2>5. \A u \in Users : PartFits(k, depPart'[j][u], u)
      BY <1>4, <2>2, <2>3 DEF PartFits
    <2>6. ASSUME NEW d \in Deposits
          PROVE  /\ depMined[d] \in 1 .. k.tip /\ Owner[d] \notin depSkipped /\ depRow[d].status = "none"
                      => Covered(d, k, depPart'[j][Owner[d]])
                 /\ depRow[d].status = "credited" /\ depCreditor[d] = j =>
                      Untouched(d, k, depPart'[j][Owner[d]])
      <3> DEFINE q == depPart'[j][Owner[d]]
      <3>1. q.at \in {"done", "before"} /\ q.due = depPart[j][Owner[d]].due
        BY <2>3, Owners
      <3> HIDE DEF q
      <3>2. /\ depMined[d] \in 1 .. k.tip /\ Owner[d] \notin depSkipped /\ depRow[d].status = "none"
                 => Covered(d, k, q)
        BY <1>5, <2>2 DEF Covered
      <3>3. depRow[d].status = "credited" /\ depCreditor[d] = j => Untouched(d, k, q)
        BY <1>5, <2>2, <3>1 DEF Untouched
      <3>4. QED
        BY <3>2, <3>3 DEF q
    <2>7. QED
      BY <1>1, <1>2, <1>3, <1>6, <2>1, <2>4, <2>5, <2>6, JobMove DEF k
  <1>7. ASSUME NEW d \in jb.old,
               depRow' = [depRow EXCEPT ![d] = [depCopy[j][d] EXCEPT !.status = "expired"]],
               depJob' = [depJob EXCEPT ![j].old = jb.old \ {d}], UNCHANGED depPart
        PROVE  DepositInv'
    <2> DEFINE r == [depCopy[j][d] EXCEPT !.status = "expired"]
    <2>1. d \in Deposits => DOMAIN r = RowFields /\ r.status = "expired"
      <3>1. d \in Deposits => DOMAIN depCopy[j][d] = RowFields
        BY DEF DepositInv, CopyFits
      <3>2. QED
        BY <3>1 DEF RowFields
    <2>2. depRow' = [depRow EXCEPT ![d] = r]
      BY <1>7
    <2>3. /\ DOMAIN depRow' = Deposits
          /\ \A e \in Deposits : depRow'[e] = IF e = d THEN r ELSE depRow[e]
      <3> HIDE DEF r
      <3>1. QED
        BY <1>1, <2>2
    <2>4. RowsGoOn(j)
      <3> HIDE DEF r
      <3>1. QED
        BY <1>1, <1>2, <2>1, <2>3 DEF RowsGoOn, CopyFits
    <2>5. /\ OnlyJob(j) /\ \A u \in Users : depPart'[j][u] = depPart[j][u]
      BY <1>1, <1>7 DEF OnlyJob
    <2>6. /\ DOMAIN k = DepJobFields /\ k.at = "group" /\ k.tip = jb.tip /\ k.old = jb.old \ {d}
          /\ k.failed = jb.failed
      BY <1>1, <1>2, <1>7 DEF DepJobFields
    <2>7. ASSUME NEW e \in Deposits
          PROVE  Told(e, k, depPart'[j][Owner[e]], depMined[e], depRow'[e],
                      depCreditor'[e] = j, Owner[e] \in depSkipped')
      <3>1. depPart'[j][Owner[e]] = depPart[j][Owner[e]] /\ depPart[j][Owner[e]].at = "idle"
        BY <1>4, <2>5, Owners
      <3>2. /\ depRow'[e].status = "none" => depRow[e].status = "none"
            /\ depRow'[e].status = "credited" => depRow[e].status = "credited"
        <4> HIDE DEF r
        <4>1. QED
          BY <2>1, <2>3
      <3>3. depCreditor'[e] = depCreditor[e] /\ depSkipped' = depSkipped
        BY <1>2
      <3> DEFINE q == depPart[j][Owner[e]]
      <3>4. q.at = "idle"
        BY <3>1
      <3> HIDE DEF q, jb, k
      <3>5. depMined[e] \in 1 .. k.tip /\ Owner[e] \notin depSkipped /\ depRow[e].status = "none"
              => Covered(e, k, q)
        BY <1>5, <2>6 DEF Covered
      <3>6. depRow[e].status = "credited" /\ depCreditor[e] = j => Untouched(e, k, q)
        BY <1>5, <2>6, <3>4 DEF Untouched, q
      <3>7. QED
        BY <3>1, <3>2, <3>3, <3>5, <3>6 DEF Told, q
    <2> HIDE DEF jb, k, r
    <2>8. DepJobFits(k, depHeight)
      BY <1>1, <2>6 DEF DepJobFits
    <2>9. \A u \in Users : PartFits(k, depPart'[j][u], u)
      BY <1>4, <2>5, <2>6 DEF PartFits
    <2>10. QED
      BY <1>1, <1>2, <1>3, <2>4, <2>5, <2>7, <2>8, <2>9, DepositMoves DEF k
  <1>8. QED
    BY <1>2, <1>6, <1>7 DEF DepositJobs!Expire

(* A new block is above every tip a job has read.                          *)
LEMMA BlockKeeps ==
  ASSUME DepositInv, DepositJobs!Block
  PROVE  DepositInv'
  <1>1. /\ depHeight \in Nat /\ depHeight' = depHeight + 1
        /\ UNCHANGED <<depCursor, depRow, depCreditor, depSkipped, depCopy, depFresh, depJob, depPart>>
    BY DEF DepositInv, DepositJobs!Block, DepositJobs!canister, DepositJobs!tables,
           DepositJobs!history, DepositJobs!locals
  <1>2. PICK new \in SUBSET {d \in Deposits : depMined[d] = 0} :
          depMined' = [d \in Deposits |-> IF d \in new THEN depHeight' ELSE depMined[d]]
    BY DEF DepositJobs!Block
  <1>3. \A d \in Deposits :
          /\ depMined'[d] = depMined[d] \/ depMined'[d] = depHeight + 1
          /\ depMined[d] \in Nat /\ depMined[d] <= depHeight
          /\ depMined'[d] \in Nat /\ depMined'[d] <= depHeight'
    BY <1>1, <1>2 DEF DepositInv
  <1>4. \A j \in Jobs : DepJobFits(depJob[j], depHeight') /\ depJob[j].tip \in Nat /\ depJob[j].tip <= depHeight
    BY <1>1 DEF DepositInv, DepJobFits
  <1>5. ASSUME NEW j \in Jobs, NEW d \in Deposits
        PROVE  Told(d, depJob[j], depPart[j][Owner[d]], depMined'[d], depRow[d],
                    depCreditor[d] = j, Owner[d] \in depSkipped)
    <2>1. Told(d, depJob[j], depPart[j][Owner[d]], depMined[d], depRow[d],
               depCreditor[d] = j, Owner[d] \in depSkipped)
      BY DEF DepositInv
    <2>2. depMined'[d] \in 1 .. depJob[j].tip => depMined'[d] = depMined[d]
      BY <1>1, <1>3, <1>4
    <2>3. QED
      BY <2>1, <2>2 DEF Told
  <1>6. depCursor \in Nat /\ depCursor <= depHeight /\ depCursor <= depHeight' /\ depHeight' \in Nat
    BY <1>1 DEF DepositInv
  <1>7. (DepositJobs!NoDepositOverlooked)'
    <2>1. \A d \in Deposits : depMined'[d] \in 1 .. depCursor => depMined'[d] = depMined[d]
      BY <1>1, <1>3, <1>6
    <2>2. QED
      BY <1>1, <2>1 DEF DepositInv, DepositJobs!NoDepositOverlooked
  <1>8. DOMAIN depMined' = Deposits
    BY <1>2
  <1>9. QED
    BY <1>1, <1>3, <1>4, <1>5, <1>6, <1>7, <1>8 DEF DepositInv

(* Whatever a job does, the user or the chain.                             *)
LEMMA DepositsKeep ==
  ASSUME DepositInv, DepositJobs!Next \/ UNCHANGED depVars
  PROVE  DepositInv'
  <1>1. CASE DepositJobs!Block
    BY <1>1, BlockKeeps
  <1>2. CASE UNCHANGED <<depHeight, depMined, depCursor, depRow, depCreditor, depSkipped, depCopy,
                         depFresh, depJob, depPart>>
    BY <1>2 DEF DepositInv, CopyFits, DepositJobs!NoDepositOverlooked
  <1>3. ASSUME NEW j \in Jobs, NEW u \in Users, DepositJobs!UserStep(j, u)
        PROVE  DepositInv'
    BY <1>3, FetchKeeps, DepReadKeeps, DepWriteKeeps, ThrowKeeps, BalancesKeep, DepListKeeps,
       CreditKeeps, CreditsDoneKeeps, RetryKeeps DEF DepositJobs!UserStep
  <1>4. ASSUME NEW j \in Jobs,
               \/ DepositJobs!Begin(j) \/ DepositJobs!LoadCursor(j) \/ DepositJobs!Group(j)
               \/ DepositJobs!Expire(j) \/ DepositJobs!Abort(j) \/ DepositJobs!Finish(j)
        PROVE  DepositInv'
    BY <1>4, DepBeginKeeps, GroupKeeps, ExpireKeeps, AbortKeeps, FinishKeeps
  <1>5. DepositJobs!Tick \/ (\E u \in Users : DepositJobs!SyncBalance(u) \/ DepositJobs!Premium(u))
          \/ UNCHANGED depVars =>
          UNCHANGED <<depHeight, depMined, depCursor, depRow, depCreditor, depSkipped, depCopy,
                      depFresh, depJob, depPart>>
    BY DEF DepositJobs!Tick, DepositJobs!SyncBalance, DepositJobs!Premium, depVars,
           DepositJobs!chain, DepositJobs!canister, DepositJobs!tables, DepositJobs!history,
           DepositJobs!locals
  <1>6. QED
    BY <1>1, <1>2, <1>3, <1>4, <1>5 DEF DepositJobs!Next

(* A job that credited a deposit last does not write its row.              *)
LEMMA CreditsSurvive ==
  ASSUME DepositInv, DepositJobs!Next, NEW d \in Deposits, NEW j \in Jobs,
         depRow[d].status = "credited", depCreditor[d] = j, depRow'[d] # depRow[d]
  PROVE  depJob'[j] = depJob[j] /\ depPart'[j] = depPart[j]
  <1> DEFINE o == Owner[d]
             p == depPart[j][o]
             jb == depJob[j]
  <1>1. /\ DOMAIN depJob = Jobs /\ DOMAIN depPart = Jobs /\ DOMAIN depPart[j] = Users
        /\ DOMAIN depRow = Deposits /\ o \in Users
    BY Owners DEF DepositInv, CopyFits
  <1>2. Untouched(d, jb, p)
    <2>1. Told(d, jb, p, depMined[d], depRow[d], depCreditor[d] = j, o \in depSkipped)
      BY DEF DepositInv
    <2> HIDE DEF jb, p, o
    <2>2. QED
      BY <2>1 DEF Told
  <1>3. ASSUME NEW i \in Jobs, i # j, DOMAIN depJob = Jobs,
               (\E x : depJob' = [depJob EXCEPT ![i] = x]) \/ depJob' = depJob,
               (\E x : depPart' = [depPart EXCEPT ![i] = x]) \/ depPart' = depPart
        PROVE  depJob'[j] = depJob[j] /\ depPart'[j] = depPart[j]
    BY <1>1, <1>3
  <1>4. ASSUME NEW i \in Jobs, NEW u \in Users, DepositJobs!UserStep(i, u)
        PROVE  depJob'[j] = depJob[j] /\ depPart'[j] = depPart[j]
    <2>0. \A e \in Deposits : \A v \in Users :
            e \in depPart[i][v].list \cup depPart[i][v].linked => Owner[e] = v
      BY DEF DepositInv, PartFits, DepositJobs!Of
    <2>1. CASE i # j
      <3>1. depJob' = depJob \/ depJob' = [depJob EXCEPT ![i].failed = TRUE]
        BY <1>4 DEF DepositJobs!UserStep, DepositJobs!Fetch, DepositJobs!Read, DepositJobs!Write,
           DepositJobs!Throw, DepositJobs!Before, DepositJobs!Call, DepositJobs!After,
           DepositJobs!List, DepositJobs!Credit, DepositJobs!CreditsDone, DepositJobs!Retry
      <3>2. depPart'[j] = depPart[j]
        BY <1>1, <1>4, <2>1 DEF DepositJobs!UserStep, DepositJobs!Fetch, DepositJobs!Read, DepositJobs!Write,
           DepositJobs!Throw, DepositJobs!Before, DepositJobs!Call, DepositJobs!After,
           DepositJobs!List, DepositJobs!Credit, DepositJobs!CreditsDone, DepositJobs!Retry
      <3>3. QED
        BY <1>1, <2>1, <3>1, <3>2
    <2>2. CASE i = j
      <3>1. CASE DepositJobs!Write(i, u)
        <4>1. PICK e \in depPart[j][u].linked : depRow' = [depRow EXCEPT ![e] = DepositJobs!Detected(j, e)]
          BY <2>2, <3>1 DEF DepositJobs!Write
        <4>2. e = d /\ u = o
          BY <1>1, <2>0, <2>2, <4>1
        <4>3. p.at = "write" /\ d \in p.linked
          BY <2>2, <3>1, <4>1, <4>2 DEF DepositJobs!Write
        <4>4. QED
          BY <1>2, <4>3 DEF Untouched
      <3>2. CASE DepositJobs!Credit(i, u)
        <4>1. PICK e \in depPart[j][u].list :
                depRow' = [depRow EXCEPT ![e] =
                  [depFresh[j][e] EXCEPT !.status = "credited", !.attempts = @ + 1]]
          BY <2>2, <3>2 DEF DepositJobs!Credit
        <4>2. e = d /\ u = o
          BY <1>1, <2>0, <2>2, <4>1
        <4>3. p.at = "credit" /\ d \in p.list
          BY <2>2, <3>2, <4>1, <4>2 DEF DepositJobs!Credit
        <4>4. QED
          BY <1>2, <4>3 DEF Untouched
      <3>3. CASE DepositJobs!Retry(i, u)
        <4>1. PICK e \in depPart[j][u].list : depRow' = [depRow EXCEPT ![e] = DepositJobs!Retried(j, e)]
          BY <2>2, <3>3 DEF DepositJobs!Retry
        <4>2. e = d /\ u = o
          BY <1>1, <2>0, <2>2, <4>1
        <4>3. p.at = "retry" /\ d \in p.list
          BY <2>2, <3>3, <4>1, <4>2 DEF DepositJobs!Retry
        <4>4. QED
          BY <1>2, <4>3 DEF Untouched
      <3>4. CASE ~DepositJobs!Write(i, u) /\ ~DepositJobs!Credit(i, u) /\ ~DepositJobs!Retry(i, u)
        <4>1. depRow' = depRow
          BY <1>4, <3>4 DEF DepositJobs!UserStep, DepositJobs!Fetch, DepositJobs!Read,
             DepositJobs!Throw, DepositJobs!Before, DepositJobs!Call, DepositJobs!After,
             DepositJobs!List, DepositJobs!CreditsDone, DepositJobs!tables
        <4>2. QED
          BY <4>1
      <3>5. QED
        BY <3>1, <3>2, <3>3, <3>4
    <2>3. QED
      BY <2>1, <2>2
  <1>5. ASSUME NEW i \in Jobs, DepositJobs!Expire(i)
        PROVE  depJob'[j] = depJob[j] /\ depPart'[j] = depPart[j]
    <2>1. PICK e \in depJob[i].old :
             /\ depRow' = [depRow EXCEPT ![e] = [depCopy[i][e] EXCEPT !.status = "expired"]]
             /\ \E x : depJob' = [depJob EXCEPT ![i].old = x]
             /\ depPart' = depPart
      BY <1>5 DEF DepositJobs!Expire
    <2>2. e = d
      BY <1>1, <2>1
    <2>3. i # j
      <3>1. SUFFICES ASSUME i = j PROVE FALSE
        OBVIOUS
      <3>2. jb.at = "group" /\ d \in jb.old
        BY <1>5, <2>1, <2>2, <3>1 DEF DepositJobs!Expire
      <3> HIDE DEF jb, p
      <3>3. QED
        BY <1>2, <3>2 DEF Untouched
    <2>4. QED
      BY <1>1, <2>1, <2>3
  <1>6. CASE UNCHANGED depRow
    BY <1>6
  <1>7. \/ UNCHANGED depRow
        \/ \E i \in Jobs : DepositJobs!Expire(i) \/ \E u \in Users : DepositJobs!UserStep(i, u)
    BY DEF DepositJobs!Next, DepositJobs!Block, DepositJobs!Tick, DepositJobs!SyncBalance,
       DepositJobs!Premium, DepositJobs!Begin, DepositJobs!LoadCursor, DepositJobs!Group,
       DepositJobs!Abort, DepositJobs!Finish, DepositJobs!tables
  <1>8. QED
    BY <1>4, <1>5, <1>6, <1>7

(* However many jobs overlap, fail and are killed: the cursor of the       *)
(* deposits passes none that has no row.                                   *)
THEOREM NoDepositIsOverlooked == UnionSpec => []DepositJobs!NoDepositOverlooked
  <1>1. UnionInit => DepositInv
    BY DepositInit DEF UnionInit
  <1>2. DepositInv /\ [UnionNext]_unionVars => DepositInv'
    <2>1. SUFFICES ASSUME DepositInv, [UnionNext]_unionVars
                   PROVE  DepositInv'
      OBVIOUS
    <2>2. DepositJobs!Next \/ UNCHANGED depVars
      BY <2>1 DEF UnionNext, unionVars
    <2>3. QED
      BY <2>1, <2>2, DepositsKeep
  <1>3. DepositInv => DepositJobs!NoDepositOverlooked
    BY DEF DepositInv
  <1>4. QED
    BY <1>1, <1>2, <1>3, PTL DEF UnionSpec

(* A job does not take back its own credit, whatever rows it read before   *)
(* and writes later.                                                       *)
THEOREM CreditsAreKept == UnionSpec => CreditSurvivesItsJob
  <1>1. UnionInit => DepositInv
    BY DepositInit DEF UnionInit
  <1>2. DepositInv /\ [UnionNext]_unionVars => DepositInv'
    <2>1. SUFFICES ASSUME DepositInv, [UnionNext]_unionVars
                   PROVE  DepositInv'
      OBVIOUS
    <2>2. DepositJobs!Next \/ UNCHANGED depVars
      BY <2>1 DEF UnionNext, unionVars
    <2>3. QED
      BY <2>1, <2>2, DepositsKeep
  <1> DEFINE Kept1 == \A d \in Deposits, j \in Jobs :
       (depRow[d].status = "credited" /\ depCreditor[d] = j /\ depRow'[d] # depRow[d])
         => depJob'[j] = depJob[j] /\ depPart'[j] = depPart[j]
  <1>3. DepositInv /\ [UnionNext]_unionVars => Kept1
    <2>1. SUFFICES ASSUME DepositInv, [UnionNext]_unionVars
                   PROVE  Kept1
      OBVIOUS
    <2>2. DepositJobs!Next \/ UNCHANGED depVars
      BY <2>1 DEF UnionNext, unionVars
    <2>3. CASE DepositJobs!Next
      BY <2>1, <2>3, CreditsSurvive
    <2>4. CASE UNCHANGED depVars
      BY <2>4 DEF depVars
    <2>5. QED
      BY <2>2, <2>3, <2>4
  <1>4. DepositInv /\ [UnionNext]_unionVars => [Kept1]_(DepositJobs!vars)
    BY <1>3
  <1>5. QED
    BY <1>1, <1>2, <1>4, PTL DEF UnionSpec, CreditSurvivesItsJob, DepositJobs!CreditSurvivesItsJob

-----------------------------------------------------------------------------
(* The shipping of logs.                                                   *)

Entries == [id : Nat, sec : Nat, counter : Nat]

(* A place in the log that has been reached: what is logged from now on is *)
(* behind it, unless an upgrade restarted the counter within the second.   *)
Reached(x, t, c, ups) ==
  /\ x.sec \in Nat /\ x.counter \in Nat /\ x.sec <= t
  /\ x.sec = t /\ t \notin ups => x.counter <= c

(* Of what is held nothing up to a place was left out.                     *)
Passed(x, held, ups, done) ==
  \A e \in held : ~LogJobs!Precedes(x, e) /\ e.sec \notin ups => done[e.id] > 0

(* Nor is it by a sequence of entries to be shipped one after the other.   *)
LeavesNoGap(seq, held, ups, done) ==
  \A k \in DOMAIN seq, e \in held :
    ~LogJobs!Precedes(seq[k], e) /\ e.sec \notin ups =>
      done[e.id] > 0 \/ \E m \in 1 .. k : seq[m].id = e.id

LogJobFits(k, n, t, c, ups, held, done) ==
  /\ DOMAIN k = {"at", "from", "entries"} /\ k.at \in {"idle", "fetch", "ship", "save"}
  /\ k.at # "idle" => Reached(k.from, t, c, ups) /\ Passed(k.from, held, ups, done)
  /\ k.entries \in Seq(Entries)
  /\ k.at \in {"ship", "save"} =>
       /\ k.entries # <<>>
       /\ \A i \in DOMAIN k.entries : k.entries[i].id \in 1 .. n /\ Reached(k.entries[i], t, c, ups)
  /\ k.at = "ship" => LeavesNoGap(k.entries, held, ups, done)
  /\ k.at = "save" => Passed(k.entries[1], held, ups, done)

(* The entries kept are of one start of the canister: in order of their    *)
(* ids their counters rise, and their seconds do not fall.                 *)
EntriesInOrder(held, n, t, c) ==
  /\ held \subseteq Entries
  /\ \A e \in held : e.id \in 1 .. n /\ e.sec <= t /\ e.counter <= c
  /\ \A d, e \in held :
       /\ d.id <= e.id => d.sec <= e.sec
       /\ d.id < e.id => d.counter < e.counter
       /\ d.id = e.id => d = e

LogInv ==
  /\ lgLast \in Nat /\ lgLast <= MaxEntries /\ lgCounter \in Nat /\ lgNow \in Nat
  /\ DOMAIN lgBuffer = Priorities /\ \A p \in Priorities : lgBuffer[p] \in Seq(Entries)
  /\ EntriesInOrder(LogJobs!Exported, lgLast, lgNow, lgCounter)
  /\ DOMAIN lgShipped = 1 .. MaxEntries /\ \A i \in 1 .. MaxEntries : lgShipped[i] \in Nat
  /\ Reached(lgCursor, lgNow, lgCounter, lgUpgraded)
  /\ Passed(lgCursor, LogJobs!Exported, lgUpgraded, lgShipped)
  /\ DOMAIN lgJob = Jobs
  /\ \A j \in Jobs :
       LogJobFits(lgJob[j], lgLast, lgNow, lgCounter, lgUpgraded, LogJobs!Exported, lgShipped)

(* What is assumed of the constants of the shipping.                       *)
LEMMA LogNumbers ==
  /\ ShipLimit \in Nat /\ Capacity \in Nat \ {0} /\ Lookback \in Nat
  /\ MaxEntries \in Nat
  BY CronJobsAssumption DEF LogJobs!LogShippingAssumption

(* Nothing has been logged and nothing shipped.                            *)
LEMMA LogStarts == LogJobs!Init => LogInv
  <1>1. SUFFICES ASSUME LogJobs!Init
                 PROVE  LogInv
    OBVIOUS
  <1>0. <<>> \in Seq(Entries)
    OBVIOUS
  <1>2. DOMAIN lgBuffer = Priorities /\ \A p \in Priorities : lgBuffer[p] = <<>>
    BY <1>1 DEF LogJobs!Init
  <1>3. LogJobs!Exported = {}
    BY <1>2 DEF LogJobs!Exported, LogJobs!ToSet
  <1>4. DOMAIN lgShipped = 1 .. MaxEntries /\ \A i \in 1 .. MaxEntries : lgShipped[i] = 0
    BY <1>1 DEF LogJobs!Init
  <1>5. DOMAIN lgJob = Jobs /\ \A j \in Jobs : lgJob[j] = LogJobs!Idle
    BY <1>1 DEF LogJobs!Init
  <1>6. LogJobs!Idle = [at |-> "idle", from |-> LogJobs!NoCursor, entries |-> <<>>]
    BY DEF LogJobs!Idle
  <1>7. \A j \in Jobs :
          LogJobFits(lgJob[j], lgLast, lgNow, lgCounter, lgUpgraded, LogJobs!Exported, lgShipped)
    <2>1. LogJobs!Idle.at = "idle" /\ LogJobs!Idle.entries = <<>>
          /\ DOMAIN LogJobs!Idle = {"at", "from", "entries"}
      BY <1>6
    <2>2. LogJobs!Idle.entries \in Seq(Entries)
      BY <1>0, <2>1
    <2>3. QED
      BY <1>5, <2>1, <2>2 DEF LogJobFits
  <1>8. lgLast = 0 /\ lgCounter = 0 /\ lgNow = 0 /\ lgCursor = [sec |-> 0, counter |-> 0]
    BY <1>1 DEF LogJobs!Init, LogJobs!NoCursor
  <1>9. Reached(lgCursor, lgNow, lgCounter, lgUpgraded)
    BY <1>8 DEF Reached
  <1>10. EntriesInOrder(LogJobs!Exported, lgLast, lgNow, lgCounter)
         /\ Passed(lgCursor, LogJobs!Exported, lgUpgraded, lgShipped)
    BY <1>3 DEF EntriesInOrder, Passed
  <1>11. \A p \in Priorities : lgBuffer[p] \in Seq(Entries)
    BY <1>2, <1>0
  <1>12. QED
    BY <1>2, <1>4, <1>5, <1>7, <1>8, <1>9, <1>10, <1>11, LogNumbers DEF LogInv

(* Of the entries kept those with the smaller ids are before the others.   *)
LEMMA OrderOfIds ==
  ASSUME NEW held, NEW n \in Nat, NEW t \in Nat, NEW c \in Nat,
         EntriesInOrder(held, n, t, c), NEW d \in held, NEW e \in held
  PROVE  LogJobs!Precedes(d, e) <=> d.id < e.id
  <1>1. d \in Entries /\ e \in Entries
    BY DEF EntriesInOrder
  <1>2. d.id \in Nat /\ d.sec \in Nat /\ d.counter \in Nat
        /\ e.id \in Nat /\ e.sec \in Nat /\ e.counter \in Nat
    BY <1>1 DEF Entries
  <1>3. CASE d.id < e.id
    <2>1. d.sec <= e.sec /\ d.counter < e.counter
      BY <1>2, <1>3 DEF EntriesInOrder
    <2>2. QED
      BY <1>2, <1>3, <2>1 DEF LogJobs!Precedes
  <1>4. CASE ~ (d.id < e.id)
    <2>1. e.sec <= d.sec /\ e.counter <= d.counter
      <3>1. CASE e.id = d.id
        <4>1. e = d
          BY <3>1 DEF EntriesInOrder
        <4>2. QED
          BY <1>2, <4>1
      <3>2. CASE e.id < d.id
        BY <1>2, <3>2 DEF EntriesInOrder
      <3>3. QED
        BY <1>2, <1>4, <3>1, <3>2
    <2>2. QED
      BY <1>2, <1>4, <2>1 DEF LogJobs!Precedes
  <1>5. QED
    BY <1>3, <1>4

(* The entries an answer is made of: those kept within the lookback that   *)
(* the replica knows of.                                                   *)
Found(from, upTo) == {e \in LogJobs!Exported : e.sec >= LogJobs!Since(from) /\ e.id <= upTo}

(* They are all in the answer before it is cut, in the order of their ids. *)
LEMMA AnswerInOrder ==
  ASSUME NEW n \in Nat, NEW t \in Nat, NEW c \in Nat,
         EntriesInOrder(LogJobs!Exported, n, t, c), NEW from, NEW upTo
  PROVE  /\ LogJobs!Matching(from, upTo) \in Seq(Found(from, upTo))
         /\ \A e \in Found(from, upTo) :
              \E k \in DOMAIN LogJobs!Matching(from, upTo) : LogJobs!Matching(from, upTo)[k] = e
         /\ \A i, k \in DOMAIN LogJobs!Matching(from, upTo) :
              i <= k <=> LogJobs!Matching(from, upTo)[i].id <= LogJobs!Matching(from, upTo)[k].id
  <1> DEFINE S == Found(from, upTo)
             seq == LogJobs!Matching(from, upTo)
             f == [e \in S |-> e.id]
             g == [i \in 1 .. n |-> CHOOSE e \in S : e.id = i]
             ids == {i \in 1 .. n : \E e \in S : e.id = i}
             m == Cardinality(S)
             at(k) == CHOOSE e \in S : Cardinality({d \in S : ~LogJobs!Precedes(e, d)}) = k
  <1>1. S \subseteq LogJobs!Exported
    BY DEF Found
  <1>2. \A e \in S : e.id \in 1 .. n
    BY <1>1 DEF EntriesInOrder
  <1>3. \A d, e \in S : d.id = e.id => d = e
    BY <1>1 DEF EntriesInOrder
  <1>4. IsFiniteSet(S)
    <2> DEFINE h == [i \in ids |-> CHOOSE e \in S : e.id = i]
    <2>1. IsFiniteSet(ids)
      <3>1. IsFiniteSet(1 .. n) /\ ids \subseteq 1 .. n
        BY FS_Interval
      <3>2. QED
        BY <3>1, FS_Subset
    <2>2. \A i \in ids : h[i] \in S /\ h[i].id = i
      OBVIOUS
    <2>3. \A e \in S : e.id \in ids
      BY <1>2
    <2>4. h \in [ids -> S]
      BY <2>2
    <2> HIDE DEF S, h, ids
    <2>5. \A e \in S : \E i \in ids : h[i] = e
      BY <1>3, <2>2, <2>3
    <2>6. h \in Surjection(ids, S)
      BY <2>4, <2>5 DEF Surjection
    <2>7. QED
      BY <2>1, <2>6, FS_Surjection
  <1>5. f \in [S -> Nat] /\ \A e \in S : f[e] = e.id
    BY <1>2
  <1>6. \A d, e \in S : f[d] = f[e] => d = e
    BY <1>3, <1>5
  <1>7. \A e \in S : {d \in S : ~LogJobs!Precedes(e, d)} = {d \in S : f[d] <= f[e]}
    <2>1. ASSUME NEW e \in S, NEW d \in S
          PROVE  ~LogJobs!Precedes(e, d) <=> f[d] <= f[e]
      <3>1. LogJobs!Precedes(e, d) <=> e.id < d.id
        BY <1>1, OrderOfIds
      <3>2. d.id \in Nat /\ e.id \in Nat
        BY <1>2
      <3> HIDE DEF f, S
      <3>3. QED
        BY <1>5, <3>1, <3>2
    <2> HIDE DEF f, S
    <2>2. QED
      BY <2>1
  <1>8. seq = [k \in 1 .. m |-> at(k)]
    <2>1. seq = [k \in 1 .. LogJobs!Cardinality(S) |->
                  CHOOSE e \in S : LogJobs!Cardinality({d \in S : ~LogJobs!Precedes(e, d)}) = k]
      BY DEF LogJobs!Matching, Found
    <2>2. QED
      BY <2>1 DEF LogJobs!Cardinality, Cardinality
  <1>9. m \in Nat
    BY <1>4, FS_CardinalityType
  <1> HIDE DEF S, f, seq, m
  <1>10. \A e \in S : Cardinality({d \in S : ~LogJobs!Precedes(e, d)}) = Place(S, f, e)
    BY <1>7 DEF Place
  <1>11. /\ \A e \in S : Place(S, f, e) \in 1 .. m
         /\ \A d, e \in S : f[d] < f[e] => Place(S, f, d) < Place(S, f, e)
         /\ \A k \in 1 .. m : \E e \in S : Place(S, f, e) = k
    BY <1>4, <1>5, <1>6, PlacesByNumber DEF m
  <1>12. \A k \in 1 .. m : at(k) \in S /\ Place(S, f, at(k)) = k
    BY <1>10, <1>11
  <1> HIDE DEF at
  <1>13. DOMAIN seq = 1 .. m /\ \A k \in 1 .. m : seq[k] \in S /\ Place(S, f, seq[k]) = k
    BY <1>8, <1>12
  <1>14. seq \in Seq(S)
    <2>1. seq \in [1 .. m -> S]
      BY <1>8, <1>12
    <2>2. QED
      BY <1>9, <2>1
  <1>15. \A d, e \in S : f[d] \in Nat /\ Place(S, f, d) \in Nat
                         /\ (Place(S, f, d) = Place(S, f, e) => d = e)
    <2>1. \A e \in S : f[e] \in Nat /\ Place(S, f, e) \in Nat
      BY <1>5, <1>9, <1>11
    <2>2. \A d, e \in S : f[d] # f[e] => Place(S, f, d) # Place(S, f, e)
      BY <1>11, <2>1
    <2>3. QED
      BY <1>6, <2>1, <2>2
  <1>16. \A e \in S : \E k \in DOMAIN seq : seq[k] = e
    BY <1>11, <1>13, <1>15
  <1>17. ASSUME NEW i \in DOMAIN seq, NEW k \in DOMAIN seq
         PROVE  i <= k <=> seq[i].id <= seq[k].id
    <2>1. seq[i] \in S /\ seq[k] \in S /\ Place(S, f, seq[i]) = i /\ Place(S, f, seq[k]) = k
      BY <1>13
    <2>2. f[seq[i]] = seq[i].id /\ f[seq[k]] = seq[k].id /\ f[seq[i]] \in Nat /\ f[seq[k]] \in Nat
          /\ i \in Nat /\ k \in Nat
      BY <1>5, <1>9, <1>13, <2>1
    <2>3. f[seq[i]] < f[seq[k]] => i < k
      BY <1>11, <2>1
    <2>4. f[seq[k]] < f[seq[i]] => k < i
      BY <1>11, <2>1
    <2>5. f[seq[i]] = f[seq[k]] => i = k
      BY <1>6, <2>1
    <2>6. QED
      BY <2>2, <2>3, <2>4, <2>5
  <1>18. QED
    BY <1>14, <1>16, <1>17 DEF S, seq

(* The first entries of an answer.                                         *)
LEMMA FirstEntries ==
  ASSUME NEW S, NEW seq \in Seq(S), NEW n \in Nat
  PROVE  /\ LogJobs!FirstOf(seq, n) \in Seq(S)
         /\ \A k : k \in DOMAIN LogJobs!FirstOf(seq, n) <=> k \in DOMAIN seq /\ k <= n
         /\ \A k \in DOMAIN LogJobs!FirstOf(seq, n) : LogJobs!FirstOf(seq, n)[k] = seq[k]
  <1>1. CASE Len(seq) < n
    BY <1>1 DEF LogJobs!FirstOf
  <1>2. CASE ~ (Len(seq) < n)
    BY <1>2 DEF LogJobs!FirstOf
  <1>3. QED
    BY <1>1, <1>2

(* What is left of a sequence without its first members.                   *)
LEMMA WithoutTheFirst ==
  ASSUME NEW S, NEW seq \in Seq(S), NEW c \in 0 .. Len(seq)
  PROVE  /\ SubSeq(seq, c + 1, Len(seq)) \in Seq(S)
         /\ DOMAIN SubSeq(seq, c + 1, Len(seq)) = 1 .. Len(seq) - c
         /\ \A k \in 1 .. Len(seq) - c : SubSeq(seq, c + 1, Len(seq))[k] = seq[k + c]
  <1>1. CASE c = Len(seq)
    <2>1. SubSeq(seq, c + 1, Len(seq)) = <<>>
      BY <1>1
    <2>2. QED
      BY <1>1, <2>1
  <1>2. CASE c # Len(seq)
    <2>1. c + 1 \in 1 .. Len(seq) /\ Len(seq) \in 1 .. Len(seq)
      BY <1>2
    <2>2. QED
      BY <2>1
  <1>3. QED
    BY <1>1, <1>2

(* The last ones, those after the cursor: in an answer in order all that   *)
(* are not after it come first.                                            *)
LEMMA LastEntries ==
  ASSUME NEW S, NEW seq \in Seq(S), NEW from,
         \A i, k \in DOMAIN seq :
           i <= k /\ LogJobs!IsAfterCursor(seq[i], from) => LogJobs!IsAfterCursor(seq[k], from)
  PROVE  \E c \in 0 .. Len(seq) :
           /\ LogJobs!AfterCursor(seq, from) \in Seq(S)
           /\ DOMAIN LogJobs!AfterCursor(seq, from) = 1 .. Len(seq) - c
           /\ \A k \in 1 .. Len(seq) - c : LogJobs!AfterCursor(seq, from)[k] = seq[k + c]
           /\ \A i \in DOMAIN seq : LogJobs!IsAfterCursor(seq[i], from) <=> i > c
  <1> DEFINE D == {k \in DOMAIN seq : ~LogJobs!IsAfterCursor(seq[k], from)}
             c == Cardinality(D)
             n == Len(seq)
  <1>1. n \in Nat /\ DOMAIN seq = 1 .. n
    OBVIOUS
  <1>2. D \in SUBSET (1 .. n) /\ \A i \in D, k \in 1 .. n : k <= i => k \in D
    BY <1>1
  <1>3. LogJobs!AfterCursor(seq, from) = SubSeq(seq, c + 1, n)
    <2>1. LogJobs!AfterCursor(seq, from) = SubSeq(seq, LogJobs!Cardinality(D) + 1, n)
      BY DEF LogJobs!AfterCursor
    <2>2. QED
      BY <2>1 DEF LogJobs!Cardinality, Cardinality
  <1>4. \A i \in 1 .. n : LogJobs!IsAfterCursor(seq[i], from) <=> i \notin D
    BY <1>1
  <1> HIDE DEF D
  <1>5. c \in 0 .. n /\ D = 1 .. c
    BY <1>1, <1>2, FirstNumbers
  <1> HIDE DEF c
  <1>6. \A i \in 1 .. n : LogJobs!IsAfterCursor(seq[i], from) <=> i > c
    BY <1>1, <1>4, <1>5
  <1>7. c \in 0 .. n
    BY <1>5
  <1>8. SubSeq(seq, c + 1, n) \in Seq(S) /\ DOMAIN SubSeq(seq, c + 1, n) = 1 .. n - c
        /\ \A k \in 1 .. n - c : SubSeq(seq, c + 1, n)[k] = seq[k + c]
    BY <1>7, WithoutTheFirst
  <1>9. QED
    BY <1>1, <1>3, <1>6, <1>7, <1>8

(* What a job is to ship after a fetch: entries of the canister's, and up  *)
(* to each of them nothing is left out that was not shipped before, since  *)
(* what is before the lookback is before the cursor as well.               *)
LEMMA FetchLeavesNoGap ==
  ASSUME NEW n \in Nat, NEW t \in Nat, NEW c \in Nat, NEW ups, NEW done,
         EntriesInOrder(LogJobs!Exported, n, t, c), NEW from, NEW upTo \in Nat,
         Reached(from, t, c, ups), Passed(from, LogJobs!Exported, ups, done)
  PROVE  LET new == LogJobs!AfterCursor(LogJobs!Logs(from, upTo), from) IN
         /\ new \in Seq(LogJobs!Exported)
         /\ LeavesNoGap(new, LogJobs!Exported, ups, done)
  <1> DEFINE S == Found(from, upTo)
             all == LogJobs!Matching(from, upTo)
             seq == LogJobs!FirstOf(all, ShipLimit)
             new == LogJobs!AfterCursor(seq, from)
  <1>1. /\ all \in Seq(S) /\ \A e \in S : \E k \in DOMAIN all : all[k] = e
        /\ \A i, k \in DOMAIN all : i <= k <=> all[i].id <= all[k].id
    BY AnswerInOrder
  <1>2. S \subseteq LogJobs!Exported /\ \A e \in S : e \in Entries
    BY DEF Found, EntriesInOrder
  <1>3. LogJobs!Logs(from, upTo) = seq
    BY DEF LogJobs!Logs
  <1> HIDE DEF S, all
  <1>4. /\ seq \in Seq(S)
        /\ \A k : k \in DOMAIN seq <=> k \in DOMAIN all /\ k <= ShipLimit
        /\ \A k \in DOMAIN seq : seq[k] = all[k]
    BY <1>1, LogNumbers, FirstEntries
  <1> HIDE DEF seq
  <1>5. \A i, k \in DOMAIN seq :
          i <= k /\ LogJobs!IsAfterCursor(seq[i], from) => LogJobs!IsAfterCursor(seq[k], from)
    <2>1. SUFFICES ASSUME NEW i \in DOMAIN seq, NEW k \in DOMAIN seq, i <= k,
                          LogJobs!IsAfterCursor(seq[i], from)
                   PROVE  LogJobs!IsAfterCursor(seq[k], from)
      OBVIOUS
    <2>2. seq[i] \in S /\ seq[k] \in S /\ seq[i].id <= seq[k].id
      BY <1>1, <1>4, <2>1
    <2>3. seq[i] \in Entries /\ seq[k] \in Entries /\ seq[i].sec <= seq[k].sec
          /\ (seq[i] = seq[k] \/ seq[i].counter < seq[k].counter)
      <3>1. seq[i] \in LogJobs!Exported /\ seq[k] \in LogJobs!Exported
        BY <1>2, <2>2
      <3>2. seq[i].id \in Nat /\ seq[k].id \in Nat
        BY <1>2, <2>2 DEF Entries
      <3>3. seq[i].id = seq[k].id \/ seq[i].id < seq[k].id
        BY <2>2, <3>2
      <3>4. QED
        BY <1>2, <2>2, <3>1, <3>3 DEF EntriesInOrder
    <2>4. from.sec \in Nat /\ from.counter \in Nat
      BY DEF Reached
    <2>5. QED
      BY <2>1, <2>3, <2>4 DEF LogJobs!IsAfterCursor, LogJobs!Precedes, Entries
  <1>6. PICK m \in 0 .. Len(seq) :
          /\ new \in Seq(S) /\ DOMAIN new = 1 .. Len(seq) - m
          /\ \A k \in 1 .. Len(seq) - m : new[k] = seq[k + m]
          /\ \A i \in DOMAIN seq : LogJobs!IsAfterCursor(seq[i], from) <=> i > m
    BY <1>4, <1>5, LastEntries
  <1> HIDE DEF new
  <1>7. new \in Seq(LogJobs!Exported)
    BY <1>2, <1>6
  <1>8. ASSUME NEW k \in DOMAIN new, NEW e \in LogJobs!Exported,
               ~LogJobs!Precedes(new[k], e), e.sec \notin ups
        PROVE  done[e.id] > 0 \/ \E i \in 1 .. k : new[i].id = e.id
    <2>1. k + m \in DOMAIN seq /\ new[k] = seq[k + m] /\ new[k] \in S /\ k \in Nat /\ m \in Nat
      <3>1. DOMAIN seq = 1 .. Len(seq) /\ Len(seq) \in Nat
        BY <1>4
      <3>2. QED
        BY <1>6, <3>1
    <2>2. e \in Entries /\ new[k] \in Entries /\ new[k] \in LogJobs!Exported
      BY <1>2, <2>1 DEF EntriesInOrder
    <2>3. e.id <= new[k].id /\ new[k].id <= upTo
      <3>1. ~(new[k].id < e.id)
        BY <1>8, <2>2, OrderOfIds
      <3>2. new[k].id <= upTo
        BY <2>1 DEF S, Found
      <3>3. QED
        BY <2>2, <3>1, <3>2 DEF Entries
    <2>4. CASE LogJobs!Precedes(from, e)
      <3>1. e.sec >= LogJobs!Since(from)
        <4>1. from.sec <= e.sec /\ from.sec \in Nat /\ e.sec \in Nat
          BY <2>2, <2>4 DEF LogJobs!Precedes, Reached, Entries
        <4>2. LogJobs!Since(from) <= from.sec /\ LogJobs!Since(from) \in Int
          BY <4>1, LogNumbers DEF LogJobs!Since
        <4>3. QED
          BY <4>1, <4>2
      <3>2. e \in S
        BY <2>2, <2>3, <3>1 DEF S, Found, Entries
      <3>3. PICK r \in DOMAIN all : all[r] = e
        BY <1>1, <3>2
      <3>4. r <= k + m
        BY <1>1, <1>4, <2>1, <2>3, <3>3
      <3>5. r \in Nat /\ r \in DOMAIN seq /\ seq[r] = e
        <4>1. r \in Nat /\ DOMAIN all = 1 .. Len(all)
          BY <1>1
        <4>2. k + m <= ShipLimit
          BY <1>4, <2>1
        <4>3. r <= ShipLimit
          BY <2>1, <3>4, <4>1, <4>2, LogNumbers
        <4>4. QED
          BY <1>4, <3>3, <4>1, <4>3
      <3>6. r > m
        BY <1>6, <2>4, <3>5 DEF LogJobs!IsAfterCursor
      <3>7. r - m \in 1 .. k /\ r - m \in 1 .. Len(seq) - m /\ (r - m) + m = r
        <4>1. DOMAIN seq = 1 .. Len(seq) /\ Len(seq) \in Nat
          BY <1>4
        <4>2. QED
          BY <2>1, <3>4, <3>5, <3>6, <4>1
      <3>8. new[r - m] = e
        BY <1>6, <3>5, <3>7
      <3>9. QED
        BY <3>7, <3>8
    <2>5. CASE ~LogJobs!Precedes(from, e)
      BY <1>8, <2>5 DEF Passed
    <2>6. QED
      BY <2>4, <2>5
  <1>9. LeavesNoGap(new, LogJobs!Exported, ups, done)
    BY <1>8 DEF LeavesNoGap
  <1>10. QED
    BY <1>3, <1>7, <1>9 DEF new

(* A place that was reached stays reached, and what was passed stays       *)
(* passed, when what is added to the log comes behind every such place and *)
(* no shipment is taken back.                                              *)
LEMMA PassedStays ==
  ASSUME NEW t, NEW c, NEW ups, NEW held, NEW done, NEW held2, NEW ups2, NEW done2,
         \A e \in held2 : e.sec \notin ups2 =>
           \/ e \in held /\ e.sec \notin ups /\ (done[e.id] > 0 => done2[e.id] > 0)
           \/ \A x : Reached(x, t, c, ups) => LogJobs!Precedes(x, e),
         NEW x, Reached(x, t, c, ups), Passed(x, held, ups, done)
  PROVE  Passed(x, held2, ups2, done2)
  BY DEF Passed

(* So does what a job holds.                                               *)
LEMMA LogJobStays ==
  ASSUME NEW n \in Nat, NEW t, NEW c, NEW ups, NEW held, NEW done,
         NEW n2 \in Nat, NEW t2, NEW c2, NEW ups2, NEW held2, NEW done2, n <= n2,
         \A x : Reached(x, t, c, ups) => Reached(x, t2, c2, ups2),
         \A e \in held2 : e.sec \notin ups2 =>
           \/ e \in held /\ e.sec \notin ups /\ (done[e.id] > 0 => done2[e.id] > 0)
           \/ \A x : Reached(x, t, c, ups) => LogJobs!Precedes(x, e),
         NEW k, LogJobFits(k, n, t, c, ups, held, done)
  PROVE  LogJobFits(k, n2, t2, c2, ups2, held2, done2)
  <1>1. /\ DOMAIN k = {"at", "from", "entries"} /\ k.at \in {"idle", "fetch", "ship", "save"}
        /\ k.entries \in Seq(Entries)
    BY DEF LogJobFits
  <1>2. k.at # "idle" => Reached(k.from, t2, c2, ups2) /\ Passed(k.from, held2, ups2, done2)
    <2>1. k.at # "idle" => Reached(k.from, t, c, ups) /\ Passed(k.from, held, ups, done)
      BY DEF LogJobFits
    <2>2. QED
      BY <2>1, PassedStays
  <1>3. k.at \in {"ship", "save"} =>
          /\ k.entries # <<>>
          /\ \A i \in DOMAIN k.entries :
               k.entries[i].id \in 1 .. n2 /\ Reached(k.entries[i], t2, c2, ups2)
               /\ Reached(k.entries[i], t, c, ups)
    BY DEF LogJobFits
  <1>4. k.at = "ship" => LeavesNoGap(k.entries, held2, ups2, done2)
    <2>1. SUFFICES ASSUME k.at = "ship", NEW i \in DOMAIN k.entries, NEW e \in held2,
                          ~LogJobs!Precedes(k.entries[i], e), e.sec \notin ups2
                   PROVE  done2[e.id] > 0 \/ \E m \in 1 .. i : k.entries[m].id = e.id
      BY DEF LeavesNoGap
    <2>2. Reached(k.entries[i], t, c, ups)
      BY <1>3, <2>1
    <2>3. e \in held /\ e.sec \notin ups /\ (done[e.id] > 0 => done2[e.id] > 0)
      BY <2>1, <2>2
    <2>4. done[e.id] > 0 \/ \E m \in 1 .. i : k.entries[m].id = e.id
      BY <2>1, <2>3 DEF LogJobFits, LeavesNoGap
    <2>5. QED
      BY <2>3, <2>4
  <1>5. k.at = "save" => Passed(k.entries[1], held2, ups2, done2)
    <2>1. SUFFICES ASSUME k.at = "save"
                   PROVE  Passed(k.entries[1], held2, ups2, done2)
      OBVIOUS
    <2>2. 1 \in DOMAIN k.entries
      BY <1>1, <1>3, <2>1
    <2>3. Reached(k.entries[1], t, c, ups) /\ Passed(k.entries[1], held, ups, done)
      BY <1>3, <2>1, <2>2 DEF LogJobFits
    <2>4. QED
      BY <2>3, PassedStays
  <1>6. QED
    BY <1>1, <1>2, <1>3, <1>4, <1>5 DEF LogJobFits

(* What the canister does disturbs neither cursor nor job.                 *)
LEMMA CanisterMove ==
  ASSUME LogInv, UNCHANGED <<lgCursor, lgShipped, lgJob>>,
         lgLast' \in Nat, lgLast <= lgLast', lgLast' <= MaxEntries,
         lgCounter' \in Nat, lgNow' \in Nat,
         DOMAIN lgBuffer' = Priorities, \A p \in Priorities : lgBuffer'[p] \in Seq(Entries),
         EntriesInOrder(LogJobs!Exported', lgLast', lgNow', lgCounter'),
         \A x : Reached(x, lgNow, lgCounter, lgUpgraded) => Reached(x, lgNow', lgCounter', lgUpgraded'),
         \A e \in LogJobs!Exported' : e.sec \notin lgUpgraded' =>
           \/ e \in LogJobs!Exported /\ e.sec \notin lgUpgraded
           \/ \A x : Reached(x, lgNow, lgCounter, lgUpgraded) => LogJobs!Precedes(x, e)
  PROVE  LogInv'
  <1>1. lgLast \in Nat /\ lgCursor' = lgCursor /\ lgShipped' = lgShipped /\ lgJob' = lgJob
    BY DEF LogInv
  <1>2. Reached(lgCursor, lgNow, lgCounter, lgUpgraded)
        /\ Passed(lgCursor, LogJobs!Exported, lgUpgraded, lgShipped)
    BY DEF LogInv
  <1>3. Reached(lgCursor, lgNow', lgCounter', lgUpgraded')
        /\ Passed(lgCursor, LogJobs!Exported', lgUpgraded', lgShipped)
    BY <1>2, PassedStays
  <1>4. ASSUME NEW j \in Jobs
        PROVE  LogJobFits(lgJob[j], lgLast', lgNow', lgCounter', lgUpgraded', LogJobs!Exported', lgShipped)
    <2>1. LogJobFits(lgJob[j], lgLast, lgNow, lgCounter, lgUpgraded, LogJobs!Exported, lgShipped)
      BY DEF LogInv
    <2>2. QED
      BY <1>1, <2>1, LogJobStays
  <1>5. DOMAIN lgShipped = 1 .. MaxEntries /\ (\A i \in 1 .. MaxEntries : lgShipped[i] \in Nat)
        /\ DOMAIN lgJob = Jobs
    BY DEF LogInv
  <1>6. QED
    BY <1>1, <1>3, <1>4, <1>5 DEF LogInv

(* An entry is added to a buffer, which drops its oldest if it is full.    *)
LEMMA BufferTakes ==
  ASSUME NEW S, NEW seq \in Seq(S), NEW x \in S, NEW cap \in Nat \ {0}
  PROVE  LET new == Append(IF Len(seq) < cap THEN seq ELSE Tail(seq), x) IN
         /\ new \in Seq(S)
         /\ \A i \in DOMAIN new : new[i] = x \/ \E k \in DOMAIN seq : seq[k] = new[i]
  <1> DEFINE rest == IF Len(seq) < cap THEN seq ELSE Tail(seq)
  <1>1. rest \in Seq(S) /\ \A i \in DOMAIN rest : \E k \in DOMAIN seq : seq[k] = rest[i]
    <2>1. CASE Len(seq) < cap
      BY <2>1
    <2>2. CASE ~ (Len(seq) < cap)
      <3>1. seq # <<>> /\ Len(seq) > 0
        BY <2>2
      <3>2. Tail(seq) \in Seq(S) /\ DOMAIN Tail(seq) = 1 .. Len(seq) - 1
            /\ \A i \in 1 .. Len(seq) - 1 : Tail(seq)[i] = seq[i + 1]
        BY <3>1
      <3>3. \A i \in 1 .. Len(seq) - 1 : i + 1 \in DOMAIN seq
        BY <3>1
      <3>4. QED
        BY <2>2, <3>2, <3>3
    <2>3. QED
      BY <2>1, <2>2
  <1> HIDE DEF rest
  <1>2. Append(rest, x) \in Seq(S) /\ DOMAIN Append(rest, x) = 1 .. Len(rest) + 1
        /\ (\A i \in 1 .. Len(rest) : Append(rest, x)[i] = rest[i])
        /\ Append(rest, x)[Len(rest) + 1] = x /\ Len(rest) \in Nat /\ DOMAIN rest = 1 .. Len(rest)
    BY <1>1
  <1>3. ASSUME NEW i \in DOMAIN Append(rest, x)
        PROVE  Append(rest, x)[i] = x \/ \E k \in DOMAIN seq : seq[k] = Append(rest, x)[i]
    <2>1. i \in 1 .. Len(rest) \/ i = Len(rest) + 1
      BY <1>2
    <2>2. QED
      BY <1>1, <1>2, <2>1
  <1>4. QED
    BY <1>2, <1>3 DEF rest

(* A new entry is behind every place that was reached, unless the canister *)
(* was upgraded within the second.                                         *)
LEMMA LogKeeps ==
  ASSUME LogInv, NEW p \in Priorities, LogJobs!Log(p)
  PROVE  LogInv'
  <1> DEFINE entry == [id |-> lgLast + 1, sec |-> lgNow, counter |-> lgCounter + 1]
             rest == IF Len(lgBuffer[p]) < Capacity THEN lgBuffer[p] ELSE Tail(lgBuffer[p])
  <1>1. lgLast \in Nat /\ lgCounter \in Nat /\ lgNow \in Nat
        /\ DOMAIN lgBuffer = Priorities /\ \A q \in Priorities : lgBuffer[q] \in Seq(Entries)
    BY DEF LogInv
  <1>2. /\ lgLast < MaxEntries /\ lgLast' = lgLast + 1 /\ lgCounter' = lgCounter + 1
        /\ UNCHANGED <<lgUpgraded, lgNow, lgCursor, lgShipped, lgJob>>
        /\ DOMAIN lgBuffer' = DOMAIN lgBuffer
        /\ \A q \in Priorities \ {p} : lgBuffer'[q] = lgBuffer[q]
        /\ lgBuffer'[p] = Append(rest, entry)
    BY <1>1 DEF LogJobs!Log
  <1>3. entry \in Entries /\ entry.id = lgLast + 1 /\ entry.sec = lgNow
        /\ entry.counter = lgCounter + 1
    BY <1>1 DEF Entries
  <1> HIDE DEF entry
  <1>4. /\ Append(rest, entry) \in Seq(Entries)
        /\ \A i \in DOMAIN Append(rest, entry) :
             Append(rest, entry)[i] = entry \/ \E k \in DOMAIN lgBuffer[p] : lgBuffer[p][k] = Append(rest, entry)[i]
    BY <1>1, <1>3, LogNumbers, BufferTakes
  <1> HIDE DEF rest
  <1>5. \A q \in Priorities : lgBuffer'[q] \in Seq(Entries)
    BY <1>1, <1>2, <1>4
  <1>6. ASSUME NEW e \in LogJobs!Exported', e # entry
        PROVE  e \in LogJobs!Exported
    <2>1. PICK q \in Priorities : \E i \in DOMAIN lgBuffer'[q] : lgBuffer'[q][i] = e
      BY DEF LogJobs!Exported, LogJobs!ToSet
    <2>2. PICK k \in DOMAIN lgBuffer[q] : lgBuffer[q][k] = e
      <3>1. CASE q = p
        BY <1>2, <1>4, <1>6, <2>1, <3>1
      <3>2. CASE q # p
        BY <1>2, <2>1, <3>2
      <3>3. QED
        BY <3>1, <3>2
    <2>3. QED
      BY <2>2 DEF LogJobs!Exported, LogJobs!ToSet
  <1>7. EntriesInOrder(LogJobs!Exported, lgLast, lgNow, lgCounter)
    BY DEF LogInv
  <1>8. EntriesInOrder(LogJobs!Exported', lgLast', lgNow', lgCounter')
    <2>1. \A e \in LogJobs!Exported : e \in Entries /\ e.id \in Nat /\ e.sec \in Nat /\ e.counter \in Nat
            /\ 1 <= e.id /\ e.id <= lgLast /\ e.sec <= lgNow /\ e.counter <= lgCounter
      BY <1>1, <1>7 DEF EntriesInOrder, Entries
    <2>2. \A e \in LogJobs!Exported' :
            e \in Entries /\ e.id \in 1 .. lgLast' /\ e.sec <= lgNow' /\ e.counter <= lgCounter'
      BY <1>1, <1>2, <1>3, <1>6, <2>1
    <2>3. ASSUME NEW d \in LogJobs!Exported', NEW e \in LogJobs!Exported'
          PROVE  /\ d.id <= e.id => d.sec <= e.sec
                 /\ d.id < e.id => d.counter < e.counter
                 /\ d.id = e.id => d = e
      <3>1. CASE d # entry /\ e # entry
        BY <1>6, <1>7, <3>1 DEF EntriesInOrder
      <3>2. CASE d # entry /\ e = entry
        BY <1>1, <1>3, <1>6, <2>1, <3>2
      <3>3. CASE d = entry /\ e # entry
        BY <1>1, <1>3, <1>6, <2>1, <3>3
      <3>4. CASE d = entry /\ e = entry
        BY <1>1, <1>3, <3>4
      <3>5. QED
        BY <3>1, <3>2, <3>3, <3>4
    <2>4. QED
      BY <2>2, <2>3 DEF EntriesInOrder
  <1>9. \A x : Reached(x, lgNow, lgCounter, lgUpgraded) => Reached(x, lgNow', lgCounter', lgUpgraded')
    BY <1>1, <1>2 DEF Reached
  <1>10. entry.sec \notin lgUpgraded =>
           \A x : Reached(x, lgNow, lgCounter, lgUpgraded) => LogJobs!Precedes(x, entry)
    BY <1>1, <1>3 DEF Reached, LogJobs!Precedes
  <1>11. \A e \in LogJobs!Exported' : e.sec \notin lgUpgraded' =>
           \/ e \in LogJobs!Exported /\ e.sec \notin lgUpgraded
           \/ \A x : Reached(x, lgNow, lgCounter, lgUpgraded) => LogJobs!Precedes(x, e)
    BY <1>2, <1>6, <1>10
  <1>12. lgLast' \in Nat /\ lgLast <= lgLast' /\ lgLast' <= MaxEntries /\ lgCounter' \in Nat
         /\ lgNow' \in Nat
    BY <1>1, <1>2, LogNumbers
  <1>13. QED
    BY <1>1, <1>2, <1>5, <1>8, <1>9, <1>11, <1>12, CanisterMove

(* An upgrade loses the entries, and its second counts no more.            *)
LEMMA UpgradeKeeps ==
  ASSUME LogInv, LogJobs!Upgrade
  PROVE  LogInv'
  <1>1. lgLast \in Nat /\ lgCounter \in Nat /\ lgNow \in Nat /\ lgLast <= MaxEntries
    BY DEF LogInv
  <1>2. /\ DOMAIN lgBuffer' = Priorities /\ \A p \in Priorities : lgBuffer'[p] = <<>>
        /\ lgCounter' = 0 /\ lgUpgraded' = lgUpgraded \cup {lgNow}
        /\ UNCHANGED <<lgLast, lgNow, lgCursor, lgShipped, lgJob>>
    BY DEF LogJobs!Upgrade
  <1>3. LogJobs!Exported' = {}
    BY <1>2 DEF LogJobs!Exported, LogJobs!ToSet
  <1>4. EntriesInOrder(LogJobs!Exported', lgLast', lgNow', lgCounter')
    BY <1>3 DEF EntriesInOrder
  <1>5. \A x : Reached(x, lgNow, lgCounter, lgUpgraded) => Reached(x, lgNow', lgCounter', lgUpgraded')
    BY <1>1, <1>2 DEF Reached
  <1>6. <<>> \in Seq(Entries)
    OBVIOUS
  <1>7. \A p \in Priorities : lgBuffer'[p] \in Seq(Entries)
    BY <1>2, <1>6
  <1>8. lgLast' \in Nat /\ lgLast <= lgLast' /\ lgLast' <= MaxEntries /\ lgCounter' \in Nat
        /\ lgNow' \in Nat
    BY <1>1, <1>2
  <1>9. \A e \in LogJobs!Exported' : e.sec \notin lgUpgraded' =>
          \/ e \in LogJobs!Exported /\ e.sec \notin lgUpgraded
          \/ \A x : Reached(x, lgNow, lgCounter, lgUpgraded) => LogJobs!Precedes(x, e)
    BY <1>3
  <1>10. QED
    BY <1>2, <1>4, <1>5, <1>7, <1>8, <1>9, CanisterMove

(* Nothing is logged by the passing of time.                               *)
LEMMA LogTickKeeps ==
  ASSUME LogInv, LogJobs!Tick
  PROVE  LogInv'
  <1>1. /\ lgLast \in Nat /\ lgCounter \in Nat /\ lgNow \in Nat /\ lgLast <= MaxEntries
        /\ DOMAIN lgBuffer = Priorities /\ \A p \in Priorities : lgBuffer[p] \in Seq(Entries)
    BY DEF LogInv
  <1>2. lgNow' = lgNow + 1
        /\ UNCHANGED <<lgBuffer, lgLast, lgCounter, lgUpgraded, lgCursor, lgShipped, lgJob>>
    BY DEF LogJobs!Tick, LogJobs!canister
  <1>3. LogJobs!Exported' = LogJobs!Exported
    BY <1>2 DEF LogJobs!Exported
  <1>4. EntriesInOrder(LogJobs!Exported, lgLast, lgNow, lgCounter)
    BY DEF LogInv
  <1>5. EntriesInOrder(LogJobs!Exported, lgLast, lgNow + 1, lgCounter)
    BY <1>1, <1>4 DEF EntriesInOrder, Entries
  <1>6. \A x : Reached(x, lgNow, lgCounter, lgUpgraded) => Reached(x, lgNow + 1, lgCounter, lgUpgraded)
    BY <1>1 DEF Reached
  <1>7. QED
    BY <1>1, <1>2, <1>3, <1>5, <1>6, CanisterMove

(* A step of a job disturbs no other, and takes no shipment back.          *)
LEMMA LogJobMove ==
  ASSUME LogInv, NEW j \in Jobs,
         UNCHANGED <<lgBuffer, lgLast, lgCounter, lgNow, lgUpgraded>>,
         DOMAIN lgShipped' = 1 .. MaxEntries,
         \A i \in 1 .. MaxEntries : lgShipped'[i] \in Nat /\ (lgShipped[i] > 0 => lgShipped'[i] > 0),
         Reached(lgCursor', lgNow, lgCounter, lgUpgraded),
         Passed(lgCursor', LogJobs!Exported, lgUpgraded, lgShipped'),
         DOMAIN lgJob' = Jobs, \A i \in Jobs \ {j} : lgJob'[i] = lgJob[i],
         LogJobFits(lgJob'[j], lgLast, lgNow, lgCounter, lgUpgraded, LogJobs!Exported, lgShipped')
  PROVE  LogInv'
  <1>1. LogJobs!Exported' = LogJobs!Exported
    BY DEF LogJobs!Exported
  <1>2. lgLast \in Nat /\ lgLast <= MaxEntries
        /\ EntriesInOrder(LogJobs!Exported, lgLast, lgNow, lgCounter)
    BY DEF LogInv
  <1>3. \A e \in LogJobs!Exported : lgShipped[e.id] > 0 => lgShipped'[e.id] > 0
    BY <1>2, LogNumbers DEF EntriesInOrder
  <1>4. ASSUME NEW i \in Jobs
        PROVE  LogJobFits(lgJob'[i], lgLast, lgNow, lgCounter, lgUpgraded, LogJobs!Exported, lgShipped')
    <2>1. LogJobFits(lgJob[i], lgLast, lgNow, lgCounter, lgUpgraded, LogJobs!Exported, lgShipped)
      BY DEF LogInv
    <2>2. LogJobFits(lgJob[i], lgLast, lgNow, lgCounter, lgUpgraded, LogJobs!Exported, lgShipped')
      <3>1. lgLast <= lgLast /\ \A x : Reached(x, lgNow, lgCounter, lgUpgraded)
                                       => Reached(x, lgNow, lgCounter, lgUpgraded)
        BY <1>2
      <3>2. \A e \in LogJobs!Exported : e.sec \notin lgUpgraded =>
              \/ e \in LogJobs!Exported /\ e.sec \notin lgUpgraded
                 /\ (lgShipped[e.id] > 0 => lgShipped'[e.id] > 0)
              \/ \A x : Reached(x, lgNow, lgCounter, lgUpgraded) => LogJobs!Precedes(x, e)
        BY <1>3
      <3>3. QED
        BY <1>2, <2>1, <3>1, <3>2, LogJobStays
    <2>3. QED
      BY <2>2
  <1>5. QED
    BY <1>1, <1>4 DEF LogInv

(* It has the same to ship as before, when nothing is shipped.             *)
LEMMA QuietLogMove ==
  ASSUME LogInv, NEW j \in Jobs,
         UNCHANGED <<lgBuffer, lgLast, lgCounter, lgNow, lgUpgraded, lgShipped>>,
         Reached(lgCursor', lgNow, lgCounter, lgUpgraded),
         Passed(lgCursor', LogJobs!Exported, lgUpgraded, lgShipped),
         DOMAIN lgJob' = Jobs, \A i \in Jobs \ {j} : lgJob'[i] = lgJob[i],
         LogJobFits(lgJob'[j], lgLast, lgNow, lgCounter, lgUpgraded, LogJobs!Exported, lgShipped)
  PROVE  LogInv'
  <1>1. DOMAIN lgShipped = 1 .. MaxEntries /\ \A i \in 1 .. MaxEntries : lgShipped[i] \in Nat
    BY DEF LogInv
  <1>2. lgShipped' = lgShipped
    OBVIOUS
  <1>3. QED
    BY <1>1, <1>2, LogJobMove

(* A job at rest holds nothing.                                            *)
LEMMA RestFits ==
  ASSUME NEW n, NEW t, NEW c, NEW ups, NEW held, NEW done
  PROVE  LogJobFits(LogJobs!Idle, n, t, c, ups, held, done)
  <1>1. LogJobs!Idle.at = "idle" /\ LogJobs!Idle.entries = <<>>
        /\ DOMAIN LogJobs!Idle = {"at", "from", "entries"}
    BY DEF LogJobs!Idle
  <1>2. <<>> \in Seq(Entries)
    OBVIOUS
  <1>3. QED
    BY <1>1, <1>2 DEF LogJobFits

(* A job goes on from the cursor as it is then.                            *)
LEMMA ReadCursorKeeps ==
  ASSUME LogInv, NEW j \in Jobs, LogJobs!ReadCursor(j)
  PROVE  LogInv'
  <1> DEFINE new == [at |-> "fetch", from |-> lgCursor, entries |-> <<>>]
  <1>1. /\ UNCHANGED <<lgBuffer, lgLast, lgCounter, lgNow, lgUpgraded, lgShipped, lgCursor>>
        /\ DOMAIN lgJob' = Jobs /\ \A i \in Jobs \ {j} : lgJob'[i] = lgJob[i]
        /\ lgJob'[j] = new
    BY DEF LogInv, LogJobs!ReadCursor, LogJobs!canister, LogJobs!Idle
  <1>2. Reached(lgCursor, lgNow, lgCounter, lgUpgraded)
        /\ Passed(lgCursor, LogJobs!Exported, lgUpgraded, lgShipped)
    BY DEF LogInv
  <1>3. new.at = "fetch" /\ new.from = lgCursor /\ new.entries = <<>>
        /\ DOMAIN new = {"at", "from", "entries"}
    OBVIOUS
  <1> HIDE DEF new
  <1>4. <<>> \in Seq(Entries)
    OBVIOUS
  <1>5. LogJobFits(new, lgLast, lgNow, lgCounter, lgUpgraded, LogJobs!Exported, lgShipped)
    BY <1>2, <1>3, <1>4 DEF LogJobFits
  <1>6. QED
    BY <1>1, <1>2, <1>5, QuietLogMove

(* A job that stops, or has nothing to ship, is at rest.                   *)
LEMMA LogJobEnds ==
  ASSUME LogInv, NEW j \in Jobs,
         UNCHANGED <<lgBuffer, lgLast, lgCounter, lgNow, lgUpgraded, lgShipped, lgCursor>>,
         lgJob' = [lgJob EXCEPT ![j] = LogJobs!Idle]
  PROVE  LogInv'
  <1>1. DOMAIN lgJob' = Jobs /\ (\A i \in Jobs \ {j} : lgJob'[i] = lgJob[i])
        /\ lgJob'[j] = LogJobs!Idle
    BY DEF LogInv
  <1>2. Reached(lgCursor, lgNow, lgCounter, lgUpgraded)
        /\ Passed(lgCursor, LogJobs!Exported, lgUpgraded, lgShipped)
    BY DEF LogInv
  <1>3. LogJobFits(LogJobs!Idle, lgLast, lgNow, lgCounter, lgUpgraded, LogJobs!Exported, lgShipped)
    BY RestFits
  <1>4. QED
    BY <1>1, <1>2, <1>3, QuietLogMove

(* A fetch from any replica.                                               *)
LEMMA LogFetchKeeps ==
  ASSUME LogInv, NEW j \in Jobs, LogJobs!Fetch(j)
  PROVE  LogInv'
  <1> DEFINE from == lgJob[j].from
             new(u) == LogJobs!AfterCursor(LogJobs!Logs(from, u), from)
  <1>1. lgJob[j].at = "fetch" /\ UNCHANGED <<lgBuffer, lgLast, lgCounter, lgNow, lgUpgraded, lgShipped, lgCursor>>
    BY DEF LogJobs!Fetch, LogJobs!canister
  <1>2. PICK u \in 0 .. lgLast :
          lgJob' = [lgJob EXCEPT ![j] =
            IF new(u) = <<>> THEN LogJobs!Idle
            ELSE [lgJob[j] EXCEPT !.at = "ship", !.entries = new(u)]]
    BY DEF LogJobs!Fetch
  <1> DEFINE seq == new(u)
  <1> HIDE DEF new
  <1>3. lgLast \in Nat /\ lgCounter \in Nat /\ lgNow \in Nat /\ DOMAIN lgJob = Jobs
        /\ EntriesInOrder(LogJobs!Exported, lgLast, lgNow, lgCounter)
        /\ Reached(lgCursor, lgNow, lgCounter, lgUpgraded)
        /\ Passed(lgCursor, LogJobs!Exported, lgUpgraded, lgShipped)
    BY DEF LogInv
  <1>4. LogJobFits(lgJob[j], lgLast, lgNow, lgCounter, lgUpgraded, LogJobs!Exported, lgShipped)
    BY DEF LogInv
  <1>5. Reached(from, lgNow, lgCounter, lgUpgraded)
        /\ Passed(from, LogJobs!Exported, lgUpgraded, lgShipped)
        /\ DOMAIN lgJob[j] = {"at", "from", "entries"}
    BY <1>1, <1>4 DEF LogJobFits
  <1>6. seq \in Seq(LogJobs!Exported) /\ LeavesNoGap(seq, LogJobs!Exported, lgUpgraded, lgShipped)
    <2>1. u \in Nat
      BY <1>3
    <2>2. QED
      BY <1>3, <1>5, <2>1, FetchLeavesNoGap DEF new
  <1>7. CASE seq = <<>>
    <2>1. lgJob' = [lgJob EXCEPT ![j] = LogJobs!Idle]
      BY <1>2, <1>7
    <2>2. QED
      BY <1>1, <2>1, LogJobEnds
  <1>8. CASE seq # <<>>
    <2> DEFINE k == [lgJob[j] EXCEPT !.at = "ship", !.entries = seq]
    <2>1. DOMAIN lgJob' = Jobs /\ (\A i \in Jobs \ {j} : lgJob'[i] = lgJob[i]) /\ lgJob'[j] = k
      BY <1>2, <1>3, <1>8
    <2>2. DOMAIN k = {"at", "from", "entries"} /\ k.at = "ship" /\ k.from = from /\ k.entries = seq
      BY <1>5
    <2> HIDE DEF k, seq, from
    <2>3. seq \in Seq(Entries)
      BY <1>3, <1>6 DEF EntriesInOrder
    <2>4. \A i \in DOMAIN seq : seq[i] \in LogJobs!Exported
      BY <1>6
    <2>5. \A i \in DOMAIN seq : seq[i].id \in 1 .. lgLast
            /\ Reached(seq[i], lgNow, lgCounter, lgUpgraded)
      BY <1>3, <2>4 DEF EntriesInOrder, Reached, Entries
    <2>6. LogJobFits(k, lgLast, lgNow, lgCounter, lgUpgraded, LogJobs!Exported, lgShipped)
      BY <1>5, <1>6, <1>8, <2>2, <2>3, <2>5 DEF LogJobFits
    <2>7. QED
      BY <1>1, <1>3, <2>1, <2>6, QuietLogMove
  <1>9. QED
    BY <1>7, <1>8

(* What a job has shipped is counted, and the rest leaves no gap either;   *)
(* of a single entry there is no rest, and the cursor may move there.      *)
LEMMA ShipKeeps ==
  ASSUME LogInv, NEW j \in Jobs, LogJobs!Ship(j)
  PROVE  LogInv'
  <1> DEFINE k == lgJob[j]
             seq == k.entries
             first == seq[1]
             done == lgShipped'
             k2 == IF Len(seq) = 1 THEN [k EXCEPT !.at = "save"] ELSE [k EXCEPT !.entries = Tail(seq)]
  <1>1. k.at = "ship" /\ UNCHANGED <<lgBuffer, lgLast, lgCounter, lgNow, lgUpgraded, lgCursor>>
    BY DEF LogJobs!Ship, LogJobs!canister
  <1>2. lgJob' = [lgJob EXCEPT ![j] = k2]
    BY DEF LogJobs!Ship
  <1>3. /\ lgLast \in Nat /\ lgLast <= MaxEntries /\ DOMAIN lgJob = Jobs
        /\ DOMAIN lgShipped = 1 .. MaxEntries /\ \A i \in 1 .. MaxEntries : lgShipped[i] \in Nat
        /\ EntriesInOrder(LogJobs!Exported, lgLast, lgNow, lgCounter)
        /\ Reached(lgCursor, lgNow, lgCounter, lgUpgraded)
        /\ Passed(lgCursor, LogJobs!Exported, lgUpgraded, lgShipped)
    BY DEF LogInv
  <1>4. LogJobFits(k, lgLast, lgNow, lgCounter, lgUpgraded, LogJobs!Exported, lgShipped)
    BY DEF LogInv
  <1>5. /\ DOMAIN k = {"at", "from", "entries"} /\ seq \in Seq(Entries) /\ seq # <<>>
        /\ Reached(k.from, lgNow, lgCounter, lgUpgraded)
        /\ Passed(k.from, LogJobs!Exported, lgUpgraded, lgShipped)
        /\ \A i \in DOMAIN seq : seq[i].id \in 1 .. lgLast /\ Reached(seq[i], lgNow, lgCounter, lgUpgraded)
        /\ LeavesNoGap(seq, LogJobs!Exported, lgUpgraded, lgShipped)
    BY <1>1, <1>4 DEF LogJobFits
  <1>6. 1 \in DOMAIN seq /\ first.id \in 1 .. MaxEntries /\ Head(seq) = first
    BY <1>3, <1>5, LogNumbers
  <1>7. /\ DOMAIN done = 1 .. MaxEntries
        /\ done[first.id] = (IF lgShipped[first.id] < 2 THEN lgShipped[first.id] + 1 ELSE 2)
        /\ \A i \in 1 .. MaxEntries : i # first.id => done[i] = lgShipped[i]
    BY <1>3, <1>6 DEF LogJobs!Ship
  <1>8. done[first.id] \in Nat /\ done[first.id] > 0
    BY <1>3, <1>6, <1>7
  <1>9. \A i \in 1 .. MaxEntries : done[i] \in Nat /\ (lgShipped[i] > 0 => done[i] > 0)
    BY <1>3, <1>7, <1>8
  <1>10. \A e \in LogJobs!Exported : e.id \in 1 .. MaxEntries
    BY <1>3, LogNumbers DEF EntriesInOrder
  <1>11. DOMAIN lgJob' = Jobs /\ (\A i \in Jobs \ {j} : lgJob'[i] = lgJob[i]) /\ lgJob'[j] = k2
    BY <1>2, <1>3
  <1>12. DOMAIN k2 = {"at", "from", "entries"} /\ k2.from = k.from
         /\ (Len(seq) = 1 => k2.at = "save" /\ k2.entries = seq)
         /\ (Len(seq) # 1 => k2.at = "ship" /\ k2.entries = Tail(seq))
    BY <1>1, <1>5
  <1> HIDE DEF k2, seq, k, first, done
  <1>13. Passed(k.from, LogJobs!Exported, lgUpgraded, done)
         /\ Passed(lgCursor, LogJobs!Exported, lgUpgraded, done)
    BY <1>3, <1>5, <1>9, <1>10 DEF Passed
  <1>14. LogJobFits(k2, lgLast, lgNow, lgCounter, lgUpgraded, LogJobs!Exported, done)
    <2>1. CASE Len(seq) = 1
      <3>1. ASSUME NEW e \in LogJobs!Exported, ~LogJobs!Precedes(first, e), e.sec \notin lgUpgraded
            PROVE  done[e.id] > 0
        <4>1. lgShipped[e.id] > 0 \/ \E m \in 1 .. 1 : seq[m].id = e.id
          BY <1>5, <1>6, <3>1 DEF LeavesNoGap, first
        <4>2. CASE lgShipped[e.id] > 0
          BY <1>9, <1>10, <4>2
        <4>3. CASE \E m \in 1 .. 1 : seq[m].id = e.id
          <5>1. first.id = e.id
            BY <4>3 DEF first
          <5>2. QED
            BY <1>8, <5>1
        <4>4. QED
          BY <4>1, <4>2, <4>3
      <3>2. Passed(first, LogJobs!Exported, lgUpgraded, done)
        BY <3>1 DEF Passed
      <3>3. QED
        BY <1>5, <1>12, <1>13, <2>1, <3>2 DEF LogJobFits, first
    <2>2. CASE Len(seq) # 1
      <3>1. /\ Tail(seq) \in Seq(Entries) /\ Tail(seq) # <<>> /\ Len(seq) \in Nat
            /\ DOMAIN seq = 1 .. Len(seq) /\ DOMAIN Tail(seq) = 1 .. Len(seq) - 1
            /\ \A i \in 1 .. Len(seq) - 1 : Tail(seq)[i] = seq[i + 1]
        <4>1. seq \in Seq(Entries) /\ seq # <<>> /\ Len(seq) > 1
          <5>1. seq \in Seq(Entries) /\ seq # <<>>
            BY <1>5
          <5> DEFINE n == Len(seq)
          <5>2. n \in Nat /\ n # 0
            BY <5>1
          <5>3. n # 1
            BY <2>2
          <5> HIDE DEF n
          <5>4. n > 1
            BY <5>2, <5>3
          <5>5. QED
            BY <5>1, <5>4 DEF n
        <4>2. Tail(seq) \in Seq(Entries) /\ Len(Tail(seq)) = Len(seq) - 1
              /\ DOMAIN Tail(seq) = 1 .. Len(seq) - 1
              /\ \A i \in 1 .. Len(seq) - 1 : Tail(seq)[i] = seq[i + 1]
          BY <4>1
        <4>3. Len(Tail(seq)) > 0
          BY <4>1, <4>2
        <4>4. Tail(seq) # <<>>
          <5>1. 1 \in DOMAIN Tail(seq) /\ DOMAIN <<>> = {}
            BY <4>1, <4>2
          <5>2. QED
            BY <5>1
        <4>5. Len(seq) \in Nat /\ DOMAIN seq = 1 .. Len(seq)
          BY <4>1
        <4>6. QED
          BY <4>2, <4>4, <4>5
      <3> DEFINE rest == Tail(seq)
      <3> HIDE DEF rest
      <3>2. \A i \in DOMAIN rest : i \in Nat /\ i + 1 \in DOMAIN seq /\ rest[i] = seq[i + 1]
        BY <3>1 DEF rest
      <3>3. \A i \in DOMAIN rest : rest[i].id \in 1 .. lgLast
              /\ Reached(rest[i], lgNow, lgCounter, lgUpgraded)
        BY <1>5, <3>2
      <3>4. ASSUME NEW i \in DOMAIN rest, NEW e \in LogJobs!Exported,
                   ~LogJobs!Precedes(rest[i], e), e.sec \notin lgUpgraded
            PROVE  done[e.id] > 0 \/ \E m \in 1 .. i : rest[m].id = e.id
        <4>1. lgShipped[e.id] > 0 \/ \E m \in 1 .. i + 1 : seq[m].id = e.id
          BY <1>5, <3>2, <3>4 DEF LeavesNoGap
        <4>2. CASE lgShipped[e.id] > 0
          BY <1>9, <1>10, <4>2
        <4>3. CASE \E m \in 1 .. i + 1 : seq[m].id = e.id
          <5>1. PICK m \in 1 .. i + 1 : seq[m].id = e.id
            BY <4>3
          <5>2. CASE m = 1
            BY <1>8, <5>1, <5>2 DEF first
          <5>3. CASE m # 1
            <6>1. m - 1 \in 1 .. i /\ m - 1 \in DOMAIN rest /\ (m - 1) + 1 = m
              BY <3>1, <3>2, <5>3 DEF rest
            <6>2. rest[m - 1] = seq[m]
              BY <3>2, <6>1
            <6>3. QED
              BY <5>1, <6>1, <6>2
          <5>4. QED
            BY <5>2, <5>3
        <4>4. QED
          BY <4>1, <4>2, <4>3
      <3>5. LeavesNoGap(rest, LogJobs!Exported, lgUpgraded, done)
        BY <3>4 DEF LeavesNoGap
      <3>6. k2.at = "ship" /\ k2.entries = rest /\ rest \in Seq(Entries) /\ rest # <<>>
        BY <1>12, <2>2, <3>1 DEF rest
      <3>7. QED
        BY <1>5, <1>12, <1>13, <3>3, <3>5, <3>6 DEF LogJobFits
    <2>3. QED
      BY <2>1, <2>2
  <1>15. QED
    BY <1>1, <1>3, <1>7, <1>9, <1>11, <1>13, <1>14, LogJobMove DEF done

(* The cursor moves to an entry that was shipped with all before it.       *)
LEMMA WriteCursorKeeps ==
  ASSUME LogInv, NEW j \in Jobs, LogJobs!WriteCursor(j)
  PROVE  LogInv'
  <1> DEFINE e == lgJob[j].entries[1]
  <1>1. lgJob[j].at = "save"
        /\ UNCHANGED <<lgBuffer, lgLast, lgCounter, lgNow, lgUpgraded, lgShipped>>
        /\ lgCursor' = [sec |-> Head(lgJob[j].entries).sec, counter |-> Head(lgJob[j].entries).counter]
        /\ lgJob' = [lgJob EXCEPT ![j] = LogJobs!Idle]
    BY DEF LogJobs!WriteCursor, LogJobs!canister
  <1>2. LogJobFits(lgJob[j], lgLast, lgNow, lgCounter, lgUpgraded, LogJobs!Exported, lgShipped)
    BY DEF LogInv
  <1>3. lgJob[j].entries \in Seq(Entries) /\ lgJob[j].entries # <<>>
        /\ Passed(e, LogJobs!Exported, lgUpgraded, lgShipped)
        /\ \A i \in DOMAIN lgJob[j].entries : Reached(lgJob[j].entries[i], lgNow, lgCounter, lgUpgraded)
    BY <1>1, <1>2 DEF LogJobFits
  <1>4. 1 \in DOMAIN lgJob[j].entries /\ Head(lgJob[j].entries) = e
    BY <1>3
  <1>5. Reached(e, lgNow, lgCounter, lgUpgraded)
    BY <1>3, <1>4
  <1>6. lgCursor'.sec = e.sec /\ lgCursor'.counter = e.counter
    BY <1>1, <1>4
  <1>7. DOMAIN lgJob' = Jobs /\ (\A i \in Jobs \ {j} : lgJob'[i] = lgJob[i])
        /\ lgJob'[j] = LogJobs!Idle
    BY <1>1 DEF LogInv
  <1> HIDE DEF e
  <1>8. Reached(lgCursor', lgNow, lgCounter, lgUpgraded)
    BY <1>5, <1>6 DEF Reached
  <1>9. Passed(lgCursor', LogJobs!Exported, lgUpgraded, lgShipped)
    BY <1>3, <1>6 DEF Passed, LogJobs!Precedes
  <1>10. LogJobFits(LogJobs!Idle, lgLast, lgNow, lgCounter, lgUpgraded, LogJobs!Exported, lgShipped)
    BY RestFits
  <1>11. QED
    BY <1>1, <1>7, <1>8, <1>9, <1>10, QuietLogMove

(* Every step keeps the invariant.                                         *)
LEMMA LogsKeep == LogInv /\ (LogJobs!Next \/ UNCHANGED lgVars) => LogInv'
  <1>1. SUFFICES ASSUME LogInv, LogJobs!Next \/ UNCHANGED lgVars
                 PROVE  LogInv'
    OBVIOUS
  <1>2. CASE \E p \in Priorities : LogJobs!Log(p)
    BY <1>1, <1>2, LogKeeps
  <1>3. CASE LogJobs!Upgrade
    BY <1>1, <1>3, UpgradeKeeps
  <1>4. CASE LogJobs!Tick
    BY <1>1, <1>4, LogTickKeeps
  <1>5. ASSUME NEW j \in Jobs, LogJobs!JobStep(j) \/ LogJobs!Stop(j)
        PROVE  LogInv'
    <2>1. CASE LogJobs!ReadCursor(j)
      BY <1>1, <2>1, ReadCursorKeeps
    <2>2. CASE LogJobs!Fetch(j)
      BY <1>1, <2>2, LogFetchKeeps
    <2>3. CASE LogJobs!Ship(j)
      BY <1>1, <2>3, ShipKeeps
    <2>4. CASE LogJobs!WriteCursor(j)
      BY <1>1, <2>4, WriteCursorKeeps
    <2>5. CASE LogJobs!Stop(j)
      <3>1. UNCHANGED <<lgBuffer, lgLast, lgCounter, lgNow, lgUpgraded, lgShipped, lgCursor>>
            /\ lgJob' = [lgJob EXCEPT ![j] = LogJobs!Idle]
        BY <2>5 DEF LogJobs!Stop, LogJobs!canister
      <3>2. QED
        BY <1>1, <3>1, LogJobEnds
    <2>6. QED
      BY <1>5, <2>1, <2>2, <2>3, <2>4, <2>5 DEF LogJobs!JobStep
  <1>6. CASE UNCHANGED lgVars
    <2>1. LogJobs!Exported' = LogJobs!Exported
      BY <1>6 DEF lgVars, LogJobs!Exported
    <2>2. QED
      BY <1>1, <1>6, <2>1 DEF LogInv, lgVars
  <1>7. QED
    BY <1>1, <1>2, <1>3, <1>4, <1>5, <1>6 DEF LogJobs!Next

(* However many jobs overlap, fail and are killed, whatever the replicas   *)
(* that answer know: the cursor of the deposits passes none that has no    *)
(* row, and that of the logs no entry that was not shipped.                *)
THEOREM NothingIsEverOverlooked == UnionSpec => []NothingIsOverlooked
  <1>1. UnionInit => DepositInv /\ LogInv
    BY DepositInit, LogStarts DEF UnionInit
  <1>2. DepositInv /\ LogInv /\ [UnionNext]_unionVars => DepositInv' /\ LogInv'
    <2>1. SUFFICES ASSUME DepositInv, LogInv, [UnionNext]_unionVars
                   PROVE  DepositInv' /\ LogInv'
      OBVIOUS
    <2>2. DepositJobs!Next \/ UNCHANGED depVars
      BY <2>1 DEF UnionNext, unionVars
    <2>3. LogJobs!Next \/ UNCHANGED lgVars
      BY <2>1 DEF UnionNext, unionVars
    <2>4. QED
      BY <2>1, <2>2, <2>3, DepositsKeep, LogsKeep
  <1>3. DepositInv /\ LogInv => NothingIsOverlooked
    BY DEF DepositInv, LogInv, Passed, NothingIsOverlooked, LogJobs!NothingIsPassedOver
  <1>4. QED
    BY <1>1, <1>2, <1>3, PTL DEF UnionSpec
=============================================================================
