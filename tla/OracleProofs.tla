---------------------------- MODULE OracleProofs ----------------------------
(***************************************************************************)
(* Theorems about the price oracle: the cache and the calls keep their     *)
(* types, the price of an accept is the newest known and not too old, and  *)
(* of the options of one expiry none is priced by a worse rate than one    *)
(* before it.  And about the bots, which trade once for a nonce and for a  *)
(* tick, and the history: what it tells of trades is so.                   *)
(***************************************************************************)
EXTENDS Markets, FiniteSetTheorems, WellFoundedInduction, TLAPS

(* A call to the XRC comes after the question it is for, and no rate is    *)
(* asked for the expiry before it.                                         *)
CallsInTime ==
  \A c \in Calls :
    /\ calls[c].at = "historical" => c \in Settlements
    /\ c \in Settlements /\ calls[c].at # "idle" => Expiry <= now
    /\ calls[c].at \in {"historical", "current"} =>
         calls[c].asked <= calls[c].sent /\ calls[c].sent <= now

(* An accept has waited no longer than its attempts may take.              *)
WaitsAreShort ==
  \A c \in Accepts : calls[c].at = "current" =>
    /\ calls[c].sent <= calls[c].asked + calls[c].attempt * Wait
    /\ now <= calls[c].sent + Wait

(* The rate that priced an option stays in the cache while rates of the    *)
(* window are kept, and is of the window.                                  *)
PricesAreKept ==
  \A e \in Settlements :
    calls[e].at = "done" /\ calls[e].answer # None /\ now <= Expiry - Window + Kept =>
      calls[e].answer \in rates /\ Within(calls[e].answer, Expiry)

IInv == TypeOK /\ CallsInTime /\ WaitsAreShort /\ PricesAreKept /\ AcceptIsRecent

-----------------------------------------------------------------------------
(* A set of numbers has a least one.                                       *)
LEMMA Least ==
  ASSUME NEW T \in SUBSET Nat, T # {}
  PROVE  \E x \in T : \A y \in T : x <= y
  <1> DEFINE R == {p \in Nat \X Nat : p[1] < p[2]}
  <1>1. IsWellFoundedOn(OpToRel(<, Nat), Nat)
    BY NatLessThanWellFounded
  <1>2. OpToRel(<, Nat) = {p \in Nat \X Nat : p[1] < p[2]}
    BY DEF OpToRel
  <1>3. IsWellFoundedOn(R, Nat)
    BY <1>1, <1>2, Zenon
  <1>4. \E x \in T : \A y \in T : ~ (<<y, x>> \in R)
    <2> HIDE DEF R
    <2>1. QED
      BY <1>3, WFMin, Zenon
  <1>5. PICK x \in T : \A y \in T : ~ (y < x)
    BY <1>4
  <1>6. \A y \in T : x \in Nat /\ y \in Nat
    OBVIOUS
  <1>7. QED
    BY <1>5, <1>6

(* The latest of some moments is one of them, and none is later.           *)
LEMMA Greatest ==
  ASSUME NEW n \in Nat, NEW S \in SUBSET (0 .. n), S # {}
  PROVE  Max(S) \in S /\ \A y \in S : y <= Max(S)
  <1> DEFINE T == {n - y : y \in S}
  <1>1. T \in SUBSET Nat /\ T # {}
    <2>1. \A y \in S : n - y \in Nat
      OBVIOUS
    <2>2. QED
      BY <2>1
  <1>2. PICK x \in T : \A y \in T : x <= y
    <2> HIDE DEF T
    <2>1. QED
      BY <1>1, Least
  <1>3. PICK z \in S : x = n - z
    BY <1>2
  <1>4. \A y \in S : n - z <= n - y
    BY <1>2, <1>3
  <1>5. \A y \in S : z >= y
    BY <1>4
  <1>6. Max(S) \in S /\ \A y \in S : Max(S) >= y
    BY <1>5 DEF Max
  <1>7. QED
    BY <1>6

(* Distances are numbers.                                                  *)
LEMMA Distances ==
  ASSUME NEW r \in Nat, NEW t \in Nat
  PROVE  Dist(r, t) \in Nat /\ Dist(t, t) = 0
  BY DEF Dist

(* The nearest rate is one of the window, and no other is nearer; there is *)
(* none exactly if the window is empty.                                    *)
LEMMA NearestRate ==
  ASSUME NEW S \in SUBSET Nat, NEW t \in Nat, NEW q \in S, Within(q, t)
  PROVE  /\ Nearest(S, t) \in S /\ Within(Nearest(S, t), t)
         /\ Dist(Nearest(S, t), t) <= Dist(q, t)
  <1> DEFINE near == {r \in S : Within(r, t)}
             D == {Dist(r, t) : r \in near}
             Good(r) == \A p \in near :
                          Dist(r, t) < Dist(p, t) \/ (Dist(r, t) = Dist(p, t) /\ r <= p)
  <1>1. q \in near /\ near \in SUBSET Nat /\ \A r \in near : Dist(r, t) \in Nat
    BY Distances
  <1>2. D \in SUBSET Nat /\ D # {}
    <2> HIDE DEF near
    <2>1. QED
      BY <1>1
  <1>3. PICK d \in D : \A e \in D : d <= e
    <2> HIDE DEF D
    <2>1. QED
      BY <1>2, Least
  <1> DEFINE E == {r \in near : Dist(r, t) = d}
  <1>4. E \in SUBSET Nat /\ E # {}
    <2> HIDE DEF near
    <2>1. QED
      BY <1>1, <1>3
  <1>5. PICK x \in E : \A y \in E : x <= y
    <2> HIDE DEF E
    <2>1. QED
      BY <1>4, Least
  <1>6. x \in near /\ Good(x)
    <2> HIDE DEF near
    <2>1. x \in near /\ Dist(x, t) = d
      BY <1>5
    <2>2. ASSUME NEW p \in near
          PROVE  Dist(x, t) < Dist(p, t) \/ (Dist(x, t) = Dist(p, t) /\ x <= p)
      <3>1. d <= Dist(p, t) /\ Dist(p, t) \in Nat /\ d \in Nat
        BY <1>1, <1>2, <1>3
      <3>2. Dist(p, t) = d => x <= p
        BY <1>5
      <3>3. QED
        BY <2>1, <3>1, <3>2
    <2>3. QED
      BY <2>1, <2>2
  <1>7. near # {}
    BY <1>1
  <1>8. Nearest(S, t) = CHOOSE r \in near : Good(r)
    BY <1>7 DEF Nearest
  <1>9. Nearest(S, t) \in near /\ Good(Nearest(S, t))
    <2> DEFINE m == Nearest(S, t)
    <2> HIDE DEF near, Good, m
    <2>1. QED
      BY <1>6, <1>8, Zenon DEF m
  <1>10. Dist(Nearest(S, t), t) <= Dist(q, t)
    <2> DEFINE m == Nearest(S, t)
    <2>1. m \in near /\ Good(m)
      BY <1>9
    <2> HIDE DEF near, m
    <2>2. Dist(m, t) < Dist(q, t) \/ Dist(m, t) = Dist(q, t)
      BY <1>1, <2>1
    <2>3. Dist(m, t) \in Nat /\ Dist(q, t) \in Nat
      BY <1>1, <2>1
    <2>4. QED
      BY <2>2, <2>3 DEF m
  <1>11. QED
    BY <1>9, <1>10

(* Without a rate of the window there is no nearest.                       *)
LEMMA NearestOfNone ==
  ASSUME NEW S, NEW t, \A r \in S : ~ Within(r, t)
  PROVE  Nearest(S, t) = None
  BY DEF Nearest

(* The latest rate is given if it is of the window, and none is newer.     *)
LEMMA LatestRate ==
  ASSUME NEW n \in Nat, NEW S \in SUBSET (0 .. n), NEW t, Latest(S, t) # None
  PROVE  /\ Latest(S, t) \in S /\ Within(Latest(S, t), t)
         /\ \A r \in S : r <= Latest(S, t)
  <1>1. S # {} /\ Latest(S, t) = Max(S) /\ Within(Max(S), t)
    BY DEF Latest
  <1>2. QED
    BY <1>1, Greatest

-----------------------------------------------------------------------------
(* The steps.                                                              *)

(* What a call's answer leaves of its record.                              *)
LEMMA DoneFields ==
  ASSUME TypeOK, NEW c \in Calls, NEW r, Done(c, r)
  PROVE  /\ \A d \in Calls : d # c => calls'[d] = calls[d]
         /\ c \in Snapshots => calls'[c] = Idle
         /\ c \notin Snapshots =>
              /\ calls'[c].at = "done" /\ calls'[c].asked = calls[c].asked
              /\ calls'[c].answer = r /\ calls'[c].answered = now
              /\ calls'[c] = [at |-> "done", asked |-> calls[c].asked, sent |-> 0,
                              attempt |-> 0, answer |-> r, answered |-> now]
  BY DEF Done, TypeOK, Idle

(* The moments of a typed state.                                           *)
LEMMA Moments ==
  ASSUME TypeOK
  PROVE  /\ now \in Nat /\ rates \in SUBSET (0 .. now) /\ rates \in SUBSET Nat
         /\ \A c \in Calls :
              /\ calls[c].asked \in Nat /\ calls[c].sent \in Nat
              /\ calls[c].attempt \in Nat /\ calls[c].answered \in Nat
              /\ calls[c].answer # None => calls[c].answer \in Nat
  <1>1. Horizon \in Nat /\ MaxAttempts \in Nat
    BY OracleAssumption
  <1>2. QED
    BY <1>1 DEF TypeOK, Times

(* Initially nothing is asked.                                             *)
LEMMA InitHolds == Init => IInv
  <1>1. SUFFICES ASSUME Init PROVE IInv
    OBVIOUS
  <1>2. \A c \in Calls : calls[c] = Idle
    BY <1>1 DEF Init
  <1>3. Idle.at = "idle" /\ Idle.answer = None
    BY DEF Idle
  <1>4. TypeOK
    BY <1>1, OracleAssumption DEF Init, TypeOK, Idle, Times
  <1>5. Settlements \subseteq Calls /\ Accepts \subseteq Calls
    BY DEF Calls
  <1>6. QED
    BY <1>2, <1>3, <1>4, <1>5
       DEF IInv, CallsInTime, WaitsAreShort, PricesAreKept, AcceptIsRecent

(* A call that starts.                                                     *)
LEMMA AskKeeps ==
  ASSUME IInv, NEW c \in Calls, Ask(c)
  PROVE  IInv'
  <1>1. /\ calls[c].at = "idle" /\ now' = now /\ rates' = rates
        /\ c \in Settlements => now >= Expiry
        /\ \A d \in Calls : d # c => calls'[d] = calls[d]
        /\ calls'[c] = [calls[c] EXCEPT !.at = IF c \in Settlements THEN "historical"
                                               ELSE "current",
                                        !.asked = now, !.sent = now]
    BY DEF Ask, IInv, TypeOK
  <1>2. TypeOK'
    <2>1. now \in Times /\ calls[c] \in
            [at : {"idle", "historical", "current", "done"},
             asked : Times, sent : Times, attempt : 0 .. MaxAttempts - 1,
             answer : Times \union {None}, answered : Times]
      BY DEF IInv, TypeOK
    <2>2. calls'[c] \in
            [at : {"idle", "historical", "current", "done"},
             asked : Times, sent : Times, attempt : 0 .. MaxAttempts - 1,
             answer : Times \union {None}, answered : Times]
      <3> HIDE DEF Times
      <3>1. QED
        BY <1>1, <2>1
    <2>3. calls' \in [Calls -> [at : {"idle", "historical", "current", "done"},
                      asked : Times, sent : Times, attempt : 0 .. MaxAttempts - 1,
                      answer : Times \union {None}, answered : Times]]
      <3> DEFINE Record == [at : {"idle", "historical", "current", "done"},
                      asked : Times, sent : Times, attempt : 0 .. MaxAttempts - 1,
                      answer : Times \union {None}, answered : Times]
      <3>1. calls' = [calls EXCEPT ![c] = calls'[c]] /\ calls \in [Calls -> Record]
        BY DEF Ask, IInv, TypeOK
      <3>2. calls'[c] \in Record
        BY <2>2
      <3> HIDE DEF Record
      <3>3. calls' \in [Calls -> Record]
        BY <3>1, <3>2
      <3>4. QED
        BY <3>3 DEF Record
    <2>4. QED
      BY <1>1, <2>3 DEF IInv, TypeOK
  <1>3. /\ calls'[c].at = IF c \in Settlements THEN "historical" ELSE "current"
        /\ calls'[c].asked = now /\ calls'[c].sent = now
        /\ calls'[c].attempt = calls[c].attempt
        /\ calls'[c].answer = calls[c].answer /\ calls'[c].answered = calls[c].answered
    BY <1>1 DEF IInv, TypeOK
  <1>4. now \in Nat /\ Expiry \in Nat /\ Wait \in Nat /\ calls[c].attempt \in Nat
    BY Moments, OracleAssumption DEF IInv
  <1>5. CallsInTime'
    <2>1. SUFFICES ASSUME NEW d \in Calls
                   PROVE  /\ calls'[d].at = "historical" => d \in Settlements
                          /\ d \in Settlements /\ calls'[d].at # "idle" => Expiry <= now
                          /\ calls'[d].at \in {"historical", "current"} =>
                               calls'[d].asked <= calls'[d].sent /\ calls'[d].sent <= now
      BY <1>1 DEF CallsInTime
    <2>2. CASE d = c
      <3>1. calls'[d].at = IF d \in Settlements THEN "historical" ELSE "current"
        BY <1>3, <2>2
      <3>2. calls'[d].asked = now /\ calls'[d].sent = now /\ now <= now
        BY <1>3, <1>4, <2>2
      <3>3. d \in Settlements => Expiry <= now
        BY <1>1, <1>4, <2>2
      <3>4. QED
        BY <3>1, <3>2, <3>3
    <2>3. CASE d # c
      BY <1>1, <2>3 DEF IInv, CallsInTime
    <2>4. QED
      BY <2>2, <2>3
  <1>6. Settlements \subseteq Calls /\ Accepts \subseteq Calls
    BY DEF Calls
  <1>7. WaitsAreShort'
    <2>1. \A d \in Accepts : d # c => calls'[d] = calls[d]
      BY <1>1, <1>6
    <2>2. now <= now + calls[c].attempt * Wait /\ now <= now + Wait
      <3>1. calls[c].attempt * Wait \in Nat
        BY <1>4
      <3>2. QED
        BY <1>4, <3>1
    <2>3. QED
      BY <1>1, <1>3, <2>1, <2>2 DEF IInv, WaitsAreShort
  <1>8. PricesAreKept'
    BY <1>1, <1>3, <1>6 DEF IInv, PricesAreKept
  <1>9. AcceptIsRecent'
    BY <1>1, <1>3, <1>6 DEF IInv, AcceptIsRecent
  <1>10. QED
    BY <1>2, <1>5, <1>7, <1>8, <1>9 DEF IInv

(* A call that gets its answer: what has to be known of the answer and of  *)
(* the cache.                                                              *)
LEMMA DoneKeeps ==
  ASSUME IInv, NEW c \in Calls, NEW r, Done(c, r), now' = now,
         calls[c].at \in {"historical", "current"},
         rates' \in SUBSET (0 .. now), rates \subseteq rates',
         r # None => r \in Times,
         c \in Settlements /\ r # None => r \in rates' /\ Within(r, Expiry),
         c \in Accepts /\ r # None => now - r <= Window + MaxAttempts * Wait
  PROVE  IInv'
  <1>1. /\ \A d \in Calls : d # c => calls'[d] = calls[d]
        /\ c \in Snapshots => calls'[c] = Idle
        /\ c \notin Snapshots =>
             /\ calls'[c].at = "done" /\ calls'[c].asked = calls[c].asked
             /\ calls'[c].answer = r /\ calls'[c].answered = now
             /\ calls'[c] = [at |-> "done", asked |-> calls[c].asked, sent |-> 0,
                             attempt |-> 0, answer |-> r, answered |-> now]
    BY DoneFields DEF IInv
  <1>2. Idle.at = "idle" /\ Idle.answer = None
    BY DEF Idle
  <1>3. /\ Settlements \subseteq Calls /\ Accepts \subseteq Calls
        /\ Snapshots \cap (Accepts \union Settlements) = {}
    BY OracleAssumption DEF Calls
  <1>4. TypeOK'
    <2>1. Idle \in [at : {"idle", "historical", "current", "done"},
                    asked : Times, sent : Times, attempt : 0 .. MaxAttempts - 1,
                    answer : Times \union {None}, answered : Times]
      BY OracleAssumption DEF Idle, Times
    <2>2. now \in Times /\ 0 \in Times /\ 0 \in 0 .. MaxAttempts - 1
          /\ calls[c].asked \in Times
      BY OracleAssumption DEF IInv, TypeOK, Times
    <2>3. calls'[c] \in [at : {"idle", "historical", "current", "done"},
                    asked : Times, sent : Times, attempt : 0 .. MaxAttempts - 1,
                    answer : Times \union {None}, answered : Times]
      <3>1. CASE c \in Snapshots
        BY <1>1, <2>1, <3>1
      <3>2. CASE c \notin Snapshots
        <4>1. r \in Times \union {None}
          OBVIOUS
        <4>2. QED
          BY <1>1, <2>2, <3>2, <4>1
      <3>3. QED
        BY <3>1, <3>2
    <2>4. calls' = [calls EXCEPT ![c] = calls'[c]]
      BY DEF Done, IInv, TypeOK
    <2>5. QED
      BY <2>3, <2>4 DEF IInv, TypeOK
  <1>5. now \in Nat /\ Expiry \in Nat
    BY Moments, OracleAssumption DEF IInv
  <1>6. CallsInTime'
    BY <1>1, <1>2, <1>3 DEF IInv, CallsInTime
  <1>7. WaitsAreShort'
    BY <1>1, <1>2, <1>3 DEF IInv, WaitsAreShort
  <1>8. PricesAreKept'
    <2>1. SUFFICES ASSUME NEW e \in Settlements, calls'[e].at = "done",
                          calls'[e].answer # None, now <= Expiry - Window + Kept
                   PROVE  calls'[e].answer \in rates' /\ Within(calls'[e].answer, Expiry)
      BY DEF PricesAreKept
    <2>2. CASE e = c
      BY <1>1, <1>3, <2>1, <2>2
    <2>3. CASE e # c
      BY <1>1, <1>3, <2>1, <2>3 DEF IInv, PricesAreKept
    <2>4. QED
      BY <2>2, <2>3
  <1>9. AcceptIsRecent'
    <2>1. SUFFICES ASSUME NEW d \in Accepts, calls'[d].answer # None
                   PROVE  calls'[d].answered - calls'[d].answer
                            <= Window + MaxAttempts * Wait
      BY DEF AcceptIsRecent
    <2>2. CASE d = c
      BY <1>1, <1>3, <2>1, <2>2
    <2>3. CASE d # c
      BY <1>1, <1>3, <2>1, <2>3 DEF IInv, AcceptIsRecent
    <2>4. QED
      BY <2>2, <2>3
  <1>10. QED
    BY <1>4, <1>6, <1>7, <1>8, <1>9 DEF IInv
(* A call that is sent, or sent again.                                     *)
LEMMA SentKeeps ==
  ASSUME IInv, NEW c \in Calls, NEW n \in 0 .. MaxAttempts - 1,
         calls' = [calls EXCEPT ![c] = [calls[c] EXCEPT !.at = "current", !.attempt = n,
                                                        !.sent = now]],
         calls[c].at \in {"historical", "current"},
         c \in Accepts => calls[c].at = "current" /\ n = calls[c].attempt + 1,
         now' = now, rates' = rates
  PROVE  IInv'
  <1>1. /\ \A d \in Calls : d # c => calls'[d] = calls[d]
        /\ calls'[c] = [calls[c] EXCEPT !.at = "current", !.attempt = n, !.sent = now]
    BY DEF IInv, TypeOK
  <1>2. /\ calls'[c].at = "current" /\ calls'[c].sent = now /\ calls'[c].attempt = n
        /\ calls'[c].asked = calls[c].asked /\ calls'[c].answer = calls[c].answer
        /\ calls'[c].answered = calls[c].answered
    BY <1>1 DEF IInv, TypeOK
  <1>3. TypeOK'
    BY DEF IInv, TypeOK
  <1>4. /\ now \in Nat /\ Expiry \in Nat /\ Wait \in Nat /\ calls[c].attempt \in Nat
        /\ calls[c].asked \in Nat /\ calls[c].sent \in Nat
    BY Moments, OracleAssumption DEF IInv
  <1>5. /\ calls[c].asked <= calls[c].sent /\ calls[c].sent <= now
        /\ c \in Settlements => Expiry <= now
    BY DEF IInv, CallsInTime
  <1>6. CallsInTime'
    <2>1. SUFFICES ASSUME NEW d \in Calls
                   PROVE  /\ calls'[d].at = "historical" => d \in Settlements
                          /\ d \in Settlements /\ calls'[d].at # "idle" => Expiry <= now
                          /\ calls'[d].at \in {"historical", "current"} =>
                               calls'[d].asked <= calls'[d].sent /\ calls'[d].sent <= now
      BY DEF CallsInTime
    <2>2. CASE d = c
      <3>1. calls'[d].at = "current" /\ calls'[d].sent = now
            /\ calls'[d].asked = calls[c].asked
        BY <1>2, <2>2
      <3>2. calls[c].asked <= now /\ now <= now
        BY <1>4, <1>5
      <3>3. QED
        BY <1>5, <2>2, <3>1, <3>2
    <2>3. CASE d # c
      BY <1>1, <2>3 DEF IInv, CallsInTime
    <2>4. QED
      BY <2>2, <2>3
  <1>7. Settlements \subseteq Calls /\ Accepts \subseteq Calls
    BY DEF Calls
  <1>8. WaitsAreShort'
    <2>1. SUFFICES ASSUME NEW d \in Accepts, calls'[d].at = "current"
                   PROVE  /\ calls'[d].sent <= calls'[d].asked + calls'[d].attempt * Wait
                          /\ now <= calls'[d].sent + Wait
      BY DEF WaitsAreShort
    <2>2. CASE d = c
      <3> DEFINE k == calls[c].attempt
                 w == calls[c].attempt * Wait
                 v == n * Wait
      <3>1. /\ calls[c].sent <= calls[c].asked + w
            /\ now <= calls[c].sent + Wait
        BY <2>1, <2>2 DEF IInv, WaitsAreShort
      <3>2. w \in Nat /\ v = w + Wait
        <4>1. n = k + 1 /\ k \in Nat
          BY <1>4, <2>1, <2>2
        <4> HIDE DEF k
        <4>2. (k + 1) * Wait = k * Wait + Wait /\ k * Wait \in Nat
          BY <1>4, <4>1
        <4>3. QED
          BY <4>1, <4>2 DEF k
      <3> HIDE DEF k, w, v
      <3>3. now <= calls[c].asked + v /\ now <= now + Wait
        BY <1>4, <3>1, <3>2
      <3>4. QED
        BY <1>2, <2>2, <3>3 DEF v
    <2>3. CASE d # c
      BY <1>1, <1>7, <2>1, <2>3 DEF IInv, WaitsAreShort
    <2>4. QED
      BY <2>2, <2>3
  <1>9. PricesAreKept'
    BY <1>1, <1>2, <1>7 DEF IInv, PricesAreKept
  <1>10. AcceptIsRecent'
    BY <1>1, <1>2, <1>7 DEF IInv, AcceptIsRecent
  <1>11. QED
    BY <1>3, <1>6, <1>8, <1>9, <1>10 DEF IInv

(* The rate at expiry is stored and is the answer, or is not to be had.    *)
LEMMA HistoricalKeeps ==
  ASSUME IInv, NEW c \in Calls, Historical(c)
  PROVE  IInv'
  <1>1. c \in Settlements /\ Expiry <= now /\ now' = now /\ now \in Nat /\ Expiry \in Nat
        /\ calls[c].at = "historical" /\ rates \in SUBSET (0 .. now)
    BY Moments, OracleAssumption DEF IInv, Historical, CallsInTime
  <1>2. c \notin Accepts
    BY <1>1, OracleAssumption
  <1>3. CASE rates' = rates \union {Expiry} /\ Done(c, Expiry)
    <2>1. Expiry \in Times
      BY <1>1, OracleAssumption DEF IInv, TypeOK, Times
    <2>2. Within(Expiry, Expiry)
      BY <1>1, OracleAssumption, Distances DEF Within
    <2>3. rates' \in SUBSET (0 .. now) /\ Expiry \in rates' /\ rates \subseteq rates'
      <3>1. Expiry \in 0 .. now /\ rates' = rates \union {Expiry}
        BY <1>1, <1>3
      <3>2. QED
        BY <1>1, <3>1, Zenon
    <2>4. QED
      BY <1>1, <1>2, <1>3, <2>1, <2>2, <2>3, DoneKeeps
  <1>4. CASE /\ calls' = [calls EXCEPT ![c].at = "current", ![c].sent = now]
             /\ rates' = rates
    <2> DEFINE n == calls[c].attempt
    <2>1. n \in 0 .. MaxAttempts - 1
      BY DEF IInv, TypeOK
    <2>2. calls' = [calls EXCEPT ![c] = [calls[c] EXCEPT !.at = "current", !.attempt = n,
                                                         !.sent = now]]
      BY <1>4 DEF IInv, TypeOK
    <2> HIDE DEF n
    <2>3. QED
      BY <1>1, <1>2, <1>4, <2>1, <2>2, SentKeeps
  <1>5. QED
    BY <1>3, <1>4 DEF Historical

(* An attempt fails and the next is made.                                  *)
LEMMA RetryKeeps ==
  ASSUME IInv, NEW c \in Calls, Retry(c)
  PROVE  IInv'
  <1> DEFINE n == calls[c].attempt + 1
  <1>1. calls[c].at = "current" /\ now' = now /\ rates' = rates
        /\ calls[c].attempt \in Nat /\ MaxAttempts \in Nat \ {0}
        /\ n < Attempts(c)
    BY Moments, OracleAssumption DEF IInv, Retry
  <1>2. n \in 0 .. MaxAttempts - 1
    BY <1>1 DEF Attempts
  <1>3. calls' = [calls EXCEPT ![c] = [calls[c] EXCEPT !.at = "current", !.attempt = n,
                                                       !.sent = now]]
    BY <1>1 DEF Retry, IInv, TypeOK
  <1>4. n = calls[c].attempt + 1
    OBVIOUS
  <1> HIDE DEF n
  <1>5. QED
    BY <1>1, <1>2, <1>3, <1>4, SentKeeps
(* What an answered request of the current rate stores and gives: a rate   *)
(* of a moment since it was sent; to an accept that rate, to a settlement  *)
(* the nearest to the expiry of it and the cache.                          *)
LEMMA NewRate ==
  ASSUME IInv, NEW c \in Calls, CurrentAnswered(c)
  PROVE  \E r \in 0 .. now : \E a \in 0 .. now :
           /\ rates' = rates \union {r} /\ Done(c, a) /\ a \in rates'
           /\ calls[c].sent <= r
           /\ c \notin Settlements => a = r
           /\ c \in Settlements =>
                /\ Within(a, Expiry)
                /\ \A q \in rates' : Within(q, Expiry) => Dist(a, Expiry) <= Dist(q, Expiry)
  <1>1. PICK r \in calls[c].sent .. now :
          /\ Within(r, Target(c)) /\ rates' = rates \union {r}
          /\ Done(c, IF c \in Settlements THEN Nearest(rates', Expiry) ELSE r)
    BY DEF CurrentAnswered
  <1>2. now \in Nat /\ calls[c].sent \in Nat /\ Expiry \in Nat
        /\ rates \in SUBSET (0 .. now)
    BY Moments, OracleAssumption DEF IInv
  <1>3. r \in 0 .. now /\ calls[c].sent <= r
    BY <1>2
  <1>4. rates' \in SUBSET (0 .. now) /\ r \in rates'
    BY <1>1, <1>2, <1>3, Zenon
  <1>5. rates' \in SUBSET Nat
    BY <1>2, <1>4
  <1>6. CASE c \in Settlements
    <2> DEFINE a == Nearest(rates', Expiry)
    <2>1. Within(r, Expiry)
      BY <1>1, <1>6 DEF Target
    <2>2. a \in rates' /\ Within(a, Expiry)
      BY <1>2, <1>4, <1>5, <2>1, NearestRate
    <2>3. \A q \in rates' : Within(q, Expiry) => Dist(a, Expiry) <= Dist(q, Expiry)
      BY <1>2, <1>5, NearestRate
    <2>4. Done(c, a)
      BY <1>1, <1>6
    <2>5. a \in 0 .. now
      BY <1>4, <2>2
    <2> HIDE DEF a
    <2>6. QED
      BY <1>1, <1>3, <1>6, <2>2, <2>3, <2>4, <2>5, Zenon
  <1>7. CASE c \notin Settlements
    <2>1. Done(c, r)
      BY <1>1, <1>7
    <2>2. QED
      BY <1>1, <1>3, <1>4, <1>7, <2>1, Zenon
  <1>8. QED
    BY <1>6, <1>7

(* What the cache gives when the last attempt has failed: to an accept its *)
(* newest rate, if of the window, to a settlement the nearest, if any.     *)
LEMMA OldRate ==
  ASSUME IInv, NEW c \in Calls, FallBack(c)
  PROVE  \E a \in (0 .. now) \union {None} :
           /\ rates' = rates /\ Done(c, a)
           /\ a # None /\ c \in Accepts \union Settlements => a \in rates
           /\ a # None /\ c \in Accepts =>
                Within(a, calls[c].asked) /\ \A q \in rates : q <= a
           /\ a # None /\ c \in Settlements => Within(a, Expiry)
           /\ c \in Settlements =>
                \A q \in rates : Within(q, Expiry) =>
                  a # None /\ Dist(a, Expiry) <= Dist(q, Expiry)
  <1>1. now \in Nat /\ Expiry \in Nat /\ rates \in SUBSET (0 .. now)
        /\ rates \in SUBSET Nat /\ None \notin Nat
    BY Moments, OracleAssumption DEF IInv
  <1>2. rates' = rates
    BY DEF FallBack
  <1>3. CASE c \in Accepts
    <2> DEFINE a == Latest(rates, calls[c].asked)
    <2>1. Done(c, a) /\ c \notin Settlements
      BY <1>3, OracleAssumption DEF FallBack
    <2>2. a # None => a \in rates /\ Within(a, calls[c].asked) /\ \A q \in rates : q <= a
      BY <1>1, LatestRate
    <2>3. a \in (0 .. now) \union {None}
      BY <1>1, <2>2
    <2> HIDE DEF a
    <2>4. QED
      BY <1>2, <1>3, <2>1, <2>2, <2>3, Zenon
  <1>4. CASE c \in Settlements
    <2> DEFINE a == Nearest(rates, Expiry)
    <2>1. Done(c, a) /\ c \notin Accepts
      BY <1>4, OracleAssumption DEF FallBack
    <2>2. \A q \in rates : Within(q, Expiry) =>
            a \in rates /\ Within(a, Expiry) /\ Dist(a, Expiry) <= Dist(q, Expiry)
      BY <1>1, NearestRate
    <2>3. (\A q \in rates : ~ Within(q, Expiry)) => a = None
      BY NearestOfNone
    <2>4. a # None => a \in rates /\ Within(a, Expiry)
      <3> HIDE DEF a
      <3>1. QED
        BY <2>2, <2>3, Zenon
    <2>5. a \in (0 .. now) \union {None} /\ (a \in rates => a # None)
      BY <1>1, <2>4
    <2> HIDE DEF a
    <2>6. QED
      BY <1>2, <1>4, <2>1, <2>2, <2>4, <2>5, Zenon
  <1>5. CASE c \in Snapshots /\ c \notin Accepts \union Settlements
    <2>1. Done(c, None)
      BY <1>5 DEF FallBack
    <2>2. QED
      BY <1>2, <1>5, <2>1, Zenon
  <1>6. QED
    BY <1>3, <1>4, <1>5 DEF Calls

(* The bound on all the waits of an accept.                                *)
LEMMA AllWaits ==
  ASSUME IInv, NEW c \in Accepts, calls[c].at = "current"
  PROVE  /\ now <= calls[c].asked + MaxAttempts * Wait
         /\ now <= calls[c].sent + MaxAttempts * Wait
         /\ MaxAttempts * Wait \in Nat /\ Window \in Nat /\ now \in Nat
         /\ calls[c].asked \in Nat /\ calls[c].sent \in Nat
         /\ calls[c].asked <= calls[c].sent
  <1> DEFINE k == calls[c].attempt
             s == calls[c].sent
             q == calls[c].asked
  <1>1. c \in Calls
    BY DEF Calls
  <1>2. k \in 0 .. MaxAttempts - 1
    BY <1>1 DEF IInv, TypeOK
  <1>3. /\ s \in Nat /\ q \in Nat /\ now \in Nat /\ Wait \in Nat /\ Window \in Nat
        /\ MaxAttempts \in Nat \ {0}
    BY <1>1, Moments, OracleAssumption DEF IInv
  <1>4. s <= q + k * Wait /\ now <= s + Wait /\ q <= s
    BY <1>1 DEF IInv, WaitsAreShort, CallsInTime
  <1> HIDE DEF k, s, q
  <1>5. k \in Nat /\ MaxAttempts - (k + 1) \in Nat
    BY <1>2, <1>3
  <1> DEFINE rest == MaxAttempts - (k + 1)
  <1>6. MaxAttempts = (k + 1) + rest
    BY <1>3, <1>5
  <1>7. rest \in Nat
    BY <1>5
  <1> HIDE DEF rest
  <1>8. /\ MaxAttempts * Wait = (k * Wait + Wait) + rest * Wait
        /\ k * Wait \in Nat /\ rest * Wait \in Nat
    BY <1>3, <1>5, <1>6, <1>7
  <1> DEFINE x == k * Wait
             y == rest * Wait
             z == MaxAttempts * Wait
  <1>9. z = (x + Wait) + y /\ x \in Nat /\ y \in Nat /\ s <= q + x
    BY <1>4, <1>8
  <1> HIDE DEF x, y, z
  <1>10. now <= q + z /\ now <= s + z /\ z \in Nat
    BY <1>3, <1>4, <1>9
  <1>11. QED
    BY <1>3, <1>4, <1>10 DEF z, s, q

(* A current rate is answered.                                             *)
LEMMA CurrentKeeps ==
  ASSUME IInv, NEW c \in Calls, CurrentAnswered(c)
  PROVE  IInv'
  <1>1. PICK r \in 0 .. now, a \in 0 .. now :
           /\ rates' = rates \union {r} /\ Done(c, a) /\ a \in rates'
           /\ calls[c].sent <= r
           /\ c \notin Settlements => a = r
           /\ c \in Settlements => Within(a, Expiry)
    BY NewRate
  <1>2. calls[c].at = "current" /\ now' = now
    BY DEF CurrentAnswered
  <1>3. now \in Nat /\ rates \in SUBSET (0 .. now)
    BY Moments DEF IInv
  <1>4. rates' \in SUBSET (0 .. now) /\ rates \subseteq rates'
    BY <1>1, <1>3, Zenon
  <1>5. a \in Times
    BY <1>3, OracleAssumption DEF IInv, TypeOK, Times
  <1>6. c \in Accepts => now - a <= Window + MaxAttempts * Wait
    <2>1. SUFFICES ASSUME c \in Accepts PROVE now - a <= Window + MaxAttempts * Wait
      OBVIOUS
    <2> DEFINE z == MaxAttempts * Wait
               s == calls[c].sent
    <2>2. now <= s + z /\ z \in Nat /\ Window \in Nat /\ s \in Nat
      BY <1>2, <2>1, AllWaits
    <2>3. s <= a /\ a \in Nat
      BY <1>1, <1>3, <2>1, OracleAssumption
    <2> HIDE DEF z, s
    <2>4. now - a <= Window + z
      BY <1>3, <2>2, <2>3
    <2>5. QED
      BY <2>4 DEF z
  <1>7. QED
    BY <1>1, <1>2, <1>4, <1>5, <1>6, DoneKeeps

(* The last attempt has failed.                                            *)
LEMMA FallBackKeeps ==
  ASSUME IInv, NEW c \in Calls, FallBack(c)
  PROVE  IInv'
  <1>1. PICK a \in (0 .. now) \union {None} :
           /\ rates' = rates /\ Done(c, a)
           /\ a # None /\ c \in Accepts \union Settlements => a \in rates
           /\ a # None /\ c \in Accepts => Within(a, calls[c].asked)
           /\ a # None /\ c \in Settlements => Within(a, Expiry)
    BY OldRate
  <1>2. calls[c].at = "current" /\ now' = now
    BY DEF FallBack
  <1>3. now \in Nat /\ rates \in SUBSET (0 .. now)
    BY Moments DEF IInv
  <1>4. a # None => a \in Times
    BY <1>3, OracleAssumption DEF IInv, TypeOK, Times
  <1>5. c \in Accepts /\ a # None => now - a <= Window + MaxAttempts * Wait
    <2>1. SUFFICES ASSUME c \in Accepts, a # None
                   PROVE  now - a <= Window + MaxAttempts * Wait
      OBVIOUS
    <2> DEFINE z == MaxAttempts * Wait
               q == calls[c].asked
    <2>2. now <= q + z /\ z \in Nat /\ Window \in Nat /\ q \in Nat
      BY <1>2, <2>1, AllWaits
    <2>3. Within(a, q) /\ a \in Nat
      BY <1>1, <1>3, <2>1
    <2> HIDE DEF z, q
    <2>4. q <= a + Window
      BY <2>2, <2>3 DEF Within, Dist
    <2>5. now - a <= Window + z
      BY <1>3, <2>2, <2>3, <2>4
    <2>6. QED
      BY <2>5 DEF z
  <1>6. rates' \in SUBSET (0 .. now) /\ rates \subseteq rates'
    BY <1>1, <1>3
  <1>7. c \in Settlements /\ a # None => a \in rates' /\ Within(a, Expiry)
    BY <1>1
  <1>8. QED
    BY <1>1, <1>2, <1>4, <1>5, <1>6, <1>7, DoneKeeps

(* The daily cleanup leaves the rates that priced an option of this week.  *)
LEMMA CleanupKeeps ==
  ASSUME IInv, Cleanup
  PROVE  IInv'
  <1>1. rates' = {r \in rates : r >= now - Kept} /\ now' = now /\ calls' = calls
    BY DEF Cleanup
  <1>2. TypeOK' /\ CallsInTime' /\ WaitsAreShort' /\ AcceptIsRecent'
    BY <1>1 DEF IInv, TypeOK, CallsInTime, WaitsAreShort, AcceptIsRecent
  <1>3. PricesAreKept'
    <2>1. SUFFICES ASSUME NEW e \in Settlements, calls[e].at = "done",
                          calls[e].answer # None, now <= Expiry - Window + Kept
                   PROVE  calls[e].answer \in rates' /\ Within(calls[e].answer, Expiry)
      BY <1>1 DEF PricesAreKept
    <2> DEFINE a == calls[e].answer
    <2>2. a \in rates /\ Within(a, Expiry)
      BY <2>1 DEF IInv, PricesAreKept
    <2>3. /\ a \in Nat /\ now \in Nat /\ Expiry \in Nat /\ Window \in Nat /\ Kept \in Nat
      BY <2>2, Moments, OracleAssumption DEF IInv
    <2> HIDE DEF a
    <2>4. a >= Expiry - Window
      BY <2>2, <2>3 DEF Within, Dist
    <2>5. a >= now - Kept
      BY <2>1, <2>3, <2>4
    <2>6. QED
      BY <1>1, <2>2, <2>5 DEF a
  <1>4. QED
    BY <1>2, <1>3 DEF IInv

(* Time passes, and no wait becomes too long.                              *)
LEMMA TickKeeps ==
  ASSUME IInv, Tick
  PROVE  IInv'
  <1>1. /\ now' = now + 1 /\ now < Horizon /\ rates' = rates /\ calls' = calls
        /\ \A c \in Waiting : now - calls[c].sent < Wait
    BY DEF Tick
  <1>2. /\ now \in Nat /\ Horizon \in Nat /\ Expiry \in Nat /\ Window \in Nat
        /\ Kept \in Nat /\ Wait \in Nat
        /\ \A c \in Calls : calls[c].asked \in Nat /\ calls[c].sent \in Nat
    BY Moments, OracleAssumption DEF IInv
  <1>3. TypeOK'
    <2>1. now' \in Times /\ 0 .. now \subseteq 0 .. now'
      BY <1>1, <1>2 DEF Times
    <2>2. QED
      BY <1>1, <2>1 DEF IInv, TypeOK
  <1>4. CallsInTime'
    <2>1. SUFFICES ASSUME NEW c \in Calls
                   PROVE  /\ calls[c].at = "historical" => c \in Settlements
                          /\ c \in Settlements /\ calls[c].at # "idle" => Expiry <= now + 1
                          /\ calls[c].at \in {"historical", "current"} =>
                               calls[c].asked <= calls[c].sent /\ calls[c].sent <= now + 1
      BY <1>1 DEF CallsInTime
    <2>2. /\ calls[c].at = "historical" => c \in Settlements
          /\ c \in Settlements /\ calls[c].at # "idle" => Expiry <= now
          /\ calls[c].at \in {"historical", "current"} =>
               calls[c].asked <= calls[c].sent /\ calls[c].sent <= now
      BY DEF IInv, CallsInTime
    <2>3. QED
      BY <1>2, <2>2
  <1>5. WaitsAreShort'
    <2>1. SUFFICES ASSUME NEW c \in Accepts, calls[c].at = "current"
                   PROVE  /\ calls[c].sent <= calls[c].asked + calls[c].attempt * Wait
                          /\ now + 1 <= calls[c].sent + Wait
      BY <1>1 DEF WaitsAreShort
    <2>2. c \in Calls
      BY DEF Calls
    <2>3. now - calls[c].sent < Wait
      BY <1>1, <2>1, <2>2 DEF Waiting
    <2>4. now + 1 <= calls[c].sent + Wait
      BY <1>2, <2>2, <2>3
    <2>5. calls[c].sent <= calls[c].asked + calls[c].attempt * Wait
      BY <2>1 DEF IInv, WaitsAreShort
    <2>6. QED
      BY <2>4, <2>5
  <1>6. PricesAreKept'
    <2>1. now' <= Expiry - Window + Kept => now <= Expiry - Window + Kept
      BY <1>1, <1>2
    <2>2. QED
      BY <1>1, <2>1 DEF IInv, PricesAreKept
  <1>7. AcceptIsRecent'
    BY <1>1 DEF IInv, AcceptIsRecent
  <1>8. QED
    BY <1>3, <1>4, <1>5, <1>6, <1>7 DEF IInv

(* Nothing happens.                                                        *)
LEMMA StutterKeeps ==
  ASSUME IInv, UNCHANGED vars
  PROVE  IInv'
  BY DEF IInv, TypeOK, CallsInTime, WaitsAreShort, PricesAreKept, AcceptIsRecent, vars
-----------------------------------------------------------------------------
(* The theorems.                                                           *)

(* Every step keeps the invariant.                                         *)
LEMMA StepKeeps == IInv /\ [Next]_vars => IInv'
  <1>1. SUFFICES ASSUME IInv, [Next]_vars PROVE IInv'
    OBVIOUS
  <1>2. ASSUME NEW c \in Calls, Ask(c) \/ Reply(c)
        PROVE  IInv'
    BY <1>1, <1>2, AskKeeps, HistoricalKeeps, CurrentKeeps, RetryKeeps, FallBackKeeps
       DEF Reply
  <1>3. CASE Cleanup
    BY <1>1, <1>3, CleanupKeeps
  <1>4. CASE Tick
    BY <1>1, <1>4, TickKeeps
  <1>5. CASE UNCHANGED vars
    BY <1>1, <1>5, StutterKeeps
  <1>6. QED
    BY <1>1, <1>2, <1>3, <1>4, <1>5 DEF Next

(* What holds of the oracle after every message: the calls come in time    *)
(* and wait no longer than they may, and the rates that priced an option   *)
(* stay, in every interleaving of calls, snapshots and cleanups.           *)
THEOREM Inductive == Spec => []IInv
  <1>1. Init => IInv
    BY InitHolds
  <1>2. IInv /\ [Next]_vars => IInv'
    BY StepKeeps
  <1>3. QED
    BY <1>1, <1>2, PTL DEF Spec

(* The cache holds moments that have been, and every call is somewhere on  *)
(* its way.                                                                *)
THEOREM TypeCorrect == Spec => []TypeOK
  <1>1. IInv => TypeOK
    BY DEF IInv
  <1>2. QED
    BY <1>1, Inductive, PTL

(* A call that has its answer got it in one of three ways.                 *)
LEMMA AnsweredBy ==
  ASSUME IInv, [Next]_vars, NEW s \in Calls, Answered(s)
  PROVE  \/ Historical(s) /\ Done(s, Expiry) /\ rates' = rates \union {Expiry}
         \/ CurrentAnswered(s)
         \/ FallBack(s)
  <1>1. calls' # calls
    BY DEF Answered
  <1>2. PICK c \in Calls : Ask(c) \/ Reply(c)
    BY <1>1 DEF Next, Cleanup, Tick, vars
  <1>3. \A d \in Calls : d # c => calls'[d] = calls[d]
    BY <1>2 DEF IInv, TypeOK, Ask, Reply, Historical, CurrentAnswered, Retry, FallBack, Done
  <1>4. c = s
    BY <1>3 DEF Answered
  <1>5. ~ Ask(s) /\ ~ Retry(s)
    BY DEF Answered, Ask, Retry, IInv, TypeOK
  <1>6. CASE Historical(s)
    <2>1. ~ (calls' = [calls EXCEPT ![s].at = "current", ![s].sent = now])
      BY DEF Answered, IInv, TypeOK
    <2>2. QED
      BY <1>6, <2>1 DEF Historical
  <1>7. QED
    BY <1>2, <1>4, <1>5, <1>6 DEF Reply

(* An accept is never priced by an older rate than the newest that the     *)
(* canister knew when the buyer asked, nor by one older than the window    *)
(* and its waits, whatever other calls store or clean up meanwhile.        *)
THEOREM AcceptsAreAlwaysPricedWell == Spec => AcceptsArePricedWell
  <1> DEFINE Newest == \A c \in Accepts : Answered(c) /\ calls'[c].answer # None =>
                         \A r \in rates : r <= calls[c].asked => r <= calls'[c].answer
  <1>1. ASSUME IInv, [Next]_vars
        PROVE  Newest
    <2>1. SUFFICES ASSUME NEW c \in Accepts, Answered(c), calls'[c].answer # None,
                          NEW r \in rates, r <= calls[c].asked
                   PROVE  r <= calls'[c].answer
      OBVIOUS
    <2>2. c \in Calls /\ c \notin Snapshots /\ c \notin Settlements
      BY <2>1, OracleAssumption DEF Calls
    <2>3. now \in Nat /\ r \in Nat /\ calls[c].asked \in Nat
      BY <1>1, <2>1, <2>2, Moments DEF IInv
    <2>4. ~ Historical(c)
      BY <1>1, <2>2 DEF Historical, IInv, CallsInTime
    <2>5. CASE CurrentAnswered(c)
      <3>1. PICK a \in 0 .. now : Done(c, a) /\ calls[c].sent <= a
        BY <1>1, <2>2, <2>5, NewRate
      <3>2. calls'[c].answer = a
        BY <1>1, <2>2, <3>1, DoneFields DEF IInv
      <3>3. a \in Nat
        BY <2>3, <3>1
      <3>4. calls[c].asked <= calls[c].sent /\ calls[c].sent \in Nat
        BY <1>1, <2>1, <2>5, AllWaits DEF CurrentAnswered
      <3>5. QED
        BY <2>1, <2>3, <3>1, <3>2, <3>3, <3>4
    <2>6. CASE FallBack(c)
      <3>1. PICK a \in (0 .. now) \union {None} :
              Done(c, a) /\ (a # None => \A q \in rates : q <= a)
        BY <1>1, <2>1, <2>2, <2>6, OldRate
      <3>2. calls'[c].answer = a
        BY <1>1, <2>2, <3>1, DoneFields DEF IInv
      <3>3. QED
        BY <2>1, <3>1, <3>2
    <2>7. QED
      BY <1>1, <2>1, <2>2, <2>4, <2>5, <2>6, AnsweredBy
  <1>2. IInv => AcceptIsRecent
    BY DEF IInv
  <1>3. Spec => [][Newest]_vars /\ []AcceptIsRecent
    <2> HIDE DEF Newest
    <2>1. QED
      BY <1>1, <1>2, Inductive, PTL DEF Spec
  <1>4. QED
    BY <1>3 DEF AcceptsArePricedWell, AcceptUsesTheNewest

(* Of the options of one expiry none is priced by a rate further from the  *)
(* expiry than one priced before it, and none is refused a price that one  *)
(* before it got, as long as the rates of the window are kept.             *)
THEOREM LaterPricesAreNeverWorse == Spec => LaterPricesAreNoWorse
  <1> DEFINE NoWorse ==
        \A s, e \in Settlements :
          (/\ Answered(s) /\ calls[e].at = "done" /\ calls[e].answer # None
           /\ now <= Expiry - Window + Kept)
          => /\ calls'[s].answer # None
             /\ Dist(calls'[s].answer, Expiry) <= Dist(calls[e].answer, Expiry)
  <1>1. ASSUME IInv, [Next]_vars
        PROVE  NoWorse
    <2>1. SUFFICES ASSUME NEW s \in Settlements, NEW e \in Settlements, Answered(s),
                          calls[e].at = "done", calls[e].answer # None,
                          now <= Expiry - Window + Kept
                   PROVE  /\ calls'[s].answer # None
                          /\ Dist(calls'[s].answer, Expiry) <= Dist(calls[e].answer, Expiry)
      OBVIOUS
    <2> DEFINE q == calls[e].answer
    <2>2. s \in Calls /\ s \notin Snapshots
      BY <2>1, OracleAssumption DEF Calls
    <2>3. q \in rates /\ Within(q, Expiry)
      BY <1>1, <2>1 DEF IInv, PricesAreKept
    <2>4. now \in Nat /\ q \in Nat /\ Expiry \in Nat /\ None \notin Nat
      BY <1>1, <2>3, Moments, OracleAssumption DEF IInv
    <2> HIDE DEF q
    <2>5. CASE Historical(s) /\ Done(s, Expiry)
      <3>1. calls'[s].answer = Expiry
        BY <1>1, <2>2, <2>5, DoneFields DEF IInv
      <3>2. Dist(Expiry, Expiry) = 0 /\ Dist(q, Expiry) \in Nat
        BY <2>4, Distances
      <3>3. QED
        BY <2>4, <3>1, <3>2 DEF q
    <2>6. CASE CurrentAnswered(s)
      <3>1. PICK r \in 0 .. now, a \in 0 .. now :
              /\ rates' = rates \union {r} /\ Done(s, a)
              /\ \A p \in rates' : Within(p, Expiry) => Dist(a, Expiry) <= Dist(p, Expiry)
        BY <1>1, <2>1, <2>2, <2>6, NewRate
      <3>2. calls'[s].answer = a
        BY <1>1, <2>2, <3>1, DoneFields DEF IInv
      <3>3. q \in rates' /\ a # None
        BY <2>3, <2>4, <3>1
      <3>4. Dist(a, Expiry) <= Dist(q, Expiry)
        BY <2>3, <3>1, <3>3
      <3>5. QED
        BY <3>2, <3>3, <3>4 DEF q
    <2>7. CASE FallBack(s)
      <3>1. PICK a \in (0 .. now) \union {None} :
              /\ Done(s, a)
              /\ \A p \in rates : Within(p, Expiry) =>
                   a # None /\ Dist(a, Expiry) <= Dist(p, Expiry)
        BY <1>1, <2>1, <2>2, <2>7, OldRate
      <3>2. calls'[s].answer = a
        BY <1>1, <2>2, <3>1, DoneFields DEF IInv
      <3>3. a # None /\ Dist(a, Expiry) <= Dist(q, Expiry)
        BY <2>3, <3>1
      <3>4. QED
        BY <3>2, <3>3 DEF q
    <2>8. QED
      BY <1>1, <2>1, <2>2, <2>5, <2>6, <2>7, AnsweredBy
  <1>2. Spec => [][NoWorse]_vars
    <2> HIDE DEF NoWorse
    <2>1. QED
      BY <1>1, Inductive, PTL DEF Spec
  <1>3. QED
    BY <1>2 DEF LaterPricesAreNoWorse
-----------------------------------------------------------------------------
(* The trading bots.                                                       *)

(* Requests of a slot; their number is the number of its next run.         *)
SignedBy(t) == {r \in boSent : r.slot = t}

(* Requests are of the bot of their slot.                                  *)
RequestsAreTyped ==
  /\ IsFiniteSet(boSent) /\ boNonce \in [Bots -> Nat]
  /\ \A r \in boSent : r.bot \in Bots /\ r.slot \in Slots /\ r.run \in Nat /\ r.nonce \in Nat

(* A tick that has not signed bears the number of its slot's requests; so  *)
(* requests of a slot are of runs before it, and of one run each.          *)
OneRequestPerTick ==
  /\ DOMAIN boTick = Slots
  /\ \A t \in Slots :
       /\ {"at", "action", "run"} \subseteq DOMAIN boTick[t]
       /\ boTick[t].at \in {"off", "wait"} \/ boTick[t].run = Cardinality(SignedBy(t))
  /\ \A r \in boSent : r.run < Cardinality(SignedBy(r.slot))
  /\ \A r, q \in boSent : r.slot = q.slot /\ r.run = q.run => r = q

(* Trades, and accepts in progress, are of requests whose nonce is used    *)
(* up, and no two of a bot are of one nonce.                               *)
NonceForEachTrade ==
  /\ boDeals \in Seq(boSent) /\ DOMAIN boPending = Bots
  /\ \A i \in DOMAIN boDeals : boDeals[i].nonce < boNonce[boDeals[i].bot]
  /\ \A b \in Bots : boPending[b] # Bot!NoDraft =>
       LET r == boPending[b].request IN
       /\ r \in boSent /\ r.bot = b /\ r.nonce < boNonce[b]
       /\ \A i \in DOMAIN boDeals : boDeals[i].bot = b => boDeals[i].nonce # r.nonce
  /\ Bot!OneTradePerNonce

BotsInv == RequestsAreTyped /\ OneRequestPerTick /\ NonceForEachTrade

(* There are finitely many requests of a slot.                             *)
LEMMA RunsAreNumbers ==
  ASSUME RequestsAreTyped, NEW t
  PROVE  IsFiniteSet(SignedBy(t)) /\ Cardinality(SignedBy(t)) \in Nat
  <1>1. SignedBy(t) \subseteq boSent
    BY DEF SignedBy
  <1>2. QED
    BY <1>1, FS_Subset, FS_CardinalityType DEF RequestsAreTyped

(* Nothing is signed at first.                                             *)
LEMMA BotsInit == Bot!Init => BotsInv
  <1> SUFFICES ASSUME Bot!Init PROVE BotsInv
    OBVIOUS
  <1>1. /\ boSent = {} /\ boNonce = [b \in Bots |-> 0] /\ boDeals = <<>>
        /\ boPending = [b \in Bots |-> Bot!NoDraft]
        /\ boTick = [t \in Slots |-> Bot!Off]
    BY DEF Bot!Init
  <1>2. RequestsAreTyped
    BY <1>1, FS_EmptySet DEF RequestsAreTyped
  <1>3. OneRequestPerTick
    BY <1>1 DEF OneRequestPerTick, Bot!Off
  <1>4. NonceForEachTrade
    BY <1>1 DEF NonceForEachTrade, Bot!OneTradePerNonce
  <1>5. QED
    BY <1>2, <1>3, <1>4 DEF BotsInv

(* A tick that goes on without a request keeps its number, if it is not    *)
(* over.                                                                   *)
LEMMA TickMoves ==
  ASSUME BotsInv, NEW t \in Slots, NEW to, boTick' = [boTick EXCEPT ![t] = to],
         {"at", "action", "run"} \subseteq DOMAIN to,
         to.at \in {"off", "wait"} \/ to.run = Cardinality(SignedBy(t)),
         UNCHANGED <<boSent, boNonce, boPending, boDeals>>
  PROVE  BotsInv'
  <1>1. RequestsAreTyped' /\ NonceForEachTrade'
    BY DEF BotsInv, RequestsAreTyped, NonceForEachTrade, Bot!OneTradePerNonce
  <1>2. \A s : SignedBy(s)' = SignedBy(s)
    BY DEF SignedBy
  <1>3. DOMAIN boTick' = Slots /\ \A s \in Slots : boTick'[s] = IF s = t THEN to ELSE boTick[s]
    BY DEF BotsInv, OneRequestPerTick
  <1>4. OneRequestPerTick'
    BY <1>2, <1>3 DEF BotsInv, OneRequestPerTick
  <1>5. QED
    BY <1>1, <1>4 DEF BotsInv

(* A stage of a tick is followed by another of the same tick.              *)
LEMMA TickGoesOn ==
  ASSUME BotsInv, NEW t \in Slots, NEW to, boTick' = [boTick EXCEPT ![t] = to],
         boTick[t].at \notin {"off", "wait"},
         DOMAIN to = DOMAIN boTick[t], to.run = boTick[t].run,
         UNCHANGED <<boSent, boNonce, boPending, boDeals>>
  PROVE  BotsInv'
  <1>1. /\ {"at", "action", "run"} \subseteq DOMAIN to
        /\ to.run = Cardinality(SignedBy(t))
    BY DEF BotsInv, OneRequestPerTick
  <1>2. QED
    BY <1>1, TickMoves

(* A tick is over.                                                         *)
LEMMA TickIsOver ==
  ASSUME BotsInv, NEW t \in Slots, boTick' = [boTick EXCEPT ![t] = Bot!Off],
         UNCHANGED <<boSent, boNonce, boPending, boDeals>>
  PROVE  BotsInv'
  <1>1. {"at", "action", "run"} \subseteq DOMAIN Bot!Off /\ Bot!Off.at = "off"
    BY DEF Bot!Off
  <1>2. QED
    BY <1>1, TickMoves

(* A tick starts with the number of the requests before it.                *)
LEMMA StartKeeps ==
  ASSUME BotsInv, NEW t \in Slots, NEW action, Bot!Start(t, action)
  PROVE  BotsInv'
  <1> DEFINE run == Bot!Cardinality({r \in boSent : r.slot = t})
             to == [Bot!Off EXCEPT !.action = action, !.run = run,
                     !.at = IF boReady[BotOf[t]] THEN Bot!FirstStage(action) ELSE "setup"]
  <1>1. boTick' = [boTick EXCEPT ![t] = to] /\ UNCHANGED <<boSent, boNonce, boPending, boDeals>>
    BY DEF Bot!Start, Bot!Step, Bot!canister
  <1>2. run = Cardinality(SignedBy(t))
    BY DEF SignedBy, Bot!Cardinality, Cardinality
  <1>3. {"at", "action", "run"} \subseteq DOMAIN to /\ to.run = run
    BY DEF Bot!Off
  <1> HIDE DEF to, run
  <1>4. QED
    BY <1>1, <1>2, <1>3, TickMoves

(* The stages in which nothing is signed.                                  *)
LEMMA StagesKeep ==
  ASSUME BotsInv, NEW t \in Slots,
         \/ Bot!CheckAccount(t) \/ Bot!Register(t) \/ Bot!ReadForAccept(t)
         \/ Bot!ReadForCreate(t) \/ Bot!ReadBalance(t) \/ Bot!Sync(t) \/ Bot!End(t)
  PROVE  BotsInv'
  <1>1. UNCHANGED <<boSent, boNonce, boPending, boDeals>>
    BY DEF Bot!CheckAccount, Bot!Register, Bot!ReadForAccept, Bot!ReadForCreate,
       Bot!ReadBalance, Bot!Sync, Bot!End, Bot!canister
  <1>2. ASSUME NEW to, boTick' = [boTick EXCEPT ![t] = to], boTick[t].at \notin {"off", "wait"},
               DOMAIN to = DOMAIN boTick[t], to.run = boTick[t].run
        PROVE  BotsInv'
    BY <1>1, <1>2, TickGoesOn
  <1>3. ASSUME NEW x, boTick' = [boTick EXCEPT ![t] = [boTick[t] EXCEPT !.at = x]],
               boTick[t].at \notin {"off", "wait"}
        PROVE  BotsInv'
    <2>1. DOMAIN [boTick[t] EXCEPT !.at = x] = DOMAIN boTick[t]
          /\ [boTick[t] EXCEPT !.at = x].run = boTick[t].run
      BY DEF BotsInv, OneRequestPerTick
    <2>2. QED
      BY <1>2, <1>3, <2>1
  <1>4. ASSUME boTick' = [boTick EXCEPT ![t] = Bot!Off]
        PROVE  BotsInv'
    BY <1>1, <1>4, TickIsOver
  <1>5. CASE Bot!CheckAccount(t)
    <2>1. /\ boTick[t].at = "setup"
          /\ \/ boTick' = [boTick EXCEPT ![t] = [boTick[t] EXCEPT !.at = Bot!FirstStage(boTick[t].action)]]
             \/ boTick' = [boTick EXCEPT ![t] = [boTick[t] EXCEPT !.at = "register"]]
      BY <1>5 DEF Bot!CheckAccount, Bot!SetUp, Bot!Step
    <2>2. QED
      BY <1>3, <2>1
  <1>6. CASE Bot!Register(t)
    <2>1. /\ boTick[t].at = "register"
          /\ \/ boTick' = [boTick EXCEPT ![t] = [boTick[t] EXCEPT !.at = Bot!FirstStage(boTick[t].action)]]
             \/ boTick' = [boTick EXCEPT ![t] = Bot!Off]
      BY <1>6 DEF Bot!Register, Bot!Step
    <2>2. QED
      BY <1>3, <1>4, <2>1
  <1>7. CASE Bot!ReadForAccept(t)
    <2>1. /\ boTick[t].at = "accept"
          /\ \/ boTick' = [boTick EXCEPT ![t] = [boTick[t] EXCEPT !.at = "create"]]
             \/ boTick' = [boTick EXCEPT ![t] = Bot!Off]
             \/ \E list, draft : boTick' = [boTick EXCEPT ![t] =
                  [boTick[t] EXCEPT !.at = "sign", !.list = list, !.draft = draft]]
      BY <1>7 DEF Bot!ReadForAccept, Bot!Step
    <2>2. ASSUME NEW list, NEW draft, boTick' = [boTick EXCEPT ![t] =
                   [boTick[t] EXCEPT !.at = "sign", !.list = list, !.draft = draft]]
          PROVE  BotsInv'
      <3>1. /\ DOMAIN [boTick[t] EXCEPT !.at = "sign", !.list = list, !.draft = draft] = DOMAIN boTick[t]
            /\ [boTick[t] EXCEPT !.at = "sign", !.list = list, !.draft = draft].run = boTick[t].run
        BY DEF BotsInv, OneRequestPerTick
      <3>2. QED
        BY <1>2, <2>1, <2>2, <3>1
    <2>3. QED
      BY <1>3, <1>4, <2>1, <2>2
  <1>8. CASE Bot!ReadForCreate(t)
    <2>1. /\ boTick[t].at = "create"
          /\ \/ boTick' = [boTick EXCEPT ![t] = Bot!Off]
             \/ \E list : boTick' = [boTick EXCEPT ![t] =
                  [boTick[t] EXCEPT !.at = "balance", !.list = list]]
      BY <1>8 DEF Bot!ReadForCreate, Bot!Step
    <2>2. ASSUME NEW list, boTick' = [boTick EXCEPT ![t] =
                   [boTick[t] EXCEPT !.at = "balance", !.list = list]]
          PROVE  BotsInv'
      <3>1. /\ DOMAIN [boTick[t] EXCEPT !.at = "balance", !.list = list] = DOMAIN boTick[t]
            /\ [boTick[t] EXCEPT !.at = "balance", !.list = list].run = boTick[t].run
        BY DEF BotsInv, OneRequestPerTick
      <3>2. QED
        BY <1>2, <2>1, <2>2, <3>1
    <2>3. QED
      BY <1>4, <2>1, <2>2
  <1>9. CASE Bot!ReadBalance(t)
    <2>1. /\ boTick[t].at = "balance"
          /\ \/ boTick' = [boTick EXCEPT ![t] = [boTick[t] EXCEPT !.at = "sync"]]
             \/ \E d : boTick' = [boTick EXCEPT ![t] =
                  [boTick[t] EXCEPT !.at = "sign", !.draft = d]]
      BY <1>9 DEF Bot!ReadBalance, Bot!Step
    <2>2. ASSUME NEW d, boTick' = [boTick EXCEPT ![t] =
                   [boTick[t] EXCEPT !.at = "sign", !.draft = d]]
          PROVE  BotsInv'
      <3>1. /\ DOMAIN [boTick[t] EXCEPT !.at = "sign", !.draft = d] = DOMAIN boTick[t]
            /\ [boTick[t] EXCEPT !.at = "sign", !.draft = d].run = boTick[t].run
        BY DEF BotsInv, OneRequestPerTick
      <3>2. QED
        BY <1>2, <2>1, <2>2, <3>1
    <2>3. QED
      BY <1>3, <2>1, <2>2
  <1>10. CASE Bot!Sync(t)
    <2>1. /\ boTick[t].at = "sync"
          /\ \/ boTick' = [boTick EXCEPT ![t] = [boTick[t] EXCEPT !.at = "balance"]]
             \/ boTick' = [boTick EXCEPT ![t] = Bot!Off]
      BY <1>10 DEF Bot!Sync, Bot!Step
    <2>2. QED
      BY <1>3, <1>4, <2>1
  <1>11. CASE Bot!End(t)
    BY <1>4, <1>11 DEF Bot!End, Bot!Over, Bot!Step
  <1>12. QED
    BY <1>5, <1>6, <1>7, <1>8, <1>9, <1>10, <1>11

(* A request is the first of its tick, and the tick is past signing.       *)
LEMMA BotSignKeeps ==
  ASSUME BotsInv, NEW t \in Slots, Bot!Sign(t)
  PROVE  BotsInv'
  <1> DEFINE to == [boTick[t] EXCEPT !.at = "wait"]
             new == [bot |-> BotOf[t], slot |-> t, run |-> boTick[t].run,
                     nonce |-> boNonce[BotOf[t]], draft |-> boTick[t].draft]
  <1>1. /\ boTick[t].at = "sign" /\ boTick' = [boTick EXCEPT ![t] = to]
        /\ boSent' = boSent \cup {new}
        /\ UNCHANGED <<boNonce, boPending, boDeals>>
    BY DEF Bot!Sign, Bot!Step, Bot!canister
  <1>2. BotOf[t] \in Bots
    BY MarketsAssumption DEF Bot!TradingBotAssumption
  <1>3. /\ DOMAIN to = DOMAIN boTick[t] /\ to.at = "wait" /\ {"at", "action", "run"} \subseteq DOMAIN to
        /\ boTick[t].run = Cardinality(SignedBy(t))
    BY <1>1 DEF BotsInv, OneRequestPerTick
  <1>4. /\ new.bot = BotOf[t] /\ new.slot = t /\ new.run = Cardinality(SignedBy(t))
        /\ new.nonce = boNonce[BotOf[t]]
    BY <1>3
  <1>5. \A s : IsFiniteSet(SignedBy(s)) /\ Cardinality(SignedBy(s)) \in Nat
    BY RunsAreNumbers DEF BotsInv
  <1> HIDE DEF new, to
  <1>6. new \notin boSent
    BY <1>4, <1>5 DEF BotsInv, OneRequestPerTick
  <1>7. SignedBy(t)' = SignedBy(t) \cup {new} /\ new \notin SignedBy(t)
    BY <1>1, <1>4, <1>6 DEF SignedBy
  <1>8. Cardinality(SignedBy(t)') = Cardinality(SignedBy(t)) + 1
    <2>1. Cardinality(SignedBy(t) \cup {new}) =
            IF new \in SignedBy(t) THEN Cardinality(SignedBy(t)) ELSE Cardinality(SignedBy(t)) + 1
      BY <1>5, FS_AddElement
    <2>2. QED
      BY <1>7, <2>1
  <1>9. \A s : s # t => SignedBy(s)' = SignedBy(s)
    BY <1>1, <1>4 DEF SignedBy
  <1>10. RequestsAreTyped'
    <2>1. IsFiniteSet(boSent \cup {new})
      BY FS_AddElement DEF BotsInv, RequestsAreTyped
    <2>2. QED
      BY <1>1, <1>2, <1>4, <1>5, <2>1 DEF BotsInv, RequestsAreTyped
  <1>11. OneRequestPerTick'
    <2>1. DOMAIN boTick' = Slots /\ \A s \in Slots : boTick'[s] = IF s = t THEN to ELSE boTick[s]
      BY <1>1 DEF BotsInv, OneRequestPerTick
    <2>2. \A s \in Slots : {"at", "action", "run"} \subseteq DOMAIN boTick'[s]
          /\ (boTick'[s].at \in {"off", "wait"} \/ boTick'[s].run = Cardinality(SignedBy(s)'))
      BY <1>3, <1>9, <2>1 DEF BotsInv, OneRequestPerTick
    <2>3. \A r \in boSent : r.run < Cardinality(SignedBy(r.slot)')
      <3>1. SUFFICES ASSUME NEW r \in boSent
                     PROVE  r.run < Cardinality(SignedBy(r.slot)')
        OBVIOUS
      <3>2. r.run < Cardinality(SignedBy(r.slot)) /\ r.run \in Nat
        BY DEF BotsInv, OneRequestPerTick, RequestsAreTyped
      <3>3. CASE r.slot = t
        BY <1>5, <1>8, <3>2, <3>3
      <3>4. CASE r.slot # t
        BY <1>9, <3>2, <3>4
      <3>5. QED
        BY <3>3, <3>4
    <2>4. ASSUME NEW r, r = new
          PROVE  r.run < Cardinality(SignedBy(r.slot)')
      <3>1. SignedBy(r.slot)' = SignedBy(t)'
        BY <1>4, <2>4 DEF SignedBy
      <3>2. QED
        BY <1>4, <1>5, <1>8, <2>4, <3>1
    <2>5. \A r \in boSent : r.slot = t => r.run # new.run
      BY <1>4, <1>5 DEF BotsInv, OneRequestPerTick, RequestsAreTyped
    <2>6. \A r, q \in boSent' : r.slot = q.slot /\ r.run = q.run => r = q
      BY <1>1, <1>4, <2>5 DEF BotsInv, OneRequestPerTick
    <2>7. \A r \in boSent' : r.run < Cardinality(SignedBy(r.slot)')
      BY <1>1, <2>3, <2>4
    <2>8. QED
      BY <2>1, <2>2, <2>6, <2>7 DEF OneRequestPerTick
  <1>12. NonceForEachTrade'
    <2>1. boDeals \in Seq(boSent')
      BY <1>1 DEF BotsInv, NonceForEachTrade
    <2>2. QED
      BY <1>1, <2>1 DEF BotsInv, NonceForEachTrade, Bot!OneTradePerNonce
  <1>13. QED
    BY <1>10, <1>11, <1>12 DEF BotsInv

(* Failures and restarts end ticks and sign nothing.                       *)
LEMMA FailuresKeep ==
  ASSUME BotsInv, \/ \E t \in Slots : Bot!Fail(t)
                  \/ \E b \in Bots : Bot!Restart(b)
  PROVE  BotsInv'
  <1>1. ASSUME NEW t \in Slots, Bot!Fail(t)
        PROVE  BotsInv'
    <2>1. boTick' = [boTick EXCEPT ![t] = Bot!Off] /\ UNCHANGED <<boSent, boNonce, boPending, boDeals>>
      BY <1>1 DEF Bot!Fail
    <2>2. QED
      BY <2>1, TickIsOver
  <1>2. ASSUME NEW b \in Bots, Bot!Restart(b)
        PROVE  BotsInv'
    <2>1. /\ boTick' = [t \in Slots |-> IF BotOf[t] = b THEN Bot!Off ELSE boTick[t]]
          /\ UNCHANGED <<boSent, boNonce, boPending, boDeals>>
      BY <1>2 DEF Bot!Restart, Bot!canister
    <2>2. {"at", "action", "run"} \subseteq DOMAIN Bot!Off /\ Bot!Off.at = "off"
      BY DEF Bot!Off
    <2>3. \A s : SignedBy(s)' = SignedBy(s)
      BY <2>1 DEF SignedBy
    <2>4. OneRequestPerTick'
      BY <2>1, <2>2, <2>3 DEF BotsInv, OneRequestPerTick
    <2>5. QED
      BY <2>1, <2>4 DEF BotsInv, RequestsAreTyped, NonceForEachTrade, Bot!OneTradePerNonce
  <1>3. QED
    BY <1>1, <1>2

(* A request is taken with the nonce of the moment, which moves on: the    *)
(* trade, or the accept in progress, is of a nonce no other trade had.     *)
LEMMA ReceiveKeeps ==
  ASSUME BotsInv, NEW r \in boSent, Bot!Receive(r)
  PROVE  BotsInv'
  <1>1. /\ r.nonce = boNonce[r.bot] /\ boNonce' = [boNonce EXCEPT ![r.bot] = @ + 1]
        /\ UNCHANGED <<boTick, boSent>>
        /\ \/ /\ \E p : p.request = r /\ boPending' = [boPending EXCEPT ![r.bot] = p]
              /\ UNCHANGED boDeals
           \/ boDeals' = Append(boDeals, r) /\ UNCHANGED boPending
           \/ UNCHANGED <<boPending, boDeals>>
    <2>1. /\ r.nonce = boNonce[r.bot] /\ boNonce' = [boNonce EXCEPT ![r.bot] = @ + 1]
          /\ UNCHANGED <<boTick, boSent>>
      BY DEF Bot!Receive, Bot!Fresh
    <2>2. CASE r.draft.kind = "accept" /\ Bot!Acceptable(r)
      <3> DEFINE p == [offer |-> r.draft.offer, quantity |-> r.draft.quantity, request |-> r]
      <3>1. boPending' = [boPending EXCEPT ![r.bot] = p] /\ UNCHANGED boDeals
        BY <2>2 DEF Bot!Receive
      <3>2. p.request = r
        OBVIOUS
      <3> HIDE DEF p
      <3>3. QED
        BY <2>1, <3>1, <3>2
    <2>3. CASE r.draft.kind = "create" /\ Bot!Creatable(r)
      <3>1. boDeals' = Append(boDeals, r) /\ UNCHANGED boPending
        BY <2>3 DEF Bot!Receive
      <3>2. QED
        BY <2>1, <3>1
    <2>4. CASE ~ (r.draft.kind = "accept" /\ Bot!Acceptable(r))
               /\ ~ (r.draft.kind = "create" /\ Bot!Creatable(r))
      <3>1. UNCHANGED <<boPending, boDeals>>
        BY <2>4 DEF Bot!Receive
      <3>2. QED
        BY <2>1, <3>1
    <2>5. QED
      BY <2>2, <2>3, <2>4
  <1>2. /\ r.bot \in Bots /\ boNonce \in [Bots -> Nat] /\ boNonce' \in [Bots -> Nat]
        /\ \A b \in Bots : boNonce'[b] = IF b = r.bot THEN boNonce[b] + 1 ELSE boNonce[b]
    BY <1>1 DEF BotsInv, RequestsAreTyped
  <1>3. RequestsAreTyped'
    BY <1>1, <1>2 DEF BotsInv, RequestsAreTyped
  <1>4. OneRequestPerTick'
    <2>1. \A s : SignedBy(s)' = SignedBy(s)
      BY <1>1 DEF SignedBy
    <2>2. QED
      BY <1>1, <2>1 DEF BotsInv, OneRequestPerTick
  <1>5. /\ \A q \in boSent : q.bot \in Bots /\ q.nonce \in Nat
        /\ \A i \in DOMAIN boDeals : boDeals[i] \in boSent /\ boDeals[i].nonce < boNonce[boDeals[i].bot]
        /\ boDeals \in Seq(boSent)
        /\ DOMAIN boDeals = 1 .. Len(boDeals) /\ Len(boDeals) \in Nat
    BY DEF BotsInv, NonceForEachTrade, RequestsAreTyped
  <1>6. /\ \A i \in DOMAIN boDeals : boDeals[i].nonce < boNonce'[boDeals[i].bot]
        /\ \A i \in DOMAIN boDeals : boDeals[i].bot = r.bot => boDeals[i].nonce # r.nonce
    BY <1>1, <1>2, <1>5
  <1>7. /\ r.nonce < boNonce'[r.bot]
        /\ \A b \in Bots : boPending[b] # Bot!NoDraft =>
             LET q == boPending[b].request IN
             /\ q \in boSent /\ q.bot = b /\ q.nonce < boNonce'[b] /\ (b = r.bot => q.nonce # r.nonce)
             /\ \A i \in DOMAIN boDeals : boDeals[i].bot = b => boDeals[i].nonce # q.nonce
    <2>1. r.nonce < boNonce'[r.bot]
      BY <1>1, <1>2
    <2>2. ASSUME NEW b \in Bots, boPending[b] # Bot!NoDraft
          PROVE  LET q == boPending[b].request IN
             /\ q \in boSent /\ q.bot = b /\ q.nonce < boNonce'[b] /\ (b = r.bot => q.nonce # r.nonce)
             /\ \A i \in DOMAIN boDeals : boDeals[i].bot = b => boDeals[i].nonce # q.nonce
      <3> DEFINE q == boPending[b].request
      <3>1. /\ q \in boSent /\ q.bot = b /\ q.nonce < boNonce[b]
            /\ \A i \in DOMAIN boDeals : boDeals[i].bot = b => boDeals[i].nonce # q.nonce
        BY <2>2 DEF BotsInv, NonceForEachTrade
      <3>2. q.nonce \in Nat /\ boNonce[b] \in Nat
        BY <1>2, <1>5, <3>1
      <3> HIDE DEF q
      <3>3. q.nonce < boNonce'[b] /\ (b = r.bot => q.nonce # r.nonce)
        BY <1>1, <1>2, <3>1, <3>2
      <3>4. QED
        BY <3>1, <3>3 DEF q
    <2>3. QED
      BY <2>1, <2>2
  <1>8. Bot!OneTradePerNonce /\ DOMAIN boPending = Bots
    BY DEF BotsInv, NonceForEachTrade
  <1>9. CASE UNCHANGED <<boPending, boDeals>>
    <2>1. NonceForEachTrade'
      BY <1>1, <1>5, <1>6, <1>7, <1>8, <1>9 DEF NonceForEachTrade, Bot!OneTradePerNonce
    <2>2. QED
      BY <1>3, <1>4, <2>1 DEF BotsInv
  <1>10. ASSUME NEW p, p.request = r, boPending' = [boPending EXCEPT ![r.bot] = p], UNCHANGED boDeals
         PROVE  BotsInv'
    <2>1. DOMAIN boPending' = Bots /\ \A b \in Bots : boPending'[b] = IF b = r.bot THEN p ELSE boPending[b]
      BY <1>8, <1>10
    <2>2. \A b \in Bots : boPending'[b] # Bot!NoDraft =>
            LET q == boPending'[b].request IN
            /\ q \in boSent /\ q.bot = b /\ q.nonce < boNonce'[b]
            /\ \A i \in DOMAIN boDeals : boDeals[i].bot = b => boDeals[i].nonce # q.nonce
      BY <1>6, <1>7, <1>10, <2>1
    <2>3. NonceForEachTrade'
      BY <1>1, <1>5, <1>6, <1>8, <1>10, <2>1, <2>2, ZenonT(60) DEF NonceForEachTrade, Bot!OneTradePerNonce
    <2>4. QED
      BY <1>3, <1>4, <2>3 DEF BotsInv
  <1>11. CASE boDeals' = Append(boDeals, r) /\ UNCHANGED boPending
    <2>1. /\ boDeals' \in Seq(boSent) /\ DOMAIN boDeals' = 1 .. Len(boDeals) + 1
          /\ boDeals'[Len(boDeals) + 1] = r
          /\ \A i \in DOMAIN boDeals : boDeals'[i] = boDeals[i]
      BY <1>5, <1>11
    <2>2. \A i \in DOMAIN boDeals' : i \in DOMAIN boDeals \/ i = Len(boDeals) + 1
      BY <1>5, <2>1
    <2>3. \A i \in DOMAIN boDeals' : boDeals'[i].nonce < boNonce'[boDeals'[i].bot]
      BY <1>6, <1>7, <2>1, <2>2
    <2>4. Bot!OneTradePerNonce'
      BY <1>6, <1>8, <2>1, <2>2 DEF Bot!OneTradePerNonce
    <2>5. \A b \in Bots : boPending[b] # Bot!NoDraft =>
            LET q == boPending[b].request IN
            /\ q \in boSent /\ q.bot = b /\ q.nonce < boNonce'[b]
            /\ \A i \in DOMAIN boDeals' : boDeals'[i].bot = b => boDeals'[i].nonce # q.nonce
      BY <1>7, <2>1, <2>2
    <2>6. NonceForEachTrade'
      BY <1>1, <1>8, <1>11, <2>1, <2>3, <2>4, <2>5 DEF NonceForEachTrade
    <2>7. QED
      BY <1>3, <1>4, <2>6 DEF BotsInv
  <1>12. QED
    BY <1>1, <1>9, <1>10, <1>11

(* An accept in progress becomes the trade of its request, or is put back. *)
LEMMA ConcludeKeeps ==
  ASSUME BotsInv, NEW b \in Bots, NEW accepted \in BOOLEAN, Bot!Conclude(b, accepted)
  PROVE  BotsInv'
  <1> DEFINE r == boPending[b].request
  <1>1. /\ boPending[b] # Bot!NoDraft /\ boPending' = [boPending EXCEPT ![b] = Bot!NoDraft]
        /\ boDeals' = Append(boDeals, r) \/ UNCHANGED boDeals
        /\ UNCHANGED <<boNonce, boTick, boSent>>
    BY DEF Bot!Conclude
  <1>2. /\ r \in boSent /\ r.bot = b /\ r.nonce < boNonce[b]
        /\ \A i \in DOMAIN boDeals : boDeals[i].bot = b => boDeals[i].nonce # r.nonce
    BY <1>1 DEF BotsInv, NonceForEachTrade
  <1> HIDE DEF r
  <1>3. /\ \A i \in DOMAIN boDeals : boDeals[i].nonce < boNonce[boDeals[i].bot]
        /\ boDeals \in Seq(boSent) /\ Bot!OneTradePerNonce /\ DOMAIN boPending = Bots
        /\ DOMAIN boDeals = 1 .. Len(boDeals) /\ Len(boDeals) \in Nat
    BY DEF BotsInv, NonceForEachTrade
  <1>4. RequestsAreTyped' /\ OneRequestPerTick'
    <2>1. \A s : SignedBy(s)' = SignedBy(s)
      BY <1>1 DEF SignedBy
    <2>2. QED
      BY <1>1, <2>1 DEF BotsInv, RequestsAreTyped, OneRequestPerTick
  <1>5. /\ DOMAIN boPending' = Bots
        /\ \A x \in Bots : boPending'[x] # Bot!NoDraft => x # b /\ boPending'[x] = boPending[x]
    BY <1>1, <1>3
  <1>6. \A x \in Bots : boPending'[x] # Bot!NoDraft =>
          LET q == boPending'[x].request IN
          /\ q \in boSent /\ q.bot = x /\ q.nonce < boNonce[x]
          /\ \A i \in DOMAIN boDeals : boDeals[i].bot = x => boDeals[i].nonce # q.nonce
    BY <1>5 DEF BotsInv, NonceForEachTrade
  <1>7. CASE UNCHANGED boDeals
    <2>1. NonceForEachTrade'
      BY <1>1, <1>3, <1>5, <1>6, <1>7 DEF NonceForEachTrade, Bot!OneTradePerNonce
    <2>2. QED
      BY <1>4, <2>1 DEF BotsInv
  <1>8. CASE boDeals' = Append(boDeals, r)
    <2>1. /\ boDeals' \in Seq(boSent) /\ DOMAIN boDeals' = 1 .. Len(boDeals) + 1
          /\ boDeals'[Len(boDeals) + 1] = r
          /\ \A i \in DOMAIN boDeals : boDeals'[i] = boDeals[i]
      BY <1>2, <1>3, <1>8
    <2>2. \A i \in DOMAIN boDeals' : i \in DOMAIN boDeals \/ i = Len(boDeals) + 1
      BY <1>3, <2>1
    <2>3. \A i \in DOMAIN boDeals' : boDeals'[i].nonce < boNonce[boDeals'[i].bot]
      BY <1>2, <1>3, <2>1, <2>2
    <2>4. Bot!OneTradePerNonce'
      BY <1>2, <1>3, <2>1, <2>2 DEF Bot!OneTradePerNonce
    <2>5. \A x \in Bots : boPending'[x] # Bot!NoDraft =>
            LET q == boPending'[x].request IN
            /\ q \in boSent /\ q.bot = x /\ q.nonce < boNonce[x]
            /\ \A i \in DOMAIN boDeals' : boDeals'[i].bot = x => boDeals'[i].nonce # q.nonce
      BY <1>2, <1>5, <1>6, <2>1, <2>2
    <2>6. NonceForEachTrade'
      BY <1>1, <1>5, <2>1, <2>3, <2>4, <2>5 DEF NonceForEachTrade
    <2>7. QED
      BY <1>4, <2>6 DEF BotsInv
  <1>9. QED
    BY <1>1, <1>7, <1>8

(* Every step of the bots, of the network and of the canister.             *)
LEMMA BotsStep ==
  ASSUME BotsInv, Bot!Next \/ UNCHANGED boVars
  PROVE  BotsInv'
  <1>1. ASSUME NEW t \in Slots, Bot!TickStep(t)
        PROVE  BotsInv'
    BY <1>1, StagesKeep, BotSignKeeps DEF Bot!TickStep
  <1>2. CASE UNCHANGED boVars
    <2>1. \A s : SignedBy(s)' = SignedBy(s)
      BY <1>2 DEF SignedBy, boVars
    <2>2. UNCHANGED <<boTick, boSent, boNonce, boPending, boDeals>>
      BY <1>2 DEF boVars
    <2>3. QED
      BY <2>1, <2>2 DEF BotsInv, RequestsAreTyped, OneRequestPerTick, NonceForEachTrade, Bot!OneTradePerNonce
  <1>3. QED
    BY <1>1, <1>2, StartKeeps, FailuresKeep, ReceiveKeeps, ConcludeKeeps DEF Bot!Next

(* However ticks overlap, fail and are repeated: no two trades come from   *)
(* one nonce, and none from one tick.                                      *)
THEOREM BotsAlwaysTradeOnce == UnionSpec => []BotsTradeOnce
  <1>1. UnionInit => BotsInv
    BY BotsInit DEF UnionInit
  <1>2. BotsInv /\ [UnionNext]_unionVars => BotsInv'
    BY BotsStep DEF UnionNext, unionVars
  <1>3. ASSUME BotsInv
        PROVE  BotsTradeOnce
    <2>1. ASSUME NEW i \in DOMAIN boDeals, NEW j \in DOMAIN boDeals,
                 boDeals[i].slot = boDeals[j].slot, boDeals[i].run = boDeals[j].run
          PROVE  i = j
      <3>1. boDeals[i] \in boSent /\ boDeals[j] \in boSent
        BY <1>3 DEF BotsInv, NonceForEachTrade
      <3>2. boDeals[i] = boDeals[j]
        BY <1>3, <2>1, <3>1 DEF BotsInv, OneRequestPerTick
      <3>3. QED
        BY <1>3, <3>2 DEF BotsInv, NonceForEachTrade, Bot!OneTradePerNonce
    <2>2. Bot!OneTradePerTick
      BY <2>1 DEF Bot!OneTradePerTick
    <2>3. QED
      BY <1>3, <2>2 DEF BotsTradeOnce, BotsInv, NonceForEachTrade
  <1>4. QED
    BY <1>1, <1>2, <1>3, PTL DEF UnionSpec

-----------------------------------------------------------------------------
(* Profit and loss.                                                        *)

(* The whole part of a fraction.                                           *)
LEMMA WholePart ==
  ASSUME NEW a \in Nat, NEW b \in Nat \ {0}
  PROVE  /\ a \div b \in Nat /\ (a \div b) * b <= a /\ a < (a \div b) * b + b
  <1>1. a \div b \in Nat
    BY SMTT(30)
  <1>2. (a \div b) * b <= a
    BY SMTT(30)
  <1>3. a < (a \div b) * b + b
    BY SMTT(30)
  <1>4. QED
    BY <1>1, <1>2, <1>3

(* A product grows with each of its factors.                               *)
LEMMA Grows ==
  ASSUME NEW a \in Nat, NEW b \in Nat, NEW c \in Nat, a <= b
  PROVE  a * c <= b * c
  BY SMTT(30)

(* Rounded to the nearest satoshi, an amount is the one rounded down or    *)
(* one more; what is paid for the rise of a price over the strike is no    *)
(* more than the quantity.                                                 *)
LEMMA Rounding ==
  ASSUME NEW a \in Nat, NEW p \in Nat \ {0}
  PROVE  (2 * a + p) \div (2 * p) - a \div p \in {0, 1}
  <1> DEFINE g == a \div p
             r == (2 * a + p) \div (2 * p)
             gp == g * p
             rp == r * p
  <1>1. g \in Nat /\ gp <= a /\ a < gp + p /\ gp \in Nat
    BY WholePart
  <1>2. r \in Nat /\ r * (2 * p) <= 2 * a + p /\ 2 * a + p < r * (2 * p) + 2 * p
    <2>1. 2 * a + p \in Nat /\ 2 * p \in Nat \ {0}
      OBVIOUS
    <2>2. QED
      BY <2>1, WholePart
  <1>3. rp \in Nat /\ r * (2 * p) = 2 * rp
    <2> HIDE DEF r
    <2>1. r * (2 * p) = 2 * (r * p) /\ r * p \in Nat
      BY <1>2
    <2>2. QED
      BY <2>1
  <1> HIDE DEF g, r, rp, gp
  <1>4. 2 * rp <= 2 * a + p /\ 2 * a + p < 2 * rp + 2 * p
    BY <1>2, <1>3
  <1>5. gp < rp + p /\ rp < gp + 2 * p
    BY <1>1, <1>3, <1>4
  <1>6. g <= r
    <2>1. SUFFICES ASSUME r + 1 <= g PROVE FALSE
      BY <1>1, <1>2
    <2>2. (r + 1) * p <= g * p
      BY <1>1, <1>2, <2>1, Grows
    <2>3. (r + 1) * p = r * p + p
      BY <1>2
    <2>4. QED
      BY <1>1, <1>3, <1>5, <2>2, <2>3 DEF rp, gp
  <1>7. r <= g + 1
    <2>1. SUFFICES ASSUME g + 2 <= r PROVE FALSE
      BY <1>1, <1>2
    <2>2. (g + 2) * p <= r * p
      BY <1>1, <1>2, <2>1, Grows
    <2>3. (g + 2) * p = g * p + 2 * p
      BY <1>1
    <2>4. QED
      BY <1>1, <1>3, <1>5, <2>2, <2>3 DEF rp, gp
  <1>8. r - g \in {0, 1}
    BY <1>1, <1>2, <1>6, <1>7
  <1>9. QED
    BY <1>8 DEF r, g

(* Of two numbers.                                                         *)
LEMMA OfTwo ==
  ASSUME NEW x \in Int, NEW y \in Int
  PROVE  /\ History!Max({x, y}) = IF x >= y THEN x ELSE y
         /\ History!Min({x, y}) = IF x <= y THEN x ELSE y
  BY DEF History!Max, History!Min

(* The kinds of numbers a division of the quantity is made of.             *)
LEMMA DivisionIsOfNumbers ==
  ASSUME NEW d \in Deals, NEW p \in Prices
  PROVE  LET share == History!Division(d, p)  gross == History!GrossPayout(d, p) IN
         /\ gross \in Nat /\ share.fee \in Int /\ share.charge \in Nat
         /\ share.buyer = gross - share.fee
         /\ share.writer = IF d.quantity - gross - share.charge >= 0
                           THEN d.quantity - gross - share.charge ELSE 0
         /\ d.quantity \in Nat /\ d.premium \in Nat /\ d.strike \in Nat /\ p \in Nat \ {0}
  <1> DEFINE gross == History!GrossPayout(d, p)
             taken == History!Share(gross, ProfitFeeBps)
             paid == {t \in {"buyer", "fee"} : IF t = "buyer" THEN gross > taken ELSE taken > 0}
             charge == History!Cardinality(paid) * TransferFee
  <1>1. d.quantity \in Nat /\ d.premium \in Nat /\ d.strike \in Nat /\ p \in Nat \ {0}
        /\ ProfitFeeBps \in Nat /\ TransferFee \in Nat
    <2>1. d \in [quantity : Nat, premium : Nat, strike : Nat]
      BY MarketsAssumption, SMTT(60) DEF History!TradeHistoryAssumption
    <2>2. p \in Nat \ {0}
      BY MarketsAssumption, SMTT(60) DEF History!TradeHistoryAssumption
    <2>3. ProfitFeeBps \in Nat /\ TransferFee \in Nat
      BY MarketsAssumption, SMTT(60) DEF History!TradeHistoryAssumption
    <2>4. QED
      BY <2>1, <2>2, <2>3
  <1>2. gross \in Nat
    <2>1. CASE p <= d.strike
      BY <2>1 DEF History!GrossPayout
    <2>2. CASE p > d.strike
      <3>1. d.quantity * (p - d.strike) \in Nat
        <4>1. p - d.strike \in Nat
          BY <1>1, <2>2
        <4>2. QED
          BY <1>1, <4>1
      <3>2. (d.quantity * (p - d.strike)) \div p \in Nat
        BY <1>1, <3>1, WholePart
      <3>3. QED
        BY <1>1, <2>2, <3>2 DEF History!GrossPayout
    <2>3. QED
      BY <1>1, <2>1, <2>2
  <1>3. taken \in Nat
    <2> HIDE DEF gross
    <2>1. gross * ProfitFeeBps \in Nat
      BY <1>1, <1>2
    <2>2. QED
      BY <2>1, WholePart DEF History!Share
  <1>4. charge \in Nat
    <2>1. IsFiniteSet({"buyer", "fee"})
      <3>1. IsFiniteSet({"buyer"}) /\ {"buyer", "fee"} = {"buyer"} \cup {"fee"}
        BY FS_Singleton
      <3>2. QED
        BY <3>1, FS_AddElement
    <2>2. paid \subseteq {"buyer", "fee"}
      OBVIOUS
    <2> HIDE DEF paid
    <2>3. IsFiniteSet(paid)
      BY <2>1, <2>2, FS_Subset
    <2>4. Cardinality(paid) \in Nat
      BY <2>3, FS_CardinalityType
    <2>5. History!Cardinality(paid) = Cardinality(paid)
      BY DEF History!Cardinality, Cardinality
    <2>6. QED
      BY <1>1, <2>4, <2>5
  <1>5. History!Division(d, p) =
          [buyer |-> gross - taken, fee |-> taken, charge |-> charge,
           writer |-> History!Max({0, d.quantity - gross - charge})]
    BY DEF History!Division
  <1> HIDE DEF gross, taken, paid, charge
  <1>6. History!Max({0, d.quantity - gross - charge}) =
          IF d.quantity - gross - charge >= 0 THEN d.quantity - gross - charge ELSE 0
    <2>1. d.quantity - gross - charge \in Int
      BY <1>1, <1>2, <1>4
    <2>2. History!Max({0, d.quantity - gross - charge}) =
            IF 0 >= d.quantity - gross - charge THEN 0 ELSE d.quantity - gross - charge
      BY <2>1, OfTwo
    <2>3. QED
      BY <2>1, <2>2
  <1>7. QED
    BY <1>1, <1>2, <1>3, <1>4, <1>5, <1>6 DEF gross

-----------------------------------------------------------------------------
(* The history.                                                            *)

Sides == {"buyer", "writer"}
Trades ==
  [role : Sides, deal : Deals, paid : Int, fee : PremiumFees, collected : BOOLEAN,
   price : Prices \cup {0}, payout : Int, at : Nat, gain : [buyer : Int, writer : Int]]

HistoryIsTyped ==
  /\ hiFee \in PremiumFees /\ hiHour \in Nat /\ hiPage \in Nat
  /\ hiTrades \in Seq(Trades) /\ hiSettled \in Seq(Nat)
  /\ Len(hiEntries) \in Nat /\ DOMAIN hiEntries = 1 .. Len(hiEntries)
  /\ DOMAIN hiPicked = {"role", "result", "from", "to"} /\ DOMAIN hiColumns = {"role", "result"}

(* What a trade did to the balances of its sides, so far.                  *)
TradesAreKept ==
  \A i \in DOMAIN hiTrades :
    LET t == hiTrades[i]
        toWriter == t.deal.premium - History!Share(t.deal.premium, t.fee)
        share == History!Division(t.deal, t.price)
    IN  /\ t.paid = IF t.collected THEN t.deal.premium ELSE toWriter
        /\ t.gain.buyer = (IF t.price = 0 THEN 0 ELSE share.buyer) - t.paid
        /\ t.gain.writer = (IF t.price = 0 THEN 0 ELSE share.writer) + (toWriter - t.deal.quantity)
        /\ t.price # 0 => t.payout = IF t.role = "buyer" THEN share.buyer ELSE share.writer

(* Trades are settled once.                                                *)
SettledOnce ==
  /\ \A k \in DOMAIN hiSettled :
       hiSettled[k] \in DOMAIN hiTrades /\ hiTrades[hiSettled[k]].price # 0
  /\ \A k, m \in DOMAIN hiSettled : hiSettled[k] = hiSettled[m] => k = m

(* Entries are of settled trades, one of each, and as those are.           *)
EntriesAreOfTrades ==
  /\ \A k \in DOMAIN hiEntries :
       LET e == hiEntries[k]  t == hiTrades[e.id] IN
       /\ e.id \in DOMAIN hiTrades /\ t.price # 0 /\ e.role = t.role
       /\ e.pnl = History!CalculatePnl(t.role, History!NetPremium(t.paid, e.fee, t.role),
                                       t.payout, t.deal.quantity)
       /\ e.result \in {"profit", "loss", "breakeven"}
  /\ \A k, m \in DOMAIN hiEntries : hiEntries[k].id = hiEntries[m].id => k = m

(* The filters as shown are those the table applies.                       *)
FiltersAgree == hiColumns.role = hiPicked.role /\ hiColumns.result = hiPicked.result

HistoryInv ==
  /\ HistoryIsTyped /\ TradesAreKept /\ SettledOnce /\ EntriesAreOfTrades
  /\ FiltersAgree /\ History!PageExists

(* No trade has been made at first.                                        *)
LEMMA HistoryInit == History!Init => HistoryInv
  <1> SUFFICES ASSUME History!Init PROVE HistoryInv
    OBVIOUS
  <1>1. /\ hiFee \in PremiumFees /\ hiTrades = <<>> /\ hiSettled = <<>> /\ hiHour = 0
        /\ hiEntries = <<>> /\ hiPage = 0 /\ hiPicked = History!NoFilter
        /\ hiColumns = [role |-> "all", result |-> "all"]
    BY DEF History!Init
  <1>2. HistoryIsTyped
    BY <1>1 DEF HistoryIsTyped, History!NoFilter
  <1>3. TradesAreKept /\ SettledOnce /\ EntriesAreOfTrades
    BY <1>1 DEF TradesAreKept, SettledOnce, EntriesAreOfTrades
  <1>4. FiltersAgree /\ History!PageExists
    BY <1>1 DEF FiltersAgree, History!PageExists, History!NoFilter
  <1>5. QED
    BY <1>2, <1>3, <1>4 DEF HistoryInv

(* The table has a row for every entry its filters let pass.               *)
LEMMA RowCount ==
  ASSUME HistoryIsTyped
  PROVE  /\ IsFiniteSet(History!Filtered) /\ Cardinality(History!Filtered) \in Nat
         /\ Len(History!Rows) = Cardinality(History!Filtered)
  <1> DEFINE S == {hiEntries[k] : k \in DOMAIN hiEntries}
             f == [k \in DOMAIN hiEntries |-> hiEntries[k]]
  <1>1. IsFiniteSet(DOMAIN hiEntries)
    <2>1. DOMAIN hiEntries = 1 .. Len(hiEntries) /\ Len(hiEntries) \in Int /\ 1 \in Int
      BY DEF HistoryIsTyped
    <2>2. QED
      BY <2>1, FS_Interval
  <1>2. f \in Surjection(DOMAIN hiEntries, S)
    BY DEF Surjection
  <1>3. IsFiniteSet(S)
    <2> HIDE DEF f, S
    <2>1. QED
      BY <1>1, <1>2, FS_Surjection
  <1>4. History!Filtered \subseteq S
    BY DEF History!Filtered, History!ToSet
  <1> HIDE DEF f, S
  <1>5. IsFiniteSet(History!Filtered) /\ Cardinality(History!Filtered) \in Nat
    BY <1>3, <1>4, FS_Subset, FS_CardinalityType
  <1>6. History!Cardinality(History!Filtered) = Cardinality(History!Filtered)
    BY DEF History!Cardinality, Cardinality
  <1>7. DOMAIN History!Rows = 1 .. Cardinality(History!Filtered)
    BY <1>6 DEF History!Rows
  <1>8. QED
    BY <1>5, <1>7

(* Pages are of the rows, whatever order they are in.                      *)
LEMMA PagesStay ==
  ASSUME HistoryIsTyped, HistoryIsTyped', UNCHANGED <<hiEntries, hiPicked, hiColumns>>
  PROVE  History!PageCount' = History!PageCount
  <1>1. History!Filtered' = History!Filtered
    BY DEF History!Filtered, History!Matches, History!InRange
  <1>2. Len(History!Rows) = Cardinality(History!Filtered)
    BY RowCount
  <1>3. (Len(History!Rows) = Cardinality(History!Filtered))'
    BY RowCount, PTL
  <1>4. Len(History!Rows)' = Len(History!Rows)
    BY <1>1, <1>2, <1>3
  <1>5. QED
    BY <1>4 DEF History!PageCount

(* What concerns neither the entries nor the table.                        *)
LEMMA TableRests ==
  ASSUME HistoryInv, HistoryIsTyped', TradesAreKept', SettledOnce', EntriesAreOfTrades',
         UNCHANGED <<hiEntries, hiPicked, hiColumns, hiPage>>
  PROVE  HistoryInv'
  <1>1. History!PageCount' = History!PageCount
    BY PagesStay DEF HistoryInv
  <1>2. QED
    BY <1>1 DEF HistoryInv, FiltersAgree, History!PageExists

(* What concerns the table alone.                                          *)
LEMMA TableMoves ==
  ASSUME HistoryInv, UNCHANGED <<hiFee, hiTrades, hiSettled, hiHour, hiEntries>>,
         DOMAIN hiPicked' = DOMAIN hiPicked, DOMAIN hiColumns' = DOMAIN hiColumns,
         hiPage' = 0, FiltersAgree'
  PROVE  HistoryInv'
  BY DEF HistoryInv, HistoryIsTyped, TradesAreKept, SettledOnce, EntriesAreOfTrades,
     History!PageExists

(* Shares of an amount are numbers.                                        *)
LEMMA ShareIsNumber ==
  ASSUME NEW a \in Nat, NEW bps \in Nat
  PROVE  History!Share(a, bps) \in Nat
  <1>1. a * bps \in Nat
    OBVIOUS
  <1>2. QED
    BY <1>1, WholePart DEF History!Share

(* Deals are of numbers, and so are fees.                                  *)
LEMMA DealsAreOfNumbers ==
  /\ \A d \in Deals : d.quantity \in Nat /\ d.premium \in Nat /\ d.strike \in Nat
  /\ PremiumFees \subseteq Nat /\ PremiumFees # {} /\ Roles \subseteq Sides
  /\ Collects \subseteq BOOLEAN /\ 0 \notin Prices
  <1>1. Deals \subseteq [quantity : Nat, premium : Nat, strike : Nat]
    BY MarketsAssumption DEF History!TradeHistoryAssumption
  <1>2. ASSUME NEW bps \in PremiumFees PROVE bps \in Nat
    <2>1. bps \in 0 .. 10000
      BY MarketsAssumption, SMT DEF History!TradeHistoryAssumption
    <2>2. QED
      BY <2>1, SMT
  <1>3. PremiumFees # {}
    BY MarketsAssumption DEF History!TradeHistoryAssumption
  <1>4. Roles \subseteq Sides
    BY MarketsAssumption DEF History!TradeHistoryAssumption, Sides
  <1>5. Collects \subseteq BOOLEAN
    BY MarketsAssumption DEF History!TradeHistoryAssumption
  <1>6. 0 \notin Prices
    BY MarketsAssumption DEF History!TradeHistoryAssumption
  <1>7. QED
    BY <1>1, <1>2, <1>3, <1>4, <1>5, <1>6

(* A sale: the writer gets the premium less the fee.                       *)
LEMMA SellKeeps ==
  ASSUME HistoryInv, NEW role \in Roles, NEW d \in Deals, NEW collected \in Collects,
         History!Sell(role, d, collected)
  PROVE  HistoryInv'
  <1> DEFINE toWriter == d.premium - History!Share(d.premium, hiFee)
             paid == IF collected THEN d.premium ELSE toWriter
             n == Len(hiTrades)
             new == [role |-> role, deal |-> d, paid |-> paid, fee |-> hiFee,
                     collected |-> collected, price |-> 0, payout |-> 0, at |-> 0,
                     gain |-> [buyer |-> -paid, writer |-> toWriter - d.quantity]]
  <1>1. /\ hiTrades' = Append(hiTrades, new)
        /\ UNCHANGED <<hiFee, hiSettled, hiHour, hiEntries, hiPicked, hiColumns, hiPage>>
    BY DEF History!Sell, History!table
  <1>2. /\ d.quantity \in Nat /\ d.premium \in Nat /\ hiFee \in Nat /\ hiFee \in PremiumFees
        /\ role \in Sides /\ collected \in BOOLEAN
    BY DealsAreOfNumbers DEF HistoryInv, HistoryIsTyped
  <1>3. toWriter \in Int
    <2>1. History!Share(d.premium, hiFee) \in Nat
      BY <1>2, ShareIsNumber
    <2>2. QED
      BY <1>2, <2>1
  <1>4. paid \in Int
    <2> HIDE DEF toWriter
    <2>1. QED
      BY <1>2, <1>3
  <1>5. /\ new \in Trades /\ new.price = 0 /\ new.collected = collected /\ new.deal = d
        /\ new.fee = hiFee /\ new.paid = paid /\ new.gain.buyer = -paid
        /\ new.gain.writer = toWriter - d.quantity
    <2> HIDE DEF toWriter, paid
    <2>1. QED
      BY <1>2, <1>3, <1>4 DEF Trades
  <1>6. hiTrades \in Seq(Trades) /\ n \in Nat /\ DOMAIN hiTrades = 1 .. n
    BY DEF HistoryInv, HistoryIsTyped
  <1>7. /\ new.paid = IF new.collected THEN new.deal.premium ELSE toWriter
        /\ new.gain.buyer = 0 - new.paid /\ new.gain.writer = 0 + (toWriter - new.deal.quantity)
        /\ toWriter = new.deal.premium - History!Share(new.deal.premium, new.fee)
    <2>1. toWriter = new.deal.premium - History!Share(new.deal.premium, new.fee)
      BY <1>5
    <2> HIDE DEF new, toWriter
    <2>2. QED
      BY <1>2, <1>3, <1>4, <1>5, <2>1
  <1> HIDE DEF new, toWriter, paid
  <1>8. /\ hiTrades' \in Seq(Trades) /\ DOMAIN hiTrades' = 1 .. n + 1 /\ hiTrades'[n + 1] = new
        /\ \A i \in DOMAIN hiTrades : hiTrades'[i] = hiTrades[i]
    BY <1>1, <1>5, <1>6
  <1>9. \A i \in DOMAIN hiTrades' : i \in DOMAIN hiTrades \/ i = n + 1
    BY <1>6, <1>8
  <1>10. HistoryIsTyped'
    BY <1>1, <1>8 DEF HistoryInv, HistoryIsTyped
  <1>11. TradesAreKept'
    BY <1>5, <1>7, <1>8, <1>9 DEF HistoryInv, TradesAreKept
  <1>12. SettledOnce' /\ EntriesAreOfTrades'
    <2>1. \A i \in DOMAIN hiTrades : i \in DOMAIN hiTrades'
      BY <1>6, <1>8
    <2>2. QED
      BY <1>1, <1>8, <2>1 DEF HistoryInv, SettledOnce, EntriesAreOfTrades
  <1>13. QED
    BY <1>1, <1>10, <1>11, <1>12, TableRests

(* A trade is settled, once.                                               *)
LEMMA SettleKeeps ==
  ASSUME HistoryInv, NEW i \in DOMAIN hiTrades, NEW price \in Prices, History!Settle(i, price)
  PROVE  HistoryInv'
  <1> DEFINE t == hiTrades[i]
             share == History!Division(t.deal, price)
             new == [t EXCEPT !.price = price, !.at = hiHour, !.payout = share[t.role],
                              !.gain = [r \in DOMAIN t.gain |-> t.gain[r] + share[r]]]
  <1>1. /\ t.price = 0
        /\ hiTrades' = [hiTrades EXCEPT ![i].price = price, ![i].at = hiHour,
                         ![i].payout = share[t.role],
                         ![i].gain = [r \in DOMAIN @ |-> @[r] + share[r]]]
        /\ hiSettled' = Append(hiSettled, i)
        /\ UNCHANGED <<hiFee, hiHour, hiEntries, hiPicked, hiColumns, hiPage>>
    BY DEF History!Settle, History!table
  <1>2. /\ hiTrades \in Seq(Trades) /\ t \in Trades /\ hiHour \in Nat
        /\ DOMAIN hiTrades = 1 .. Len(hiTrades) /\ Len(hiTrades) \in Nat
        /\ hiSettled \in Seq(Nat) /\ DOMAIN hiSettled = 1 .. Len(hiSettled) /\ Len(hiSettled) \in Nat
    BY DEF HistoryInv, HistoryIsTyped
  <1>3. /\ DOMAIN hiTrades' = DOMAIN hiTrades
        /\ \A j \in DOMAIN hiTrades : hiTrades'[j] = IF j = i THEN new ELSE hiTrades[j]
    BY <1>1
  <1>4. /\ share.buyer \in Int /\ share.writer \in Int
    <2>1. t.deal \in Deals
      BY <1>2 DEF Trades
    <2>2. QED
      BY <2>1, DivisionIsOfNumbers
  <1>5. /\ new.role = t.role /\ new.deal = t.deal /\ new.paid = t.paid /\ new.fee = t.fee
        /\ new.collected = t.collected /\ new.price = price /\ new.at = hiHour
        /\ new.payout = share[t.role] /\ new.gain = [r \in DOMAIN t.gain |-> t.gain[r] + share[r]]
        /\ DOMAIN new = DOMAIN t
    <2> HIDE DEF share
    <2>1. QED
      BY <1>2 DEF Trades
  <1>6. /\ t.role \in Sides /\ t.gain \in [buyer : Int, writer : Int] /\ t.deal \in Deals
        /\ t.paid \in Int /\ t.fee \in PremiumFees /\ t.collected \in BOOLEAN
    BY <1>2 DEF Trades
  <1>7. /\ new.gain \in [buyer : Int, writer : Int]
        /\ new.gain.buyer = t.gain.buyer + share.buyer
        /\ new.gain.writer = t.gain.writer + share.writer
        /\ new.payout = (IF t.role = "buyer" THEN share.buyer ELSE share.writer)
        /\ new.payout \in Int
    <2> HIDE DEF share, t, new
    <2>1. new.gain = [buyer |-> t.gain.buyer + share.buyer, writer |-> t.gain.writer + share.writer]
      BY <1>4, <1>5, <1>6
    <2>2. QED
      BY <1>4, <1>5, <1>6, <2>1 DEF Sides
  <1>8. new \in Trades
    <2> DEFINE gain == new.gain
               payout == share[t.role]
    <2>1. new = [t EXCEPT !.price = price, !.at = hiHour, !.payout = payout, !.gain = gain]
      BY <1>5
    <2>2. gain \in [buyer : Int, writer : Int] /\ payout \in Int
      BY <1>5, <1>7
    <2> HIDE DEF share, t, new, gain, payout
    <2>3. QED
      BY <1>2, <2>1, <2>2 DEF Trades
  <1> HIDE DEF new
  <1>9. HistoryIsTyped'
    <2>1. hiTrades' \in Seq(Trades)
      <3> HIDE DEF t, share
      <3>1. \A j \in 1 .. Len(hiTrades) : hiTrades'[j] \in Trades
        BY <1>2, <1>3, <1>8
      <3>2. hiTrades' = [j \in 1 .. Len(hiTrades) |-> hiTrades'[j]]
        BY <1>1, <1>2
      <3>3. QED
        BY <1>2, <3>1, <3>2
    <2>2. hiSettled' \in Seq(Nat)
      BY <1>1, <1>2
    <2>3. QED
      BY <1>1, <2>1, <2>2 DEF HistoryInv, HistoryIsTyped
  <1>10. TradesAreKept'
    <2>1. ASSUME NEW j \in DOMAIN hiTrades, j # i
          PROVE  hiTrades'[j] = hiTrades[j]
      BY <1>3, <2>1
    <2> DEFINE toWriter == t.deal.premium - History!Share(t.deal.premium, t.fee)
    <2>2. /\ t.paid = IF t.collected THEN t.deal.premium ELSE toWriter
          /\ t.gain.buyer = 0 - t.paid
          /\ t.gain.writer = 0 + (toWriter - t.deal.quantity)
      BY <1>1 DEF HistoryInv, TradesAreKept
    <2>3. toWriter \in Int /\ t.deal.quantity \in Nat
      <3>1. t.deal.premium \in Nat /\ t.deal.quantity \in Nat /\ t.fee \in Nat
        BY <1>6, DealsAreOfNumbers
      <3>2. History!Share(t.deal.premium, t.fee) \in Nat
        BY <3>1, ShareIsNumber
      <3> HIDE DEF t
      <3>3. QED
        BY <3>1, <3>2
    <2>4. new.price # 0
      BY <1>5, DealsAreOfNumbers
    <2>5. /\ share = History!Division(new.deal, new.price)
          /\ toWriter = new.deal.premium - History!Share(new.deal.premium, new.fee)
      BY <1>5
    <2>6. /\ new.paid = IF new.collected THEN new.deal.premium ELSE toWriter
          /\ new.gain.buyer = share.buyer - new.paid
          /\ new.gain.writer = share.writer + (toWriter - new.deal.quantity)
          /\ new.payout = IF new.role = "buyer" THEN share.buyer ELSE share.writer
      <3> HIDE DEF toWriter, share, t
      <3>1. QED
        BY <1>4, <1>5, <1>6, <1>7, <2>2, <2>3
    <2> HIDE DEF toWriter, share, t
    <2>7. QED
      BY <1>3, <2>4, <2>5, <2>6 DEF HistoryInv, TradesAreKept
  <1>11. SettledOnce'
    <2>1. /\ DOMAIN hiSettled' = 1 .. Len(hiSettled) + 1 /\ hiSettled'[Len(hiSettled) + 1] = i
          /\ \A k \in DOMAIN hiSettled : hiSettled'[k] = hiSettled[k]
      <3>1. i \in Nat
        BY <1>2
      <3>2. QED
        BY <1>1, <1>2, <3>1
    <2>2. \A k \in DOMAIN hiSettled' : k \in DOMAIN hiSettled \/ k = Len(hiSettled) + 1
      BY <1>2, <2>1
    <2>3. \A k \in DOMAIN hiSettled : hiSettled[k] # i
      BY <1>1 DEF HistoryInv, SettledOnce
    <2>4. new.price # 0
      BY <1>5, DealsAreOfNumbers
    <2> HIDE DEF t, share
    <2>5. QED
      BY <1>3, <2>1, <2>2, <2>3, <2>4 DEF HistoryInv, SettledOnce
  <1>12. EntriesAreOfTrades'
    <2>1. \A k \in DOMAIN hiEntries : hiEntries[k].id # i
      BY <1>1 DEF HistoryInv, EntriesAreOfTrades
    <2> HIDE DEF t, share
    <2>2. QED
      BY <1>1, <1>3, <2>1 DEF HistoryInv, EntriesAreOfTrades
  <1>13. QED
    BY <1>1, <1>9, <1>10, <1>11, <1>12, TableRests

(* The database is read: of the settled trades the first ones, newest      *)
(* first.                                                                  *)
LEMMA FetchKeeps == ASSUME HistoryInv, History!Fetch PROVE HistoryInv'
  <1>1. PICK n \in Len(hiEntries) .. Len(hiSettled) :
          /\ hiEntries' = History!Reverse([k \in 1 .. n |-> History!Entry(hiSettled[k])])
          /\ hiPage' = IF hiEntries' = hiEntries THEN hiPage ELSE 0
          /\ UNCHANGED <<hiFee, hiTrades, hiSettled, hiHour, hiPicked, hiColumns>>
    BY DEF History!Fetch
  <1>2. /\ n \in Nat /\ n <= Len(hiSettled)
        /\ DOMAIN hiSettled = 1 .. Len(hiSettled) /\ Len(hiSettled) \in Nat
    BY DEF HistoryInv, HistoryIsTyped
  <1> DEFINE s == [k \in 1 .. n |-> History!Entry(hiSettled[k])]
  <1>3. Len(s) = n
    <2> DEFINE e(k) == History!Entry(hiSettled[k])
    <2> HIDE DEF e
    <2>1. Len([k \in 1 .. n |-> e(k)]) = n
      BY <1>2
    <2>2. QED
      BY <2>1 DEF e
  <1>4. hiEntries' = [i \in 1 .. n |-> s[(n - i) + 1]]
    BY <1>1, <1>3 DEF History!Reverse
  <1>5. DOMAIN hiEntries' = 1 .. n /\ Len(hiEntries') = n
    <2> HIDE DEF s
    <2>1. QED
      BY <1>2, <1>4
  <1>6. \A k \in 1 .. n : (n - k) + 1 \in 1 .. n /\ hiEntries'[k] = History!Entry(hiSettled[(n - k) + 1])
    <2>1. \A k \in 1 .. n : (n - k) + 1 \in 1 .. n
      BY <1>2
    <2>2. \A k \in 1 .. n : s[k] = History!Entry(hiSettled[k])
      OBVIOUS
    <2> HIDE DEF s
    <2>3. QED
      BY <1>4, <2>1, <2>2
  <1>7. \A i : LET t == hiTrades[i] IN
          /\ History!Entry(i).id = i /\ History!Entry(i).role = t.role
          /\ History!Entry(i).pnl =
               History!CalculatePnl(t.role, History!NetPremium(t.paid, hiFee, t.role),
                                    t.payout, t.deal.quantity)
          /\ History!Entry(i).fee = hiFee
          /\ History!Entry(i).result \in {"profit", "loss", "breakeven"}
    BY DEF History!Entry, History!TradeResult
  <1>8. \A k \in 1 .. n : k \in DOMAIN hiSettled
    BY <1>2
  <1>9. EntriesAreOfTrades'
    <2>1. ASSUME NEW k \in 1 .. n, NEW m \in 1 .. n, hiEntries'[k].id = hiEntries'[m].id
          PROVE  k = m
      <3>1. hiSettled[(n - k) + 1] = hiSettled[(n - m) + 1]
        BY <1>6, <1>7, <2>1
      <3>2. (n - k) + 1 = (n - m) + 1
        BY <1>6, <1>8, <3>1 DEF HistoryInv, SettledOnce
      <3>3. QED
        BY <1>2, <3>2
    <2>2. ASSUME NEW k \in 1 .. n
          PROVE  LET e == hiEntries'[k]  t == hiTrades[e.id] IN
                 /\ e.id \in DOMAIN hiTrades /\ t.price # 0 /\ e.role = t.role
                 /\ e.pnl = History!CalculatePnl(t.role, History!NetPremium(t.paid, e.fee, t.role),
                                                 t.payout, t.deal.quantity)
                 /\ e.result \in {"profit", "loss", "breakeven"}
      <3> DEFINE i == hiSettled[(n - k) + 1]
      <3>1. i \in DOMAIN hiTrades /\ hiTrades[i].price # 0
        BY <1>6, <1>8 DEF HistoryInv, SettledOnce
      <3>2. hiEntries'[k] = History!Entry(i)
        BY <1>6
      <3> HIDE DEF i
      <3>3. QED
        BY <1>7, <3>1, <3>2
    <2>3. QED
      BY <1>1, <1>5, <2>1, <2>2 DEF EntriesAreOfTrades
  <1>10. HistoryIsTyped'
    BY <1>1, <1>2, <1>5 DEF HistoryInv, HistoryIsTyped
  <1>11. CASE hiEntries' = hiEntries
    <2>1. TradesAreKept' /\ SettledOnce'
      BY <1>1 DEF HistoryInv, TradesAreKept, SettledOnce
    <2>2. QED
      BY <1>1, <1>9, <1>10, <1>11, <2>1, TableRests
  <1>12. CASE hiEntries' # hiEntries
    <2>1. hiPage' = 0
      BY <1>1, <1>12
    <2>2. QED
      BY <1>1, <1>9, <1>10, <2>1 DEF HistoryInv, TradesAreKept, SettledOnce, FiltersAgree,
         History!PageExists
  <1>13. QED
    BY <1>11, <1>12

(* A page is turned to, if it exists.                                      *)
LEMMA TurnKeeps ==
  ASSUME HistoryInv, NEW p \in Nat, History!TurnTo(p)
  PROVE  HistoryInv'
  <1>1. /\ p \in 0 .. (History!PageCount - 1) /\ hiPage' = p
        /\ UNCHANGED <<hiFee, hiTrades, hiSettled, hiHour, hiEntries, hiPicked, hiColumns>>
    BY DEF History!TurnTo
  <1>2. HistoryIsTyped' /\ TradesAreKept' /\ SettledOnce' /\ EntriesAreOfTrades' /\ FiltersAgree'
    BY <1>1 DEF HistoryInv, HistoryIsTyped, TradesAreKept, SettledOnce, EntriesAreOfTrades,
       FiltersAgree
  <1>3. History!PageCount' = History!PageCount
    BY <1>1, <1>2, PagesStay DEF HistoryInv
  <1>4. p < History!PageCount
    <2>1. Len(History!Rows) \in Nat
      BY RowCount DEF HistoryInv
    <2>2. PageSize \in Nat \ {0}
      BY MarketsAssumption DEF History!TradeHistoryAssumption
    <2>3. History!PageCount \in Nat
      <3> DEFINE n == Len(History!Rows)
      <3>1. History!PageCount = (n + PageSize - 1) \div PageSize
        BY DEF History!PageCount
      <3>2. n \in Nat
        BY <2>1
      <3> HIDE DEF n
      <3>3. n + PageSize - 1 \in Nat
        BY <2>2, <3>2
      <3>4. QED
        BY <2>2, <3>1, <3>3, WholePart
    <2>4. QED
      BY <1>1, <2>3
  <1>5. QED
    BY <1>1, <1>2, <1>3, <1>4 DEF HistoryInv, History!PageExists

(* The fee and the hour concern no entry.                                  *)
LEMMA OutsideKeeps ==
  ASSUME HistoryInv, History!Tick \/ \E bps \in PremiumFees : History!SetFee(bps)
  PROVE  HistoryInv'
  <1>1. /\ UNCHANGED <<hiTrades, hiSettled, hiEntries, hiPicked, hiColumns, hiPage>>
        /\ hiFee' \in PremiumFees /\ hiHour' \in Nat
    BY DEF History!Tick, History!SetFee, History!table, HistoryInv, HistoryIsTyped
  <1>2. HistoryIsTyped' /\ TradesAreKept' /\ SettledOnce' /\ EntriesAreOfTrades'
    BY <1>1 DEF HistoryInv, HistoryIsTyped, TradesAreKept, SettledOnce, EntriesAreOfTrades
  <1>3. QED
    BY <1>1, <1>2, TableRests

(* What the user does with the filters and the order takes the table back  *)
(* to its first page.                                                      *)
LEMMA FiltersKeep ==
  ASSUME HistoryInv,
         \/ \E r \in RoleChoices : History!PickRole(r)
         \/ \E r \in ResultChoices : History!PickResult(r)
         \/ \E from, to : History!PickDays(from, to)
         \/ History!ClearFilters
         \/ \E c \in SortColumns : History!ToggleSort(c)
  PROVE  HistoryInv'
  <1>1. UNCHANGED <<hiFee, hiTrades, hiSettled, hiHour, hiEntries>> /\ hiPage' = 0
    BY DEF History!PickRole, History!PickResult, History!PickDays, History!ClearFilters,
       History!ToggleSort
  <1>2. DOMAIN hiPicked = {"role", "result", "from", "to"} /\ DOMAIN hiColumns = {"role", "result"}
        /\ hiColumns.role = hiPicked.role /\ hiColumns.result = hiPicked.result
    BY DEF HistoryInv, HistoryIsTyped, FiltersAgree
  <1>3. DOMAIN hiPicked' = DOMAIN hiPicked /\ DOMAIN hiColumns' = DOMAIN hiColumns /\ FiltersAgree'
    <2>1. CASE \E r : History!PickRole(r)
      BY <1>2, <2>1 DEF History!PickRole, FiltersAgree
    <2>2. CASE \E r : History!PickResult(r)
      BY <1>2, <2>2 DEF History!PickResult, FiltersAgree
    <2>3. CASE \E from, to : History!PickDays(from, to)
      BY <1>2, <2>3 DEF History!PickDays, FiltersAgree
    <2>4. CASE History!ClearFilters
      BY <1>2, <2>4 DEF History!ClearFilters, History!NoFilter, FiltersAgree
    <2>5. CASE \E c \in SortColumns : History!ToggleSort(c)
      BY <1>2, <2>5 DEF History!ToggleSort, FiltersAgree
    <2>6. QED
      BY <2>1, <2>2, <2>3, <2>4, <2>5
  <1>4. QED
    BY <1>1, <1>3, TableMoves

(* Every step keeps it.                                                    *)
LEMMA HistoryStep == HistoryInv /\ [History!Next]_hiVars => HistoryInv'
  <1> SUFFICES ASSUME HistoryInv, [History!Next]_hiVars PROVE HistoryInv'
    OBVIOUS
  <1>1. CASE \E role \in Roles, d \in Deals, c \in Collects : History!Sell(role, d, c)
    BY <1>1, SellKeeps
  <1>2. CASE \E i \in DOMAIN hiTrades, p \in Prices : History!Settle(i, p)
    BY <1>2, SettleKeeps
  <1>3. CASE History!Fetch
    BY <1>3, FetchKeeps
  <1>4. CASE History!Tick \/ \E bps \in PremiumFees : History!SetFee(bps)
    BY <1>4, OutsideKeeps
  <1>5. CASE \/ \E r \in RoleChoices : History!PickRole(r)
             \/ \E r \in ResultChoices : History!PickResult(r)
             \/ \E from, to : History!PickDays(from, to)
             \/ History!ClearFilters
             \/ \E c \in SortColumns : History!ToggleSort(c)
    BY <1>5, FiltersKeep
  <1>6. CASE \E p \in 0 .. MaxTrades : History!TurnTo(p)
    <2>1. MaxTrades \in Nat
      BY MarketsAssumption DEF History!TradeHistoryAssumption
    <2>2. \A p \in 0 .. MaxTrades : p \in Nat
      BY <2>1
    <2>3. QED
      BY <1>6, <2>2, TurnKeeps
  <1>7. CASE UNCHANGED hiVars
    <2>1. UNCHANGED <<hiFee, hiTrades, hiSettled, hiHour, hiEntries, hiPicked, hiColumns, hiPage>>
      BY <1>7 DEF hiVars
    <2>2. HistoryIsTyped' /\ TradesAreKept' /\ SettledOnce' /\ EntriesAreOfTrades'
      BY <2>1 DEF HistoryInv, HistoryIsTyped, TradesAreKept, SettledOnce, EntriesAreOfTrades
    <2>3. QED
      BY <2>1, <2>2, TableRests
  <1>8. QED
    BY <1>1, <1>2, <1>3, <1>4, <1>5, <1>6, <1>7 DEF History!Next

(* An entry tells what its trade did to the user's balance.                *)
LEMMA EntriesAreTrue ==
  ASSUME HistoryInv
  PROVE  History!PnlIsWhatItDid
  <1> SUFFICES ASSUME NEW k \in DOMAIN hiEntries,
                      LET e == hiEntries[k] IN
                      e.role = "buyer" \/ (hiTrades[e.id].collected /\ hiTrades[e.id].fee = e.fee)
               PROVE  hiEntries[k].pnl = hiTrades[hiEntries[k].id].gain[hiEntries[k].role]
    BY DEF History!PnlIsWhatItDid
  <1> DEFINE e == hiEntries[k]
             t == hiTrades[e.id]
             toWriter == t.deal.premium - History!Share(t.deal.premium, t.fee)
             share == History!Division(t.deal, t.price)
  <1>1. /\ e.id \in DOMAIN hiTrades /\ t.price # 0 /\ e.role = t.role
        /\ e.pnl = History!CalculatePnl(t.role, History!NetPremium(t.paid, e.fee, t.role),
                                        t.payout, t.deal.quantity)
    BY DEF HistoryInv, EntriesAreOfTrades
  <1>2. /\ t.role \in Sides /\ t.deal \in Deals /\ t.fee \in PremiumFees /\ t.paid \in Int
        /\ t.price \in Prices
    <2>1. t \in Trades
      BY <1>1 DEF HistoryInv, HistoryIsTyped
    <2> HIDE DEF t
    <2>2. QED
      BY <1>1, <2>1 DEF Trades
  <1>3. /\ t.paid = IF t.collected THEN t.deal.premium ELSE toWriter
        /\ t.gain.buyer = share.buyer - t.paid
        /\ t.gain.writer = share.writer + (toWriter - t.deal.quantity)
        /\ t.payout = IF t.role = "buyer" THEN share.buyer ELSE share.writer
    BY <1>1 DEF HistoryInv, TradesAreKept
  <1>4. share.buyer \in Int /\ share.writer \in Int /\ t.deal.quantity \in Nat /\ t.deal.premium \in Nat
    BY <1>2, DivisionIsOfNumbers
  <1>5. History!Share(t.deal.premium, t.fee) \in Nat
    <2>1. t.fee \in Nat
      BY <1>2, DealsAreOfNumbers
    <2>2. QED
      BY <1>4, <2>1, ShareIsNumber
  <1>6. e.role = "buyer" \/ (t.collected /\ t.fee = e.fee)
    OBVIOUS
  <1>7. e.pnl = IF t.role = "buyer" THEN t.payout - t.paid
                ELSE t.payout + (t.paid - History!Share(t.paid, e.fee)) - t.deal.quantity
    BY <1>1 DEF History!CalculatePnl, History!NetPremium
  <1>8. toWriter = t.deal.premium - History!Share(t.deal.premium, t.fee)
    OBVIOUS
  <1> HIDE DEF e, t, share, toWriter
  <1>9. CASE t.role = "buyer"
    <2>1. e.pnl = t.gain.buyer
      BY <1>3, <1>7, <1>9
    <2>2. QED
      BY <1>1, <1>9, <2>1 DEF e, t
  <1>10. CASE t.role = "writer"
    <2> DEFINE fee == History!Share(t.deal.premium, t.fee)
    <2>1. t.paid = t.deal.premium /\ e.fee = t.fee
      BY <1>1, <1>3, <1>6, <1>10
    <2>2. e.pnl = share.writer + (t.deal.premium - fee) - t.deal.quantity
      BY <1>3, <1>7, <1>10, <2>1
    <2>3. t.gain.writer = share.writer + ((t.deal.premium - fee) - t.deal.quantity)
      BY <1>3, <1>8
    <2>4. fee \in Nat
      BY <1>5
    <2> HIDE DEF fee
    <2>5. e.pnl = t.gain.writer
      BY <1>4, <2>2, <2>3, <2>4
    <2>6. QED
      BY <1>1, <1>10, <2>5 DEF e, t
  <1>11. QED
    BY <1>2, <1>9, <1>10 DEF Sides, e, t

(* The table has as many rows as entries pass.                             *)
LEMMA RowsOf ==
  ASSUME HistoryInv, NEW K \in SUBSET DOMAIN hiEntries,
         History!Filtered = {hiEntries[k] : k \in K}
  PROVE  Len(History!Rows) = Cardinality(K)
  <1> DEFINE f == [k \in K |-> hiEntries[k]]
  <1>1. f \in Bijection(K, History!Filtered)
    BY DEF Bijection, Injection, Surjection, IsInjective, HistoryInv, EntriesAreOfTrades
  <1>2. ExistsBijection(K, History!Filtered)
    BY <1>1 DEF ExistsBijection
  <1>3. IsFiniteSet(K)
    <2>1. IsFiniteSet(DOMAIN hiEntries)
      <3>1. DOMAIN hiEntries = 1 .. Len(hiEntries) /\ Len(hiEntries) \in Int /\ 1 \in Int
        BY DEF HistoryInv, HistoryIsTyped
      <3>2. QED
        BY <3>1, FS_Interval
    <2>2. QED
      BY <2>1, FS_Subset
  <1>4. Cardinality(History!Filtered) = Cardinality(K)
    BY <1>2, <1>3, FS_Bijection
  <1>5. QED
    BY <1>4, RowCount DEF HistoryInv

(* The rows are what the header counts.                                    *)
LEMMA RowsAreCounted ==
  ASSUME HistoryInv
  PROVE  History!TableAgreesWithHeader
  <1>1. hiColumns.role = hiPicked.role /\ hiColumns.result = hiPicked.result
    BY DEF HistoryInv, FiltersAgree
  <1>2. ASSUME hiPicked = History!NoFilter
        PROVE  Len(History!Rows) = Len(hiEntries)
    <2>1. hiPicked.from = 0 /\ hiColumns.role = "all" /\ hiColumns.result = "all"
      BY <1>1, <1>2 DEF History!NoFilter
    <2>2. History!Filtered = {hiEntries[k] : k \in DOMAIN hiEntries}
      BY <2>1 DEF History!Filtered, History!ToSet, History!Matches, History!InRange
    <2>3. Len(History!Rows) = Cardinality(DOMAIN hiEntries)
      BY <2>2, RowsOf
    <2>4. DOMAIN hiEntries = 1 .. Len(hiEntries) /\ Len(hiEntries) \in Nat
      BY DEF HistoryInv, HistoryIsTyped
    <2>5. Cardinality(1 .. Len(hiEntries)) = Len(hiEntries)
      <3>1. Len(hiEntries) \in Int /\ 1 \in Int
        BY <2>4
      <3>2. Cardinality(1 .. Len(hiEntries)) =
              IF 1 > Len(hiEntries) THEN 0 ELSE Len(hiEntries) - 1 + 1
        BY <3>1, FS_Interval
      <3>3. QED
        BY <2>4, <3>2
    <2>6. QED
      BY <2>3, <2>4, <2>5
  <1>3. ASSUME hiPicked = [History!NoFilter EXCEPT !.result = "profit"]
        PROVE  Len(History!Rows) = History!Stats.wins
    <2> DEFINE K == {k \in DOMAIN hiEntries : hiEntries[k].result = "profit"}
    <2>1. hiPicked.from = 0 /\ hiColumns.role = "all" /\ hiColumns.result = "profit"
      BY <1>1, <1>3 DEF History!NoFilter
    <2>2. \A k \in DOMAIN hiEntries : hiEntries[k].result # "all"
      BY DEF HistoryInv, EntriesAreOfTrades
    <2>3. History!Filtered = {hiEntries[k] : k \in K}
      BY <2>1, <2>2 DEF History!Filtered, History!ToSet, History!Matches, History!InRange
    <2>4. K \in SUBSET DOMAIN hiEntries
      OBVIOUS
    <2>5. History!Stats.wins = Cardinality(K)
      BY DEF History!Stats, History!Cardinality, Cardinality
    <2> HIDE DEF K
    <2>6. Len(History!Rows) = Cardinality(K)
      BY <2>3, <2>4, RowsOf
    <2>7. QED
      BY <2>5, <2>6
  <1>4. History!Stats.trades = Len(hiEntries)
    BY DEF History!Stats
  <1>5. QED
    BY <1>2, <1>3, <1>4 DEF History!TableAgreesWithHeader, History!HasActiveFilters

(* What the card of an open option shows is what the trade ends with, but  *)
(* for the fees of the user's side and the rounding.                       *)
LEMMA CardsAreTrue ==
  ASSUME HistoryInv
  PROVE  History!CardForetellsHistory
  <1> SUFFICES ASSUME NEW i \in History!Open, NEW p \in Prices
               PROVE  LET t == hiTrades[i]
                          share == History!Division(t.deal, p)
                          final == History!CalculatePnl(t.role,
                                     History!NetPremium(t.paid, hiFee, t.role),
                                     share[t.role], t.deal.quantity)
                          taken == IF t.role = "buyer" THEN share.fee
                                   ELSE History!Min({share.charge,
                                          t.deal.quantity - History!GrossPayout(t.deal, p)})
                      IN  History!CardPnl(t, p) - final - taken \in -1 .. 1
    BY DEF History!CardForetellsHistory
  <1> DEFINE t == hiTrades[i]
             share == History!Division(t.deal, p)
             gross == History!GrossPayout(t.deal, p)
             premium == History!NetPremium(t.paid, hiFee, t.role)
             final == History!CalculatePnl(t.role, premium, share[t.role], t.deal.quantity)
             taken == IF t.role = "buyer" THEN share.fee
                      ELSE History!Min({share.charge, t.deal.quantity - gross})
             rise == History!Max({0, p - t.deal.strike})
             a == t.deal.quantity * rise
             payout == (2 * t.deal.quantity * rise + p) \div (2 * p)
  <1>1. t.role \in Sides /\ t.deal \in Deals /\ t.paid \in Int /\ hiFee \in Nat
    <2>1. t \in Trades
      BY DEF HistoryInv, HistoryIsTyped, History!Open
    <2> HIDE DEF t
    <2>2. QED
      BY <2>1, DealsAreOfNumbers DEF Trades, HistoryInv, HistoryIsTyped
  <1>2. /\ gross \in Nat /\ share.fee \in Int /\ share.charge \in Nat
        /\ share.buyer = gross - share.fee
        /\ share.writer = IF t.deal.quantity - gross - share.charge >= 0
                          THEN t.deal.quantity - gross - share.charge ELSE 0
        /\ t.deal.quantity \in Nat /\ t.deal.strike \in Nat /\ p \in Nat \ {0}
    BY <1>1, DivisionIsOfNumbers
  <1>3. premium \in Int
    <2> DEFINE q == t.paid
    <2>1. premium = IF t.role = "buyer" THEN q ELSE q - (q * hiFee) \div 10000
      BY DEF History!NetPremium, History!Share
    <2>2. q \in Int
      BY <1>1
    <2> HIDE DEF q, t, premium
    <2>3. q * hiFee \in Int
      BY <1>1, <2>2
    <2>4. (q * hiFee) \div 10000 \in Int
      BY <2>3, SMT
    <2>5. QED
      BY <2>1, <2>2, <2>4
  <1>4. rise = IF 0 >= p - t.deal.strike THEN 0 ELSE p - t.deal.strike
    <2>1. p - t.deal.strike \in Int
      BY <1>2
    <2>2. QED
      BY <2>1, OfTwo
  <1>5. payout - gross \in {0, 1} /\ payout \in Int
    <2>1. a \in Nat /\ rise \in Nat
      <3> HIDE DEF rise, t
      <3>1. rise \in Nat
        BY <1>2, <1>4
      <3>2. QED
        BY <1>2, <3>1
    <2>2. payout = (2 * a + p) \div (2 * p)
      <3> DEFINE q == t.deal.quantity
      <3>1. q \in Nat
        BY <1>2
      <3> HIDE DEF q, rise
      <3>2. 2 * q * rise = 2 * (q * rise)
        BY <2>1, <3>1
      <3>3. QED
        BY <3>2 DEF q
    <2>3. (2 * a + p) \div (2 * p) - a \div p \in {0, 1}
      <3> HIDE DEF a
      <3>1. QED
        BY <1>2, <2>1, Rounding
    <2>4. a \div p = gross
      <3>1. CASE p <= t.deal.strike
        <4>1. rise = 0 /\ gross = 0
          BY <1>2, <1>4, <3>1 DEF History!GrossPayout
        <4>2. a = 0
          BY <1>2, <4>1
        <4> HIDE DEF a, gross
        <4>3. 0 \div p = 0
          BY <1>2
        <4>4. QED
          BY <4>1, <4>2, <4>3
      <3>2. CASE p > t.deal.strike
        <4>1. rise = p - t.deal.strike
          BY <1>2, <1>4, <3>2
        <4>2. gross = (t.deal.quantity * (p - t.deal.strike)) \div p
          BY <1>2, <3>2 DEF History!GrossPayout
        <4> HIDE DEF rise, gross
        <4>3. QED
          BY <4>1, <4>2
      <3>3. QED
        BY <1>2, <3>1, <3>2
    <2>5. (2 * a + p) \div (2 * p) \in Nat
      <3> HIDE DEF a
      <3>1. 2 * a + p \in Nat /\ 2 * p \in Nat \ {0}
        BY <1>2, <2>1
      <3>2. QED
        BY <3>1, WholePart
    <2> HIDE DEF a, payout, gross
    <2>6. QED
      BY <2>2, <2>3, <2>4, <2>5
  <1>6. History!CardPnl(t, p) = IF t.role = "buyer" THEN payout - premium ELSE premium - payout
    BY DEF History!CardPnl
  <1>7. final = IF t.role = "buyer" THEN share[t.role] - premium
                ELSE share[t.role] + premium - t.deal.quantity
    BY DEF History!CalculatePnl
  <1>8. History!Min({share.charge, t.deal.quantity - gross}) =
          IF share.charge <= t.deal.quantity - gross THEN share.charge
          ELSE t.deal.quantity - gross
    <2>1. t.deal.quantity - gross \in Int /\ share.charge \in Int
      BY <1>2
    <2>2. QED
      BY <2>1, OfTwo
  <1> DEFINE card == History!CardPnl(t, p)
  <1> SUFFICES card - final - taken \in -1 .. 1
    OBVIOUS
  <1>9. CASE t.role = "buyer"
    <2>1. card = payout - premium /\ final = share.buyer - premium /\ taken = share.fee
      BY <1>6, <1>7, <1>9
    <2> HIDE DEF card, final, taken, payout, premium, share, gross, t
    <2>2. QED
      BY <1>2, <1>3, <1>5, <2>1
  <1>10. CASE t.role = "writer"
    <2>1. /\ card = premium - payout /\ final = share.writer + premium - t.deal.quantity
          /\ taken = IF share.charge <= t.deal.quantity - gross THEN share.charge
                     ELSE t.deal.quantity - gross
      BY <1>6, <1>7, <1>8, <1>10
    <2> DEFINE q == t.deal.quantity
               charge == share.charge
               rest == share.writer
    <2>2. /\ card = premium - payout /\ final = rest + premium - q
          /\ taken = IF charge <= q - gross THEN charge ELSE q - gross
          /\ rest = IF q - gross - charge >= 0 THEN q - gross - charge ELSE 0
          /\ q \in Nat /\ charge \in Nat
      BY <1>2, <2>1
    <2> HIDE DEF card, final, taken, payout, premium, share, gross, t, q, charge, rest
    <2>3. CASE charge <= q - gross
      BY <1>2, <1>3, <1>5, <2>2, <2>3
    <2>4. CASE ~(charge <= q - gross)
      BY <1>2, <1>3, <1>5, <2>2, <2>4
    <2>5. QED
      BY <2>3, <2>4
  <1>11. QED
    BY <1>1, <1>9, <1>10 DEF Sides

(* HistoryIsTrue: the result of an entry is what the trade did to the      *)
(* balances of the user, the card foretells it, the table shows what its   *)
(* header counts, and the page it stands on exists (get-history, pnl.ts,   *)
(* HistoryTable, use-option-card-data).                                    *)
THEOREM HistoryAlwaysTrue == UnionSpec => []HistoryIsTrue
  <1>1. UnionInit => HistoryInv
    BY HistoryInit DEF UnionInit
  <1>2. HistoryInv /\ [UnionNext]_unionVars => HistoryInv'
    BY HistoryStep DEF UnionNext, unionVars
  <1>3. HistoryInv => HistoryIsTrue
    BY EntriesAreTrue, CardsAreTrue, RowsAreCounted DEF HistoryIsTrue, HistoryInv
  <1>4. QED
    BY <1>1, <1>2, <1>3, PTL DEF UnionSpec
=============================================================================
