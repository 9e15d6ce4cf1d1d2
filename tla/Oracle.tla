------------------------------- MODULE Oracle -------------------------------
(***************************************************************************)
(* The price oracle of the canister: oracle/client.rs with the cache of    *)
(* rates in stable memory (storage/xrc_rates.rs) and the two timers of     *)
(* timers.rs that feed it and trim it.                                     *)
(*                                                                         *)
(* A rate is the median of one minute, so its XRC timestamp names it: the  *)
(* cache is a set of timestamps (the price, the decimals and the time of   *)
(* the fetch go with the timestamp).  Time counts units of a few minutes.  *)
(* A call to the XRC is answered, refused, or given up after Wait units;   *)
(* everything between two answers is one step.                             *)
(***************************************************************************)
EXTENDS Integers, FiniteSets, FiniteSetsExt

CONSTANTS Accepts,      \* accepts that ask for a price
          Settlements,  \* options of one expiry, settled one by one
          Snapshots,    \* the snapshot timer
          Expiry,       \* the hour at which the options expire
          Window,       \* PRICE_TIMESTAMP_MAX_DISTANCE_30_MINUTES_SECS
          MaxAttempts,  \* XRC_FRESH_PRICE_MAX_ATTEMPTS
          Wait,         \* how long a bounded-wait call lasts at most
          Kept,         \* ONE_WEEK_SECS: how long a rate is kept
          Horizon,      \* bound on the time that passes
          None

Calls == Accepts \union Settlements \union Snapshots
Times == 0..Horizon

ASSUME OracleAssumption ==
    /\ Expiry \in Nat /\ Window \in Nat /\ Horizon \in Nat
    /\ MaxAttempts \in Nat \ {0} /\ Wait \in Nat /\ Kept \in Nat
    /\ MaxAttempts * Wait <= Window     \* five waits of five minutes
    /\ Window < Kept
    /\ None \notin Nat
    /\ Accepts \cap Settlements = {} /\ Snapshots \cap (Accepts \union Settlements) = {}

VARIABLES now,     \* current_time_seconds()
          rates,   \* XRC_BTC_USD_RATES
          calls    \* what each call is waiting for and what it was answered

vars == <<now, rates, calls>>

Idle == [at |-> "idle", asked |-> 0, sent |-> 0, attempt |-> 0,
         answer |-> None, answered |-> 0]

Init ==
    /\ now = 0
    /\ rates = {}
    /\ calls = [c \in Calls |-> Idle]

Dist(r, t) == IF r < t THEN t - r ELSE r - t

(* is_xrc_timestamp_within_seconds *)
Within(r, t) == Dist(r, t) <= Window

(* The moment a call wants a price for. *)
Target(c) == IF c \in Settlements THEN Expiry ELSE calls[c].asked

(* get_nearest_xrc_btc_usd_rate_within_seconds, also
   choose_closest_rate_to_timestamp: the earlier of two that are as near. *)
Nearest(S, t) ==
    LET near == {r \in S : Within(r, t)} IN
    IF near = {} THEN None
    ELSE CHOOSE r \in near : \A q \in near :
            Dist(r, t) < Dist(q, t) \/ (Dist(r, t) = Dist(q, t) /\ r <= q)

(* Fault: the first rate of the window. *)
AnyNear(S, t) ==
    LET near == {r \in S : Within(r, t)} IN IF near = {} THEN None ELSE Min(near)

(* get_current_cached_xrc_btc_usd_rate: the latest rate, if it is near. *)
Latest(S, t) == IF S = {} THEN None
                ELSE IF Within(Max(S), t) THEN Max(S) ELSE None

(* A call has its answer; the timer's does nothing with it and comes again. *)
Done(c, r) ==
    calls' = [calls EXCEPT ![c] =
        IF c \in Snapshots THEN Idle
        ELSE [Idle EXCEPT !.at = "done", !.asked = calls[c].asked,
                          !.answer = r, !.answered = now]]

Waiting == {c \in Calls : calls[c].at \in {"historical", "current"}}

(* A call starts: settlement with a historical request, the others with a
   current one. *)
Ask(c) ==
    /\ calls[c].at = "idle"
    /\ c \in Settlements => now >= Expiry
    /\ calls' = [calls EXCEPT
          ![c].at = IF c \in Settlements THEN "historical" ELSE "current",
          ![c].asked = now, ![c].sent = now]
    /\ UNCHANGED <<now, rates>>

(* get_settlement_btc_usd_price_cents: the rate at expiry is stored and is
   the answer; without it the current rate is asked for. *)
Historical(c) ==
    /\ calls[c].at = "historical"
    /\ \/ rates' = rates \union {Expiry} /\ Done(c, Expiry)
       \/ /\ calls' = [calls EXCEPT ![c].at = "current", ![c].sent = now]
          /\ UNCHANGED rates
    /\ UNCHANGED now

(* Fault: settlement takes the current rate without looking at the cache. *)
CurrentAnsweredFreshFirst(c) ==
    /\ calls[c].at = "current"
    /\ \E r \in calls[c].sent..now :
         /\ Within(r, Target(c))
         /\ rates' = rates \union {r}
         /\ Done(c, r)
    /\ UNCHANGED now

(* A current rate, of a moment since the request, is stored if it is near
   the target.  Settlement takes the nearest of it and the cache. *)
CurrentAnswered(c) ==
    /\ calls[c].at = "current"
    /\ \E r \in calls[c].sent..now :
         /\ Within(r, Target(c))
         /\ rates' = rates \union {r}
         /\ Done(c, IF c \in Settlements THEN Nearest(rates', Expiry) ELSE r)
    /\ UNCHANGED now

(* How often a call tries. *)
Attempts(c) == IF c \in Snapshots THEN 1 ELSE MaxAttempts

(* An attempt fails: an error, a lost answer, or a rate too far from the
   target.  The call tries again at once, up to its last attempt. *)
Retry(c) ==
    /\ calls[c].at = "current"
    /\ calls[c].attempt + 1 < Attempts(c)
    /\ calls' = [calls EXCEPT ![c].attempt = @ + 1, ![c].sent = now]
    /\ UNCHANGED <<now, rates>>

(* The last attempt failed: an accept falls back on the latest rate near the
   time it asked, a settlement on the nearest to expiry; else the error. *)
FallBack(c) ==
    /\ calls[c].at = "current"
    /\ calls[c].attempt + 1 = Attempts(c)
    /\ Done(c, CASE c \in Accepts     -> Latest(rates, calls[c].asked)
                 [] c \in Settlements -> Nearest(rates, Expiry)
                 [] OTHER             -> None)
    /\ UNCHANGED <<now, rates>>

(* cleanup_old_xrc_btc_usd_rates: rates older than a week go. *)
Cleanup ==
    /\ rates' = {r \in rates : r >= now - Kept}
    /\ rates' # rates
    /\ UNCHANGED <<now, calls>>

(* Time passes; no call waits longer than Wait. *)
Tick ==
    /\ now < Horizon
    /\ \A c \in Waiting : now - calls[c].sent < Wait
    /\ now' = now + 1
    /\ UNCHANGED <<rates, calls>>

Reply(c) == Historical(c) \/ CurrentAnswered(c) \/ Retry(c) \/ FallBack(c)

Next ==
    \/ \E c \in Calls : Ask(c) \/ Reply(c)
    \/ Cleanup
    \/ Tick

Spec == Init /\ [][Next]_vars

-----------------------------------------------------------------------------
(* Each call is somewhere on its way, and the cache holds moments that have
   been. *)
TypeOK ==
    /\ now \in Times
    /\ rates \subseteq 0..now
    /\ calls \in [Calls -> [at : {"idle", "historical", "current", "done"},
                            asked : Times, sent : Times, attempt : 0..MaxAttempts - 1,
                            answer : Times \union {None}, answered : Times]]

Answered(c) == calls[c].at # "done" /\ calls'[c].at = "done"

(* Options of one expiry are settled one by one, some from the fallback:
   once one has been priced every later one is, and by a rate at least as
   near to the expiry, as long as no rate of the window is a week old. *)
LaterPricesAreNoWorse ==
    [][\A s, e \in Settlements :
         (/\ Answered(s) /\ calls[e].at = "done" /\ calls[e].answer # None
          /\ now <= Expiry - Window + Kept)
         => /\ calls'[s].answer # None
            /\ Dist(calls'[s].answer, Expiry) <= Dist(calls[e].answer, Expiry)]_vars

(* The price of an accept is the newest the canister knows up to the moment
   the buyer asked, or newer, whatever other calls store meanwhile. *)
AcceptUsesTheNewest ==
    [][\A c \in Accepts : Answered(c) /\ calls'[c].answer # None =>
         \A r \in rates : r <= calls[c].asked => r <= calls'[c].answer]_vars

(* With the cache as a fallback and every wait run out, the price of an
   accept is at most a window and the waits old when the accept goes on. *)
AcceptIsRecent ==
    \A c \in Accepts : calls[c].answer # None =>
        calls[c].answered - calls[c].answer <= Window + MaxAttempts * Wait

(* An accept goes on with the newest price to be had, and no older one than
   that. *)
AcceptsArePricedWell == AcceptUsesTheNewest /\ []AcceptIsRecent

(* The price an accept goes on with is within the window of that moment.  It
   is not: the moment is read before the attempts. *)
AcceptIsFresh ==
    \A c \in Accepts : calls[c].answer # None =>
        calls[c].answered - calls[c].answer <= Window

(* Only the price at expiry counts.  It does not: the fallback may be half an
   hour away. *)
PriceIsAtExpiry == \A s \in Settlements : calls[s].answer \in {None, Expiry}
=============================================================================
