-------------------------- MODULE SettlementProofs --------------------------
(***************************************************************************)
(* Theorems about Settlement, for every finite set of options, all users,  *)
(* quantities, strikes, prices and fees.                                   *)
(*                                                                         *)
(* The argument.  What is said of one option (its records, its entry, the  *)
(* calls that can be on their way and what the ledger can have executed)   *)
(* is kept by a step because a step touches one option; what is said of    *)
(* the balances, because the sums over a user's options change by what the *)
(* touched option's terms change by (SumProofs).  The stages of a run are  *)
(* computed first: a message of the canister comes to one of eight effects *)
(* (Lapses, Agrees, ...), and on those rest the invariant, the fixed terms *)
(* and the refinement of OptionPayout alike.                               *)
(***************************************************************************)
EXTENDS Settlement, SumProofs

(* The entry of a settlement divides the collateral, and what it leaves    *)
(* the writer pays the transfers; a run stops only where there is          *)
(* something to be transferred.                                            *)
EntryOf(o) ==
  /\ option[o] \in {"Active", "Settled"} => journal[o] = NoEntry
  /\ option[o] = "Settling" =>
       /\ journal[o].toBuyer + journal[o].toWriter <= Quantity[o]
       /\ TransferFees(o, Job(o)) <= journal[o].toWriter
  /\ journal[o].phase = "Started" => ToBuyer(Job(o)) > 0
  /\ journal[o].phase = "BalanceReleased" => Profit(o, Job(o)) > 0

EntriesDivide == \A o \in Options : EntryOf(o)

(* Only the transfer of the current phase can be awaited or on its way,    *)
(* and it no longer is when its answer is there.                           *)
PhaseOf(t) == IF t = "buyer" THEN "Started" ELSE "BalanceReleased"

CallsOf(o) ==
  /\ at[o] # "idle" => journal[o].phase = PhaseOf(at[o])
  /\ \A t \in Transfers : <<o, t>> \in net => journal[o].phase = PhaseOf(t)
  /\ reply[o] # "none" => at[o] # "idle" /\ <<o, at[o]>> \notin net

CallsFitPhase == \A o \in Options : CallsOf(o)

(* What the ledger has executed for a settlement: the phase tells, but for *)
(* the transfer of that phase, which may not have been heard of.           *)
EffectsOf(o) ==
  /\ option[o] = "Active" => \A t \in Transfers : <<o, t>> \notin executed
  /\ journal[o].phase = "Started" => <<o, "fee">> \notin executed
  /\ journal[o].phase = "BalanceReleased" =>
       (<<o, "buyer">> \in executed <=> ToBuyer(Job(o)) > 0)
  /\ reply[o] = "ok" => <<o, at[o]>> \in executed

EffectsFitPhase == \A o \in Options : EffectsOf(o)

(* The sums of CollateralIsKept and BooksMatchLedger, over all options of  *)
(* a user: an option that is not counted has no term.                      *)
Claim == [o \in Options |-> IF option[o] = "Expired" THEN 0 ELSE Held(o)]
Outgoing ==
  [o \in Options |-> IF option[o] = "Settling" THEN Leaving(o) ELSE 0]
Incoming ==
  [o \in Options |-> IF option[o] = "Settling" THEN Arriving(o) ELSE 0]

ClaimsCovered ==
  \A u \in Users :
    LET claims == SumFunctionOnSet(Claim, WrittenBy(u)) IN
    /\ claims <= locked[u]
    /\ (\A o \in WrittenBy(u) : option[o] # "Expired") => claims = locked[u]

BooksMatch ==
  \A u \in Users :
    (\A o \in WrittenBy(u) \cup BoughtBy(u) : option[o] # "Expired") =>
      funds[u] + SumFunctionOnSet(Outgoing, WrittenBy(u))
        = available[u] + locked[u] + SumFunctionOnSet(Incoming, BoughtBy(u))

IInv ==
  /\ TypeOK /\ RecordsAgree /\ EntriesDivide /\ CallsFitPhase
  /\ EffectsFitPhase /\ ClaimsCovered /\ BooksMatch

-----------------------------------------------------------------------------
(* Amounts.                                                                *)
LEMMA QuotientOfNats ==
  ASSUME NEW a \in Nat, NEW p \in Nat \ {0}
  PROVE  a \div p \in Nat
  OBVIOUS

(* A payout is an amount of money.                                         *)
LEMMA PayoutIsAmount ==
  ASSUME NEW o \in Options, NEW price \in Prices
  PROVE  Payout(o, price) \in Nat
  <1>1. price \in Nat \ {0} /\ Strike[o] \in Nat /\ Quantity[o] \in Nat
    BY SettlementAssumption
  <1>2. CASE price <= Strike[o]
    BY <1>2 DEF Payout
  <1>3. CASE ~(price <= Strike[o])
    <2>1. price - Strike[o] \in Nat
      BY <1>1, <1>3
    <2>2. Quantity[o] * (price - Strike[o]) \in Nat
      BY <1>1, <2>1
    <2>3. QED
      BY <1>1, <1>3, <2>2, QuotientOfNats DEF Payout
  <1>4. QED
    BY <1>2, <1>3

(* The profit fee is no more than the payout it is taken from.             *)
LEMMA ProfitFeeIsPart ==
  ASSUME NEW payout \in Nat
  PROVE  ProfitFee(payout) \in 0 .. payout
  <1>1. ProfitFeeBps \in Nat /\ ProfitFeeBps <= 10000
    BY SettlementAssumption
  <1>2. payout * ProfitFeeBps \in Nat
    BY <1>1
  <1>3. payout * ProfitFeeBps <= payout * 10000
    BY <1>1
  <1> DEFINE a == payout * ProfitFeeBps
  <1>4. a \in Nat /\ a <= 10000 * payout
    BY <1>2, <1>3
  <1> HIDE DEF a
  <1>5. a \div 10000 \in 0 .. payout
    BY <1>4
  <1>6. QED
    BY <1>5 DEF a, ProfitFee

(* The ledger charges its fee for each of the two transfers that is made.  *)
LEMMA TransferFeesSum ==
  ASSUME NEW o \in Options, NEW j, j.fee \in Nat
  PROVE  TransferFees(o, j) = (IF ToBuyer(j) > 0 THEN j.fee ELSE 0)
                                + (IF Profit(o, j) > 0 THEN j.fee ELSE 0)
  <1> DEFINE made == {t \in Transfers : Amount(o, j, t) > 0}
             fee == j.fee
  <1>1. Cardinality({}) = 0 /\ Cardinality({"buyer"}) = 1 /\ Cardinality({"fee"}) = 1
    BY FS_EmptySet, FS_Singleton
  <1>2. Cardinality({"buyer", "fee"}) = 2
    <2>1. {"buyer", "fee"} = {"buyer"} \cup {"fee"}
      OBVIOUS
    <2>2. Cardinality({"buyer"} \cup {"fee"}) = Cardinality({"buyer"}) + 1
      <3>1. IsFiniteSet({"buyer"})
        BY FS_Singleton
      <3>2. QED
        BY <3>1, FS_AddElement
    <2>3. QED
      BY <1>1, <2>1, <2>2
  <1>3. TransferFees(o, j) = fee * Cardinality(made)
    BY DEF TransferFees
  <1>4. made = IF ToBuyer(j) > 0
               THEN IF Profit(o, j) > 0 THEN {"buyer", "fee"} ELSE {"buyer"}
               ELSE IF Profit(o, j) > 0 THEN {"fee"} ELSE {}
    BY DEF Transfers, Amount
  <1> HIDE DEF made, fee
  <1>5. fee \in Nat
    BY DEF fee
  <1>6. QED
    BY <1>1, <1>2, <1>3, <1>4, <1>5 DEF fee

-----------------------------------------------------------------------------
(* What the stages of a run come to.  A run that stopped goes through the  *)
(* remaining stages as it is.                                              *)
LEMMA StoppedStays ==
  ASSUME NEW o, NEW j, NEW s, s.at # "run"
  PROVE  AfterFee(o, j, s) = s
  BY DEF AfterFee, Complete, UnlockRest, ChargeTransferFees, Stage

(* The same before the payout of the buyer.                                *)
LEMMA StoppedBefore ==
  ASSUME NEW o, NEW j, NEW s, s.at # "run"
  PROVE  AfterBuyer(o, j, s) = s
  <1>1. PayProfitFee(o, j, ReleaseToBuyer(o, j, s)) = s
    BY DEF PayProfitFee, ReleaseToBuyer, Stage
  <1>2. QED
    BY <1>1, StoppedStays DEF AfterBuyer

(* The fields of a run.                                                    *)
IsRun(s) ==
  s = [at |-> s.at, phase |-> s.phase, available |-> s.available,
       locked |-> s.locked, earned |-> s.earned]

(* A run begins with the balances and the phase of the entry.              *)
LEMMA RunFields ==
  ASSUME NEW j
  PROVE  /\ IsRun(Run(j)) /\ Run(j).at = "run" /\ Run(j).phase = j.entry.phase
         /\ Run(j).available = available /\ Run(j).locked = locked
         /\ Run(j).earned = earned
  BY DEF IsRun, Run

(* Stopping changes how a run ended and nothing else.                      *)
LEMMA StopFields ==
  ASSUME NEW s, IsRun(s), NEW how, NEW r, r = Stop(s, how)
  PROVE  /\ IsRun(r) /\ r.at = how /\ r.phase = s.phase
         /\ r.available = s.available /\ r.locked = s.locked
         /\ r.earned = s.earned
  BY DEF IsRun, Stop

(* Reaching a phase changes it and the two balances.                       *)
LEMMA ReachFields ==
  ASSUME NEW s, NEW phase, NEW avail, NEW lock, NEW r,
         r = Reach(s, phase, avail, lock)
  PROVE  /\ IsRun(r) /\ r.at = s.at /\ r.phase = phase
         /\ r.available = avail /\ r.locked = lock
         /\ r.earned = s.earned
  BY DEF IsRun, Reach

(* Balances: what a debit or a credit leaves, and two debits are one.      *)
LEMMA DebitFacts ==
  ASSUME NEW f \in [Users -> Nat], NEW u \in Users, NEW a \in Nat, a <= f[u]
  PROVE  /\ Debit(f, u, a) \in [Users -> Nat]
         /\ \A v \in Users :
              Debit(f, u, a)[v] = IF v = u THEN f[v] - a ELSE f[v]
  <1>1. f[u] - a \in Nat
    OBVIOUS
  <1>2. QED
    BY <1>1 DEF Debit

(* What a credit leaves.                                                   *)
LEMMA CreditFacts ==
  ASSUME NEW f \in [Users -> Nat], NEW u \in Users, NEW a \in Nat
  PROVE  /\ Credit(f, u, a) \in [Users -> Nat]
         /\ \A v \in Users :
              Credit(f, u, a)[v] = IF v = u THEN f[v] + a ELSE f[v]
  <1>1. f[u] + a \in Nat
    OBVIOUS
  <1>2. QED
    BY <1>1 DEF Credit

(* Nothing is moved by an amount of zero.                                  *)
LEMMA NoChange ==
  ASSUME NEW f \in [Users -> Nat], NEW u \in Users
  PROVE  Debit(f, u, 0) = f /\ Credit(f, u, 0) = f
  BY DEF Debit, Credit

(* Two debits of one user are one.                                         *)
LEMMA TwoDebits ==
  ASSUME NEW f \in [Users -> Nat], NEW u \in Users, NEW a \in Nat, NEW b \in Nat
  PROVE  Debit(Debit(f, u, a), u, b) = Debit(f, u, a + b)
  <1>1. (f[u] - a) - b = f[u] - (a + b)
    OBVIOUS
  <1>2. QED
    BY <1>1 DEF Debit

(* The writer has his remainder back, less the fees of the transfers.      *)
LEMMA RunEnds ==
  ASSUME NEW o \in Options, NEW j, NEW s, IsRun(s),
         s.at = "run", s.phase = "BalanceReleased",
         s.available \in [Users -> Nat], s.locked \in [Users -> Nat],
         j.entry.toWriter \in Nat, TransferFees(o, j) \in Nat,
         TransferFees(o, j) <= j.entry.toWriter,
         j.entry.toWriter <= s.locked[Writer[o]]
  PROVE  /\ AfterFee(o, j, s).at = "done"
         /\ AfterFee(o, j, s).locked =
              Debit(s.locked, Writer[o], j.entry.toWriter)
         /\ AfterFee(o, j, s).available =
              Credit(s.available, Writer[o], ToWriter(o, j))
         /\ AfterFee(o, j, s).earned = s.earned
  <1> DEFINE w == Writer[o]
             fees == TransferFees(o, j)
             rest == j.entry.toWriter
             c == ChargeTransferFees(o, j, s)
             v == UnlockRest(o, j, c)
  <1>1. w \in Users /\ s.locked[w] \in Nat /\ s.available[w] \in Nat
    BY SettlementAssumption
  <1>2. ToWriter(o, j) = rest - fees
    BY DEF ToWriter
  <1>3. ~(s.locked[w] < fees) /\ fees <= s.locked[w] + s.available[w]
    BY <1>1
  <1>4. c = Reach(s, "ProfitFeeCollected",
                  Debit(s.available, w, fees - fees),
                  Debit(s.locked, w, fees))
    BY <1>3 DEF ChargeTransferFees, Stage
  <1>5. Debit(s.available, w, fees - fees) = s.available
    <2>1. fees - fees = 0
      OBVIOUS
    <2>2. QED
      BY <1>1, <2>1, NoChange
  <1> HIDE DEF c
  <1>6. /\ IsRun(c) /\ c.at = "run" /\ c.phase = "ProfitFeeCollected"
        /\ c.available = s.available /\ c.earned = s.earned
        /\ c.locked = Debit(s.locked, w, fees)
    BY <1>4, <1>5 DEF IsRun, Reach
  <1>7. c.locked[w] = s.locked[w] - fees
    BY <1>1, <1>6, DebitFacts
  <1>8. rest - fees <= c.locked[w]
    BY <1>1, <1>7
  <1>9. v = Reach(c, "WriterPayoutReleased",
                  Credit(c.available, w, ToWriter(o, j)),
                  Debit(c.locked, w, ToWriter(o, j)))
    BY <1>2, <1>6, <1>8 DEF UnlockRest, Stage
  <1> HIDE DEF v
  <1>10. /\ IsRun(v) /\ v.at = "run" /\ v.phase = "WriterPayoutReleased"
         /\ v.available = Credit(s.available, w, ToWriter(o, j))
         /\ v.earned = s.earned
         /\ v.locked = Debit(c.locked, w, ToWriter(o, j))
    BY <1>6, <1>9 DEF IsRun, Reach
  <1>11. v.locked = Debit(s.locked, w, rest)
    <2>1. rest - fees \in Nat /\ fees + (rest - fees) = rest /\ fees \in Nat
      OBVIOUS
    <2>2. v.locked = Debit(Debit(s.locked, w, fees), w, rest - fees)
      BY <1>2, <1>6, <1>10
    <2>3. Debit(Debit(s.locked, w, fees), w, rest - fees)
            = Debit(s.locked, w, fees + (rest - fees))
      <3> DEFINE x == rest - fees
                 f == s.locked
      <3>1. x \in Nat /\ fees \in Nat /\ f \in [Users -> Nat] /\ w \in Users
        BY <1>1, <2>1
      <3> HIDE DEF x, f, fees, w
      <3>2. Debit(Debit(f, w, fees), w, x) = Debit(f, w, fees + x)
        BY <3>1, TwoDebits, ZenonT(40)
      <3>3. QED
        BY <3>2 DEF x, f
    <2>4. QED
      BY <2>1, <2>2, <2>3
  <1>12. AfterFee(o, j, s) = Stop(v, "done")
    <2>1. AfterFee(o, j, s) = Complete(v)
      BY DEF AfterFee, v, c
    <2>2. QED
      BY <1>10, <2>1 DEF Complete
  <1>13. QED
    BY <1>10, <1>11, <1>12, StopFields DEF IsRun

(* A run that has nothing to transfer, or waits for an answer, from the    *)
(* release of the buyer's payout on.                                       *)
LEMMA RunReleases ==
  ASSUME NEW o \in Options, NEW j, NEW s, IsRun(s), s.at = "run",
         s.phase \in {"Started", "TransferComplete"},
         ToBuyer(j) \in Nat, s.locked \in [Users -> Nat],
         ToBuyer(j) <= s.locked[Writer[o]], NEW r, r = ReleaseToBuyer(o, j, s)
  PROVE  /\ IsRun(r) /\ r.at = "run" /\ r.phase = "BalanceReleased"
         /\ r.available = Credit(s.available, Buyer[o], ToBuyer(j))
         /\ r.locked = Debit(s.locked, Writer[o], ToBuyer(j))
         /\ r.earned = s.earned
  <1>1. r = Reach(s, "BalanceReleased",
                  Credit(s.available, Buyer[o], ToBuyer(j)),
                  Debit(s.locked, Writer[o], ToBuyer(j)))
    BY DEF ReleaseToBuyer, Stage
  <1>2. QED
    BY <1>1 DEF Reach, IsRun

(* With a profit to be collected a run stops at its transfer, without one  *)
(* it goes on.                                                             *)
LEMMA FeeStage ==
  ASSUME NEW o \in Options, NEW j, NEW s, IsRun(s), s.at = "run",
         s.phase = "BalanceReleased"
  PROVE  /\ Profit(o, j) > 0 =>
              /\ AfterFee(o, j, PayProfitFee(o, j, s)) = Stop(s, "fee")
              /\ Stop(s, "fee").at = "fee"
              /\ Stop(s, "fee").phase = "BalanceReleased"
              /\ Stop(s, "fee").available = s.available
              /\ Stop(s, "fee").locked = s.locked
              /\ Stop(s, "fee").earned = s.earned
         /\ ~(Profit(o, j) > 0) => PayProfitFee(o, j, s) = s
  <1>1. ASSUME Profit(o, j) > 0
        PROVE  AfterFee(o, j, PayProfitFee(o, j, s)) = Stop(s, "fee")
    <2>1. PayProfitFee(o, j, s) = Stop(s, "fee")
      BY <1>1 DEF PayProfitFee, Stage
    <2>2. Stop(s, "fee").at # "run"
      BY StopFields
    <2>3. QED
      BY <2>1, <2>2, StoppedStays
  <1>2. /\ Stop(s, "fee").at = "fee" /\ Stop(s, "fee").phase = "BalanceReleased"
        /\ Stop(s, "fee").available = s.available
        /\ Stop(s, "fee").locked = s.locked /\ Stop(s, "fee").earned = s.earned
    BY StopFields
  <1>3. ~(Profit(o, j) > 0) => PayProfitFee(o, j, s) = s
    BY DEF PayProfitFee, Stage
  <1>4. QED
    BY <1>1, <1>2, <1>3

(* What an attempt comes to, by the phase its entry is in.                 *)
LEMMA StartAtBuyer ==
  ASSUME NEW o \in Options, NEW j, j.status # "Settled",
         j.entry.phase = "Started", ToBuyer(j) > 0, NEW s, s = FromStart(o, j)
  PROVE  /\ s.at = "buyer" /\ s.phase = "Started"
         /\ s.available = available /\ s.locked = locked /\ s.earned = earned
  <1> DEFINE r == Run(j)
  <1>1. /\ IsRun(r) /\ r.at = "run" /\ r.phase = "Started"
        /\ r.available = available /\ r.locked = locked /\ r.earned = earned
    BY RunFields
  <1>2. PayBuyer(j, r) = Stop(r, "buyer")
    <2> HIDE DEF r
    <2>1. QED
      BY <1>1 DEF PayBuyer, Stage
  <1>3. /\ Stop(r, "buyer").at = "buyer" /\ Stop(r, "buyer").phase = "Started"
        /\ Stop(r, "buyer").available = available
        /\ Stop(r, "buyer").locked = locked /\ Stop(r, "buyer").earned = earned
    BY <1>1, StopFields
  <1>4. FromStart(o, j) = AfterBuyer(o, j, Stop(r, "buyer"))
    BY <1>2 DEF FromStart
  <1>5. FromStart(o, j) = Stop(r, "buyer")
    BY <1>3, <1>4, StoppedBefore
  <1>6. QED
    BY <1>3, <1>5

(* An attempt in the phase BalanceReleased transfers the profit fee.       *)
LEMMA StartAtFee ==
  ASSUME NEW o \in Options, NEW j, j.status # "Settled",
         j.entry.phase = "BalanceReleased", Profit(o, j) > 0,
         NEW s, s = FromStart(o, j)
  PROVE  /\ s.at = "fee" /\ s.phase = "BalanceReleased"
         /\ s.available = available /\ s.locked = locked /\ s.earned = earned
  <1> DEFINE r == Run(j)
  <1>1. /\ IsRun(r) /\ r.at = "run" /\ r.phase = "BalanceReleased"
        /\ r.available = available /\ r.locked = locked /\ r.earned = earned
    BY RunFields
  <1>2. FromStart(o, j) = AfterFee(o, j, PayProfitFee(o, j, r))
    <2>1. PayBuyer(j, r) = r /\ ReleaseToBuyer(o, j, r) = r
      <3> HIDE DEF r
      <3>1. QED
        BY <1>1 DEF PayBuyer, ReleaseToBuyer, Stage
    <2>2. QED
      BY <2>1 DEF FromStart, AfterBuyer
  <1> HIDE DEF r
  <1>3. QED
    BY <1>1, <1>2, FeeStage

(* An attempt at a failed settlement fails again.                          *)
LEMMA StartOfFailed ==
  ASSUME NEW o \in Options, NEW j, j.status # "Settled",
         j.entry.phase = "Failed", NEW s, s = FromStart(o, j)
  PROVE  /\ s.at = "permanent" /\ s.phase = "Failed"
         /\ s.available = available /\ s.locked = locked /\ s.earned = earned
  <1> DEFINE r == Run(j)
  <1>1. /\ IsRun(r) /\ r.at = "run" /\ r.phase = "Failed"
        /\ r.available = available /\ r.locked = locked /\ r.earned = earned
    BY RunFields
  <1>2. FromStart(o, j) = AfterBuyer(o, j, PayBuyer(j, r))
    BY DEF FromStart
  <1> HIDE DEF r
  <1>3. PayBuyer(j, r) = r /\ ReleaseToBuyer(o, j, r) = r
        /\ PayProfitFee(o, j, r) = r
    BY <1>1 DEF PayBuyer, ReleaseToBuyer, PayProfitFee, Stage
  <1>4. ChargeTransferFees(o, j, r) = r /\ UnlockRest(o, j, r) = r
    BY <1>1 DEF ChargeTransferFees, UnlockRest, Stage
  <1>5. FromStart(o, j) = Stop(r, "permanent")
    BY <1>1, <1>2, <1>3, <1>4 DEF AfterBuyer, AfterFee, Complete
  <1>6. QED
    BY <1>1, <1>5, StopFields

(* Nothing is due to the buyer.                                            *)
LEMMA StartWithoutPayout ==
  ASSUME NEW o \in Options, NEW j, j.status # "Settled",
         j.entry.phase = "Started", ToBuyer(j) = 0,
         available \in [Users -> Nat], locked \in [Users -> Nat],
         NEW s, s = FromStart(o, j)
  PROVE  /\ Profit(o, j) > 0 =>
              /\ s.at = "fee" /\ s.phase = "BalanceReleased"
              /\ s.available = available /\ s.locked = locked
              /\ s.earned = earned
         /\ (~(Profit(o, j) > 0) /\ TransferFees(o, j) = 0
               /\ j.entry.toWriter \in Nat
               /\ j.entry.toWriter <= locked[Writer[o]]) =>
              /\ s.at = "done"
              /\ s.locked = Debit(locked, Writer[o], j.entry.toWriter)
              /\ s.available =
                   Credit(available, Writer[o], j.entry.toWriter)
              /\ s.earned = earned
  <1> DEFINE r == Run(j)
             x == ReleaseToBuyer(o, j, r)
  <1>1. /\ IsRun(r) /\ r.at = "run" /\ r.phase = "Started"
        /\ r.available = available /\ r.locked = locked /\ r.earned = earned
    BY RunFields
  <1>2. FromStart(o, j) = AfterFee(o, j, PayProfitFee(o, j, x))
    <2>1. PayBuyer(j, r) = r
      <3> HIDE DEF r
      <3>1. QED
        BY <1>1 DEF PayBuyer, Stage
    <2>2. QED
      BY <2>1 DEF FromStart, AfterBuyer
  <1> HIDE DEF r
  <1>3. /\ IsRun(x) /\ x.at = "run" /\ x.phase = "BalanceReleased"
        /\ x.available = available /\ x.locked = locked /\ x.earned = earned
    <2>1. Writer[o] \in Users /\ Buyer[o] \in Users
      BY SettlementAssumption
    <2>2. ToBuyer(j) \in Nat /\ ToBuyer(j) <= r.locked[Writer[o]]
      BY <1>1, <2>1
    <2>3. r.locked \in [Users -> Nat]
      BY <1>1
    <2>4. /\ IsRun(x) /\ x.at = "run" /\ x.phase = "BalanceReleased"
          /\ x.available = Credit(r.available, Buyer[o], ToBuyer(j))
          /\ x.locked = Debit(r.locked, Writer[o], ToBuyer(j))
          /\ x.earned = r.earned
      BY <1>1, <2>2, <2>3, RunReleases
    <2> HIDE DEF x
    <2>5. QED
      BY <1>1, <2>1, <2>4, NoChange
  <1> HIDE DEF x
  <1>4. ASSUME Profit(o, j) > 0
        PROVE  /\ s.at = "fee" /\ s.phase = "BalanceReleased"
               /\ s.available = available /\ s.locked = locked
               /\ s.earned = earned
    BY <1>2, <1>3, <1>4, FeeStage
  <1>5. ASSUME ~(Profit(o, j) > 0), TransferFees(o, j) = 0,
               j.entry.toWriter \in Nat, j.entry.toWriter <= locked[Writer[o]]
        PROVE  /\ s.at = "done"
               /\ s.locked = Debit(locked, Writer[o], j.entry.toWriter)
               /\ s.available =
                    Credit(available, Writer[o], j.entry.toWriter)
               /\ s.earned = earned
    <2>1. s = AfterFee(o, j, x)
      BY <1>2, <1>3, <1>5, FeeStage
    <2>2. ToWriter(o, j) = j.entry.toWriter
      BY <1>5 DEF ToWriter
    <2>3. TransferFees(o, j) \in Nat /\ TransferFees(o, j) <= j.entry.toWriter
      BY <1>5
    <2>4. QED
      BY <1>3, <1>5, <2>1, <2>2, <2>3, RunEnds
  <1>6. QED
    BY <1>4, <1>5

(* The transfer to the buyer is done: he is paid, and a profit fee is sent *)
(* or the settlement ends.                                                 *)
LEMMA AfterBuyerPaid ==
  ASSUME NEW o \in Options, NEW j, ToBuyer(j) \in Nat,
         available \in [Users -> Nat], locked \in [Users -> Nat],
         ToBuyer(j) <= locked[Writer[o]], NEW s, s = BuyerPaid(o, j)
  PROVE  /\ Profit(o, j) > 0 =>
              /\ s.at = "fee" /\ s.phase = "BalanceReleased"
              /\ s.available = Credit(available, Buyer[o], ToBuyer(j))
              /\ s.locked = Debit(locked, Writer[o], ToBuyer(j))
              /\ s.earned = earned
         /\ (~(Profit(o, j) > 0) /\ j.entry.toWriter \in Nat
               /\ TransferFees(o, j) \in Nat
               /\ TransferFees(o, j) <= j.entry.toWriter
               /\ ToBuyer(j) + j.entry.toWriter <= locked[Writer[o]]) =>
              /\ s.at = "done"
              /\ s.locked = Debit(locked, Writer[o], ToBuyer(j) + j.entry.toWriter)
              /\ s.available =
                   Credit(Credit(available, Buyer[o], ToBuyer(j)),
                          Writer[o], ToWriter(o, j))
              /\ s.earned = earned
  <1> DEFINE q == Run(j)
             r == [q EXCEPT !.phase = "TransferComplete"]
             x == ReleaseToBuyer(o, j, r)
             w == Writer[o]
             b == Buyer[o]
  <1>1. /\ IsRun(q) /\ q.at = "run"
        /\ q.available = available /\ q.locked = locked /\ q.earned = earned
    BY RunFields
  <1>2. s = AfterFee(o, j, PayProfitFee(o, j, x))
    BY DEF BuyerPaid, AfterBuyer
  <1> HIDE DEF q
  <1>3. /\ IsRun(r) /\ r.at = "run" /\ r.phase = "TransferComplete"
        /\ r.available = available /\ r.locked = locked /\ r.earned = earned
    BY <1>1 DEF IsRun
  <1> HIDE DEF r
  <1>4. w \in Users /\ b \in Users
    BY SettlementAssumption
  <1>5. /\ IsRun(x) /\ x.at = "run" /\ x.phase = "BalanceReleased"
        /\ x.available = Credit(available, b, ToBuyer(j))
        /\ x.locked = Debit(locked, w, ToBuyer(j))
        /\ x.earned = earned
    BY <1>3, RunReleases
  <1> HIDE DEF x
  <1>6. ASSUME Profit(o, j) > 0
        PROVE  /\ s.at = "fee" /\ s.phase = "BalanceReleased"
               /\ s.available = Credit(available, b, ToBuyer(j))
               /\ s.locked = Debit(locked, w, ToBuyer(j))
               /\ s.earned = earned
    BY <1>2, <1>5, <1>6, FeeStage
  <1>7. ASSUME ~(Profit(o, j) > 0), j.entry.toWriter \in Nat,
               TransferFees(o, j) \in Nat,
               TransferFees(o, j) <= j.entry.toWriter,
               ToBuyer(j) + j.entry.toWriter <= locked[w]
        PROVE  /\ s.at = "done"
               /\ s.locked = Debit(locked, w, ToBuyer(j) + j.entry.toWriter)
               /\ s.available =
                    Credit(Credit(available, b, ToBuyer(j)), w, ToWriter(o, j))
               /\ s.earned = earned
    <2> DEFINE rest == j.entry.toWriter
               paid == ToBuyer(j)
    <2>1. s = AfterFee(o, j, x)
      BY <1>2, <1>5, <1>7, FeeStage
    <2>2. paid \in Nat /\ rest \in Nat /\ paid + rest <= locked[w]
      BY <1>7
    <2>3. x.locked \in [Users -> Nat] /\ rest <= x.locked[w]
      <3>1. x.locked = Debit(locked, w, paid) /\ locked[w] \in Nat
        BY <1>4, <1>5
      <3> HIDE DEF paid, rest, w, b
      <3>2. paid <= locked[w] /\ rest <= locked[w] - paid
        BY <2>2, <3>1
      <3>3. QED
        BY <1>4, <2>2, <3>1, <3>2, DebitFacts
    <2>4. x.available \in [Users -> Nat]
      <3>1. x.available = Credit(available, b, paid)
        BY <1>5
      <3> HIDE DEF paid, rest, w, b
      <3>2. Credit(available, b, paid) \in [Users -> Nat]
        BY <1>4, <2>2, CreditFacts
      <3>3. QED
        BY <3>1, <3>2
    <2>5. /\ s.at = "done"
          /\ s.locked = Debit(x.locked, w, rest)
          /\ s.available = Credit(x.available, w, ToWriter(o, j))
          /\ s.earned = x.earned
      BY <1>5, <1>7, <2>1, <2>3, <2>4, RunEnds
    <2>6. s.locked = Debit(locked, w, paid + rest)
      <3>1. s.locked = Debit(Debit(locked, w, paid), w, rest)
        BY <1>5, <2>5, Zenon
      <3> HIDE DEF paid, rest, w
      <3>2. QED
        BY <1>4, <2>2, <3>1, TwoDebits
    <2>7. QED
      BY <1>5, <2>5, <2>6, Zenon
  <1>8. QED
    BY <1>6, <1>7

(* The transfer of the profit fee is done: the settlement ends.            *)
LEMMA AfterFeePaid ==
  ASSUME NEW o \in Options, NEW j, j.entry.phase = "BalanceReleased",
         available \in [Users -> Nat], locked \in [Users -> Nat], earned \in Nat,
         j.entry.toWriter \in Nat, Profit(o, j) \in Nat,
         TransferFees(o, j) \in Nat, TransferFees(o, j) <= j.entry.toWriter,
         Profit(o, j) + j.entry.toWriter <= locked[Writer[o]],
         NEW s, s = FeePaid(o, j)
  PROVE  /\ s.at = "done"
         /\ s.locked = Debit(locked, Writer[o], Profit(o, j) + j.entry.toWriter)
         /\ s.available = Credit(available, Writer[o], ToWriter(o, j))
         /\ s.earned = earned + Profit(o, j)
  <1> DEFINE q == Run(j)
             r == [q EXCEPT !.earned = @ + Profit(o, j)]
             x == CollectProfitFee(o, j, q)
             w == Writer[o]
             rest == j.entry.toWriter
             fee == Profit(o, j)
  <1>1. /\ IsRun(q) /\ q.at = "run" /\ q.phase = "BalanceReleased"
        /\ q.available = available /\ q.locked = locked /\ q.earned = earned
    BY RunFields
  <1>2. s = AfterFee(o, j, x)
    BY DEF FeePaid
  <1> HIDE DEF q
  <1>3. /\ IsRun(r) /\ r.at = "run" /\ r.phase = "BalanceReleased"
        /\ r.available = available /\ r.locked = locked
        /\ r.earned = earned + fee
    BY <1>1 DEF IsRun
  <1>4. w \in Users /\ locked[w] \in Nat /\ fee \in Nat /\ rest \in Nat
        /\ fee <= locked[w] /\ fee + rest <= locked[w]
    BY SettlementAssumption
  <1>5. x = Reach(r, r.phase, r.available, Debit(r.locked, w, fee))
    <2>1. x = Stage(r, {"BalanceReleased"}, fee <= r.locked[w],
                    Reach(r, r.phase, r.available,
                          Debit(r.locked, w, fee)))
      BY DEF CollectProfitFee
    <2> HIDE DEF r, x, fee, w
    <2>2. QED
      BY <1>3, <1>4, <2>1 DEF Stage
  <1> HIDE DEF r, x
  <1>6. /\ IsRun(x) /\ x.at = "run" /\ x.phase = "BalanceReleased"
        /\ x.available = available /\ x.earned = earned + fee
        /\ x.locked = Debit(locked, w, fee)
    BY <1>3, <1>5 DEF Reach, IsRun
  <1>7. x.locked \in [Users -> Nat] /\ rest <= x.locked[w]
    <2> HIDE DEF fee, rest, w
    <2>1. rest <= locked[w] - fee
      BY <1>4
    <2>2. QED
      BY <1>4, <1>6, <2>1, DebitFacts
  <1>8. /\ s.at = "done"
        /\ s.locked = Debit(x.locked, w, rest)
        /\ s.available = Credit(x.available, w, ToWriter(o, j))
        /\ s.earned = x.earned
    BY <1>2, <1>6, <1>7, RunEnds
  <1>9. s.locked = Debit(locked, w, fee + rest)
    <2>1. s.locked = Debit(Debit(locked, w, fee), w, rest)
      BY <1>6, <1>8, Zenon
    <2> HIDE DEF fee, rest, w
    <2>2. QED
      BY <1>4, <2>1, TwoDebits, ZenonT(40)
  <1>10. QED
    BY <1>6, <1>8, <1>9, Zenon

-----------------------------------------------------------------------------
(* What the messages do to an option, by what its run comes to.  Each is   *)
(* a step of OptionPayout or leaves all it speaks of as it is.             *)
Puts(o, status, entry, fee, walStatus) ==
  /\ option' = [option EXCEPT ![o] = status]
  /\ journal' = [journal EXCEPT ![o] = entry]
  /\ quoted' = [quoted EXCEPT ![o] = fee]
  /\ wal' = [wal EXCEPT ![o] = walStatus]
  /\ reply' = [reply EXCEPT ![o] = "none"]
  /\ age' \in [Options -> Ages]
  /\ UNCHANGED <<expired, executed, ledgerFee, funds>>

Sends(o, t) == at' = [at EXCEPT ![o] = t] /\ net' = net \cup {<<o, t>>}

Ends(o) == at' = [at EXCEPT ![o] = "idle"] /\ UNCHANGED net

Entries == [phase : Phases, toBuyer : Nat, toWriter : Nat]
Settling(entry, fee) == [status |-> "Settling", entry |-> entry, fee |-> fee]

(* The price leaves the buyer nothing.                                     *)
Lapses(o) ==
  /\ option[o] = "Active"
  /\ Puts(o, "Settled", NoEntry, 0, "Succeeded") /\ Ends(o)
  /\ available' = Credit(available, Writer[o], Quantity[o])
  /\ locked' = Debit(locked, Writer[o], Quantity[o])
  /\ UNCHANGED earned

(* A settlement begins, with the entry and the fee it keeps.               *)
AgreesOn(o, entry, fee, t) ==
  /\ option[o] = "Active"
  /\ entry.toBuyer + entry.toWriter <= Quantity[o]
  /\ TransferFees(o, Settling(entry, fee)) <= entry.toWriter
  /\ entry.phase = PhaseOf(t)
  /\ t = "buyer" <=> entry.toBuyer > 0
  /\ t = "fee" => Profit(o, Settling(entry, fee)) > 0
  /\ Puts(o, "Settling", entry, fee, "InFlight") /\ Sends(o, t)
  /\ UNCHANGED books

Agrees(o) ==
  \E entry \in Entries, fee \in Nat, t \in Transfers : AgreesOn(o, entry, fee, t)

(* Another attempt at the transfer of the phase.                           *)
ResendsTo(o, t) ==
  /\ option[o] = "Settling" /\ journal[o].phase = PhaseOf(t)
  /\ Puts(o, "Settling", journal[o], quoted[o], "InFlight") /\ Sends(o, t)
  /\ UNCHANGED books

Resends(o) == \E t \in Transfers : ResendsTo(o, t)

(* Another attempt at what has failed for good.                            *)
FailsAgain(o) ==
  /\ option[o] = "Expired"
  /\ Puts(o, "Expired", journal[o], quoted[o], "FailedPermanent") /\ Ends(o)
  /\ UNCHANGED books

(* The buyer is paid, and the profit fee sent.                             *)
Pays(o) ==
  /\ at[o] = "buyer" /\ reply[o] = "ok" /\ Profit(o, Job(o)) > 0
  /\ Puts(o, "Settling", [journal[o] EXCEPT !.phase = "BalanceReleased"],
          quoted[o], "InFlight")
  /\ Sends(o, "fee")
  /\ available' = Credit(available, Buyer[o], ToBuyer(Job(o)))
  /\ locked' = Debit(locked, Writer[o], ToBuyer(Job(o)))
  /\ UNCHANGED earned

(* The buyer is paid, and the rest is the writer's.                        *)
PaysAndCloses(o) ==
  /\ at[o] = "buyer" /\ reply[o] = "ok" /\ ~(Profit(o, Job(o)) > 0)
  /\ Puts(o, "Settled", NoEntry, quoted[o], "Succeeded") /\ Ends(o)
  /\ available' = Credit(Credit(available, Buyer[o], ToBuyer(Job(o))),
                         Writer[o], ToWriter(o, Job(o)))
  /\ locked' = Debit(locked, Writer[o], Quantity[o])
  /\ UNCHANGED earned

(* The profit fee is collected, and the rest is the writer's.              *)
Closes(o) ==
  /\ at[o] = "fee" /\ reply[o] = "ok"
  /\ Puts(o, "Settled", NoEntry, quoted[o], "Succeeded") /\ Ends(o)
  /\ available' = Credit(available, Writer[o], ToWriter(o, Job(o)))
  /\ locked' = Debit(locked, Writer[o], Quantity[o] - ToBuyer(Job(o)))
  /\ earned' = earned + Profit(o, Job(o))

(* A transfer is refused.                                                  *)
GivesUp(o) ==
  /\ at[o] # "idle" /\ reply[o] = "rejected"
  /\ Puts(o, "Expired", [journal[o] EXCEPT !.phase = "Failed"], quoted[o],
          "FailedPermanent")
  /\ Ends(o)
  /\ UNCHANGED books

(* What a job is and what a run leaves of it.                              *)
IsJob(j) ==
  /\ j = [status |-> j.status, entry |-> j.entry, fee |-> j.fee]
  /\ j.entry = [phase |-> j.entry.phase, toBuyer |-> j.entry.toBuyer,
                toWriter |-> j.entry.toWriter]

(* A run that awaits an answer leaves its job with the phase it reached.   *)
LEMMA JobsGoOn ==
  ASSUME NEW j, IsJob(j), NEW s, s.at \in Transfers, NEW k, k = JobAfter(j, s)
  PROVE  /\ k.status = j.status /\ k.fee = j.fee
         /\ k.entry = [j.entry EXCEPT !.phase = s.phase]
  BY DEF JobAfter, IsJob, Transfers

(* A run that is done leaves a settled option without an entry.            *)
LEMMA JobsAreDone ==
  ASSUME NEW j, IsJob(j), NEW s, s.at = "done", NEW k, k = JobAfter(j, s)
  PROVE  k.status = "Settled" /\ k.fee = j.fee /\ k.entry = NoEntry
  BY DEF JobAfter, IsJob

(* A run that fails for good leaves an expired option and a failed entry.  *)
LEMMA JobsFail ==
  ASSUME NEW j, IsJob(j), NEW s, s.at = "permanent", j.status = "Settling",
         s.phase \notin {"None", "Failed"}, NEW k, k = JobAfter(j, s)
  PROVE  /\ k.status = "Expired" /\ k.fee = j.fee
         /\ k.entry = [j.entry EXCEPT !.phase = "Failed"]
  BY DEF JobAfter, IsJob, FailedJob

(* A failed settlement stays as it is.                                     *)
LEMMA JobsStayFailed ==
  ASSUME NEW j, IsJob(j), NEW s, s.at = "permanent",
         s.phase = "Failed", j.entry.phase = "Failed", NEW k, k = JobAfter(j, s)
  PROVE  k.status = j.status /\ k.fee = j.fee /\ k.entry = j.entry
  BY DEF JobAfter, IsJob, FailedJob

(* The conclusion of a run, by how it ended.                               *)
LEMMA ConcludesSent ==
  ASSUME NEW o \in Options, NEW j, IsJob(j), NEW s, NEW t \in Transfers,
         s.at = t, Conclude(o, j, s), age' \in [Options -> Ages]
  PROVE  /\ Puts(o, j.status, [j.entry EXCEPT !.phase = s.phase], j.fee, "InFlight")
         /\ Sends(o, t)
         /\ available' = s.available /\ locked' = s.locked /\ earned' = s.earned
  <1> DEFINE k == JobAfter(j, s)
  <1>1. /\ k.status = j.status /\ k.fee = j.fee
        /\ k.entry = [j.entry EXCEPT !.phase = s.phase]
    BY JobsGoOn
  <1>2. WalAfter(s) = "InFlight"
    BY DEF WalAfter, Transfers
  <1>3. Conclude(o, j, s) /\ s.at \in Transfers
    OBVIOUS
  <1>4. QED
    BY <1>1, <1>2, <1>3 DEF Conclude, Puts, Sends

(* The same of a run that ended.                                           *)
LEMMA ConcludesEnded ==
  ASSUME NEW o \in Options, NEW j, NEW s, s.at \in {"done", "permanent"},
         Conclude(o, j, s), age' \in [Options -> Ages], NEW k, k = JobAfter(j, s)
  PROVE  /\ Puts(o, k.status, k.entry, k.fee, WalAfter(s)) /\ Ends(o)
         /\ available' = s.available /\ locked' = s.locked /\ earned' = s.earned
         /\ WalAfter(s) = IF s.at = "done" THEN "Succeeded" ELSE "FailedPermanent"
  <1>1. s.at \notin Transfers
    BY DEF Transfers
  <1>2. WalAfter(s) = IF s.at = "done" THEN "Succeeded" ELSE "FailedPermanent"
    BY DEF WalAfter
  <1>3. QED
    BY <1>1, <1>2 DEF Conclude, Puts, Ends

-----------------------------------------------------------------------------
(* What the invariant says of one option.                                  *)
LEMMA Entry ==
  ASSUME TypeOK, NEW o \in Options
  PROVE  /\ IsJob(Job(o))
         /\ Job(o).status = option[o] /\ Job(o).fee = quoted[o]
         /\ Job(o).entry = journal[o]
         /\ journal[o].toBuyer \in Nat /\ journal[o].toWriter \in Nat
         /\ journal[o].phase \in Phases /\ quoted[o] \in Nat
         /\ ToBuyer(Job(o)) = journal[o].toBuyer
         /\ Quantity[o] \in Nat /\ Writer[o] \in Users /\ Buyer[o] \in Users
         /\ Profit(o, Job(o)) \in Int
         /\ Profit(o, Job(o))
              = Quantity[o] - journal[o].toWriter - journal[o].toBuyer
         /\ TransferFees(o, Job(o)) =
              (IF journal[o].toBuyer > 0 THEN quoted[o] ELSE 0)
                + (IF Profit(o, Job(o)) > 0 THEN quoted[o] ELSE 0)
         /\ TransferFees(o, Job(o)) \in Nat
  <1>1. journal[o] \in [phase : Phases, toBuyer : Nat, toWriter : Nat]
        /\ quoted[o] \in Nat /\ option[o] \in OptionStatuses
    BY DEF TypeOK
  <1>2. /\ Job(o).status = option[o] /\ Job(o).fee = quoted[o]
        /\ Job(o).entry = journal[o] /\ IsJob(Job(o))
    BY <1>1 DEF Job, IsJob
  <1>3. Quantity[o] \in Nat /\ Writer[o] \in Users /\ Buyer[o] \in Users
    BY SettlementAssumption
  <1>4. /\ ToBuyer(Job(o)) = journal[o].toBuyer
        /\ Profit(o, Job(o))
             = Quantity[o] - journal[o].toWriter - journal[o].toBuyer
    BY <1>2 DEF ToBuyer, Profit
  <1>5. journal[o].toBuyer \in Nat /\ journal[o].toWriter \in Nat
    BY <1>1
  <1>6. Profit(o, Job(o)) \in Int
    BY <1>3, <1>4, <1>5
  <1>7. TransferFees(o, Job(o)) =
          (IF journal[o].toBuyer > 0 THEN quoted[o] ELSE 0)
            + (IF Profit(o, Job(o)) > 0 THEN quoted[o] ELSE 0)
    BY <1>1, <1>2, <1>4, TransferFeesSum
  <1>8. QED
    BY <1>1, <1>2, <1>3, <1>4, <1>5, <1>6, <1>7

(* The claim of an option on its collateral, by its status and phase.      *)
LEMMA Claims ==
  ASSUME TypeOK, RecordsAgree, EntriesDivide, NEW o \in Options
  PROVE  /\ Claim[o] \in Nat
         /\ option[o] = "Active" => Claim[o] = Quantity[o]
         /\ option[o] \in {"Settled", "Expired"} => Claim[o] = 0
         /\ journal[o].phase = "Started" => Claim[o] = Quantity[o]
         /\ journal[o].phase = "BalanceReleased" =>
              Claim[o] = Quantity[o] - journal[o].toBuyer
  <1>1. EntryOf(o)
    BY DEF EntriesDivide
  <1>2. option[o] \in OptionStatuses /\ NoEntry.phase = "None"
    BY DEF TypeOK, NoEntry
  <1>3. /\ option[o] = "Settling" <=> journal[o].phase \in {"Started", "BalanceReleased"}
        /\ option[o] = "Expired" <=> journal[o].phase = "Failed"
    BY DEF RecordsAgree
  <1>4. Claim[o] = IF option[o] = "Expired" THEN 0 ELSE Held(o)
    BY DEF Claim
  <1>5. QED
    BY <1>1, <1>2, <1>3, <1>4, Entry DEF EntryOf, Held, OptionStatuses

(* A user has finitely many options.                                       *)
LEMMA FiniteParts ==
  ASSUME NEW u
  PROVE  IsFiniteSet(WrittenBy(u)) /\ IsFiniteSet(BoughtBy(u))
         /\ WrittenBy(u) \subseteq Options /\ BoughtBy(u) \subseteq Options
  <1>1. WrittenBy(u) \in SUBSET Options /\ BoughtBy(u) \in SUBSET Options
    BY DEF WrittenBy, BoughtBy
  <1>2. QED
    BY <1>1, FS_Subset, SettlementAssumption

(* The collateral of an option is there while it has a claim.              *)
LEMMA ClaimIsLocked ==
  ASSUME IInv, NEW o \in Options
  PROVE  Claim[o] <= locked[Writer[o]]
  <1> DEFINE w == Writer[o]
             sum == SumFunctionOnSet(Claim, WrittenBy(w))
  <1>1. w \in Users /\ o \in WrittenBy(w)
    BY SettlementAssumption DEF WrittenBy
  <1>2. \A x \in WrittenBy(w) : Claim[x] \in Nat
    BY Claims, FiniteParts DEF IInv
  <1>3. sum \in Nat /\ Claim[o] <= sum
    BY <1>1, <1>2, FiniteParts, SumOfAmounts
  <1>4. sum <= locked[w]
    BY <1>1 DEF IInv, ClaimsCovered
  <1>5. locked[w] \in Nat /\ Claim[o] \in Nat
    BY <1>1, Claims DEF IInv, TypeOK
  <1> HIDE DEF sum, w
  <1>6. Claim[o] <= locked[w]
    BY <1>3, <1>4, <1>5
  <1>7. QED
    BY <1>6 DEF w

-----------------------------------------------------------------------------
(* The messages of the canister come to these.                             *)
LEMMA SettleComesTo ==
  ASSUME IInv, NEW o \in Options, NEW price \in Prices, NEW fee \in Fees,
         Settle(o, price, fee)
  PROVE  Lapses(o) \/ Agrees(o)
  <1> DEFINE payout == Payout(o, price)
             cut == ProfitFee(payout)
             entry == [phase |-> "Started", toBuyer |-> payout - cut,
                       toWriter |-> Quantity[o] - payout]
             f == IF payout > 0 THEN fee ELSE 0
             j == Settling(entry, f)
             s == FromStart(o, j)
  <1>1. /\ payout \in Nat /\ cut \in Nat /\ cut <= payout
        /\ fee \in Nat /\ f \in Nat /\ Quantity[o] \in Nat
    BY PayoutIsAmount, ProfitFeeIsPart, SettlementAssumption
  <1>2. payout > 0 => payout + 2 * fee <= Quantity[o]
    BY SettlementAssumption
  <1>3. /\ option[o] = "Active" /\ Conclude(o, j, s)
        /\ age' = [age EXCEPT ![o] = Young]
    BY DEF Settle, Settling
  <1>4. age' \in [Options -> Ages]
    <2>1. age \in [Options -> Ages] /\ Young \in Ages
      BY DEF IInv, TypeOK, Ages, Young, Expired
    <2>2. QED
      BY <1>3, <2>1
  <1> HIDE DEF payout, cut
  <1>5. /\ entry.toBuyer \in Nat /\ entry.toWriter \in Nat /\ entry \in Entries
        /\ entry.toBuyer + entry.toWriter <= Quantity[o]
    BY <1>1, <1>2 DEF Entries, Phases
  <1>6. /\ IsJob(j) /\ j.status = "Settling" /\ j.entry = entry /\ j.fee = f
        /\ ToBuyer(j) = payout - cut /\ Profit(o, j) = cut
    BY <1>1 DEF IsJob, Settling, ToBuyer, Profit
  <1>7. TransferFees(o, j) = (IF payout - cut > 0 THEN f ELSE 0)
                               + (IF cut > 0 THEN f ELSE 0)
    BY <1>1, <1>6, TransferFeesSum
  <1>8. TransferFees(o, j) \in Nat /\ TransferFees(o, j) <= entry.toWriter
    BY <1>1, <1>2, <1>7
  <1>9. ASSUME NEW t \in Transfers, s.at = t, s.phase = PhaseOf(t),
               s.available = available, s.locked = locked, s.earned = earned,
               t = "buyer" <=> ToBuyer(j) > 0, t = "fee" => Profit(o, j) > 0
        PROVE  Agrees(o)
    <2> DEFINE e == [entry EXCEPT !.phase = PhaseOf(t)]
               k == Settling(e, f)
    <2>1. e \in Entries /\ e.phase = PhaseOf(t) /\ e.toBuyer = entry.toBuyer
          /\ e.toWriter = entry.toWriter
      BY <1>5 DEF Entries, Phases, PhaseOf
    <2>2. ToBuyer(k) = ToBuyer(j) /\ Profit(o, k) = Profit(o, j) /\ k.fee = f
      BY <1>6, <2>1 DEF Settling, ToBuyer, Profit
    <2>3. TransferFees(o, k) = TransferFees(o, j)
      <3> HIDE DEF j, k
      <3>1. TransferFees(o, k) = (IF ToBuyer(k) > 0 THEN f ELSE 0)
                                   + (IF Profit(o, k) > 0 THEN f ELSE 0)
        BY <1>1, <2>2, TransferFeesSum
      <3>2. TransferFees(o, j) = (IF ToBuyer(j) > 0 THEN f ELSE 0)
                                   + (IF Profit(o, j) > 0 THEN f ELSE 0)
        BY <1>1, <1>6, TransferFeesSum
      <3>3. QED
        BY <2>2, <3>1, <3>2
    <2>4. /\ Puts(o, "Settling", e, f, "InFlight") /\ Sends(o, t)
          /\ available' = available /\ locked' = locked /\ earned' = earned
      <3> HIDE DEF s, j, f, entry, k
      <3>1. /\ Puts(o, j.status, [j.entry EXCEPT !.phase = s.phase], j.fee,
                    "InFlight")
            /\ Sends(o, t)
            /\ available' = s.available /\ locked' = s.locked
            /\ earned' = s.earned
        BY <1>3, <1>4, <1>6, <1>9, ConcludesSent
      <3>2. QED
        BY <1>6, <1>9, <3>1
    <2>5. AgreesOn(o, e, f, t)
      <3> HIDE DEF s, j, f, entry, e
      <3>1. TransferFees(o, Settling(e, f)) <= e.toWriter
        BY <1>6, <1>8, <2>1, <2>3 DEF k
      <3>2. Profit(o, Settling(e, f)) = Profit(o, j)
        BY <2>2 DEF k
      <3>3. ToBuyer(j) = e.toBuyer
        BY <1>6, <2>1 DEF ToBuyer
      <3>4. QED
        BY <1>3, <1>5, <1>9, <2>1, <2>4, <3>1, <3>2, <3>3 DEF AgreesOn, books
    <2>6. QED
      BY <1>1, <2>1, <2>5 DEF Agrees
  <1>10. CASE ToBuyer(j) > 0
    <2> HIDE DEF s, j, f
    <2>1. /\ s.at = "buyer" /\ s.phase = "Started"
          /\ s.available = available /\ s.locked = locked /\ s.earned = earned
      BY <1>6, <1>10, StartAtBuyer DEF s, entry
    <2>2. QED
      BY <1>9, <1>10, <2>1 DEF PhaseOf, Transfers
  <1>11. ToBuyer(j) \in Nat /\ j.entry.phase = "Started"
         /\ available \in [Users -> Nat] /\ locked \in [Users -> Nat]
    BY <1>1, <1>6 DEF IInv, TypeOK
  <1>12. CASE ~(ToBuyer(j) > 0) /\ Profit(o, j) > 0
    <2> HIDE DEF s, j, f, entry
    <2>1. /\ s.at = "fee" /\ s.phase = "BalanceReleased"
          /\ s.available = available /\ s.locked = locked /\ s.earned = earned
      BY <1>6, <1>11, <1>12, StartWithoutPayout DEF s
    <2>2. QED
      BY <1>9, <1>12, <2>1 DEF PhaseOf, Transfers
  <1>13. CASE ~(ToBuyer(j) > 0) /\ ~(Profit(o, j) > 0)
    <2>1. payout = 0 /\ f = 0 /\ TransferFees(o, j) = 0
          /\ entry.toWriter = Quantity[o]
      BY <1>1, <1>6, <1>7, <1>13
    <2>2. Quantity[o] <= locked[Writer[o]]
      BY <1>3, Claims, ClaimIsLocked DEF IInv
    <2> HIDE DEF s, j, f, entry
    <2>3. /\ s.at = "done"
          /\ s.locked = Debit(locked, Writer[o], Quantity[o])
          /\ s.available = Credit(available, Writer[o], Quantity[o])
          /\ s.earned = earned
      BY <1>1, <1>6, <1>11, <1>13, <2>1, <2>2, StartWithoutPayout DEF s
    <2> DEFINE k == JobAfter(j, s)
    <2>4. k.status = "Settled" /\ k.fee = 0 /\ k.entry = NoEntry
      BY <1>6, <2>1, <2>3, JobsAreDone
    <2>5. /\ Puts(o, k.status, k.entry, k.fee, WalAfter(s)) /\ Ends(o)
          /\ available' = s.available /\ locked' = s.locked /\ earned' = s.earned
          /\ WalAfter(s) = "Succeeded"
      BY <1>3, <1>4, <2>3, ConcludesEnded
    <2> HIDE DEF k
    <2>6. QED
      BY <1>3, <2>3, <2>4, <2>5 DEF Lapses
  <1>14. QED
    BY <1>10, <1>12, <1>13

(* Writing the phase an entry has leaves it as it is.                      *)
LEMMA SameEntry ==
  ASSUME TypeOK, NEW o \in Options
  PROVE  [journal[o] EXCEPT !.phase = journal[o].phase] = journal[o]
  BY DEF TypeOK

(* An attempt sends the transfer of its phase again, or fails again.       *)
LEMMA AttemptComesTo ==
  ASSUME IInv, NEW o \in Options, Attempt(o), wal[o] \notin {"Absent", "Succeeded"}
  PROVE  Resends(o) \/ FailsAgain(o)
  <1> DEFINE j == Job(o)
             s == FromStart(o, j)
  <1>1. Conclude(o, j, s) /\ age' \in [Options -> Ages]
    BY DEF Attempt, IInv, TypeOK
  <1>2. /\ IsJob(j) /\ j.status = option[o] /\ j.entry = journal[o]
        /\ j.fee = quoted[o] /\ ToBuyer(j) = journal[o].toBuyer
    BY Entry DEF IInv
  <1>3. EntryOf(o)
    BY DEF IInv, EntriesDivide
  <1>4. /\ option[o] \in {"Settling", "Expired"}
        /\ option[o] = "Settling" <=>
             journal[o].phase \in {"Started", "BalanceReleased"}
        /\ option[o] = "Expired" <=> journal[o].phase = "Failed"
    <2>1. wal[o] \in {"InFlight", "RetryRequired", "RecoveryRequired",
                      "FailedPermanent"}
      BY DEF IInv, TypeOK, WalStatuses
    <2>2. QED
      BY <2>1 DEF IInv, RecordsAgree
  <1>5. ASSUME NEW t \in Transfers, s.at = t, s.phase = PhaseOf(t),
               journal[o].phase = PhaseOf(t), option[o] = "Settling",
               s.available = available, s.locked = locked, s.earned = earned
        PROVE  Resends(o)
    <2> HIDE DEF s, j
    <2>1. /\ Puts(o, j.status, [j.entry EXCEPT !.phase = s.phase], j.fee,
                  "InFlight")
          /\ Sends(o, t)
          /\ available' = s.available /\ locked' = s.locked
          /\ earned' = s.earned
      BY <1>1, <1>2, <1>5, ConcludesSent
    <2>2. [j.entry EXCEPT !.phase = s.phase] = journal[o]
      BY <1>2, <1>5, SameEntry DEF IInv
    <2>3. ResendsTo(o, t)
      BY <1>2, <1>5, <2>1, <2>2 DEF ResendsTo, books
    <2>4. QED
      BY <2>3 DEF Resends
  <1>6. CASE journal[o].phase = "Started"
    <2>1. /\ s.at = "buyer" /\ s.phase = "Started"
          /\ s.available = available /\ s.locked = locked /\ s.earned = earned
      <3> HIDE DEF j
      <3>1. ToBuyer(j) > 0 /\ j.status # "Settled" /\ j.entry.phase = "Started"
        BY <1>2, <1>3, <1>4, <1>6 DEF EntryOf, j
      <3>2. QED
        BY <3>1, StartAtBuyer
    <2> HIDE DEF s
    <2>2. QED
      BY <1>4, <1>5, <1>6, <2>1 DEF PhaseOf, Transfers
  <1>7. CASE journal[o].phase = "BalanceReleased"
    <2>1. /\ s.at = "fee" /\ s.phase = "BalanceReleased"
          /\ s.available = available /\ s.locked = locked /\ s.earned = earned
      <3> HIDE DEF j
      <3>1. Profit(o, j) > 0 /\ j.status # "Settled"
            /\ j.entry.phase = "BalanceReleased"
        BY <1>2, <1>3, <1>4, <1>7 DEF EntryOf, j
      <3>2. QED
        BY <3>1, StartAtFee
    <2> HIDE DEF s
    <2>2. QED
      BY <1>4, <1>5, <1>7, <2>1 DEF PhaseOf, Transfers
  <1>8. CASE journal[o].phase = "Failed"
    <2> DEFINE k == JobAfter(j, s)
    <2> HIDE DEF j
    <2>1. /\ s.at = "permanent" /\ s.phase = "Failed"
          /\ s.available = available /\ s.locked = locked /\ s.earned = earned
      BY <1>2, <1>4, <1>8, StartOfFailed
    <2> HIDE DEF s
    <2>2. k.status = "Expired" /\ k.fee = quoted[o] /\ k.entry = journal[o]
      BY <1>2, <1>4, <1>8, <2>1, JobsStayFailed
    <2>3. /\ Puts(o, k.status, k.entry, k.fee, WalAfter(s)) /\ Ends(o)
          /\ available' = s.available /\ locked' = s.locked /\ earned' = s.earned
          /\ WalAfter(s) = "FailedPermanent"
      BY <1>1, <2>1, ConcludesEnded
    <2> HIDE DEF k
    <2>4. FailsAgain(o)
      BY <1>4, <1>8, <2>1, <2>2, <2>3 DEF FailsAgain, books
    <2>5. QED
      BY <2>4
  <1>9. QED
    BY <1>4, <1>6, <1>7, <1>8

(* An answer pays the buyer, closes the settlement, or gives it up.        *)
LEMMA ResumeComesTo ==
  ASSUME IInv, NEW o \in Options, Resume(o)
  PROVE  Pays(o) \/ PaysAndCloses(o) \/ Closes(o) \/ GivesUp(o)
  <1> DEFINE j == Job(o)
             w == Writer[o]
             rest == journal[o].toWriter
             paid == journal[o].toBuyer
  <1>1. at[o] # "idle" /\ age' \in [Options -> Ages]
    BY DEF Resume, IInv, TypeOK
  <1>2. /\ IsJob(j) /\ j.status = option[o] /\ j.entry = journal[o]
        /\ j.fee = quoted[o] /\ ToBuyer(j) = paid
        /\ Profit(o, j) = Quantity[o] - rest - paid /\ Profit(o, j) \in Int
        /\ TransferFees(o, j) \in Nat
        /\ paid \in Nat /\ rest \in Nat /\ Quantity[o] \in Nat
        /\ w \in Users /\ Buyer[o] \in Users
    BY Entry DEF IInv
  <1>3. EntryOf(o) /\ CallsOf(o)
    BY DEF IInv, EntriesDivide, CallsFitPhase
  <1>4. option[o] = "Settling" /\ journal[o].phase = PhaseOf(at[o])
    BY <1>1, <1>3 DEF IInv, RecordsAgree, CallsOf
  <1>5. paid + rest <= Quantity[o] /\ TransferFees(o, j) <= rest
    BY <1>3, <1>4 DEF EntryOf
  <1>6. /\ available \in [Users -> Nat] /\ locked \in [Users -> Nat]
        /\ earned \in Nat /\ locked[w] \in Nat
    BY <1>2 DEF IInv, TypeOK
  <1>7. Claim[o] <= locked[w]
    BY ClaimIsLocked
  <1>8. CASE reply[o] = "rejected"
    <2> DEFINE s == Stop(Run(j), "permanent")
               k == JobAfter(j, s)
    <2>1. Conclude(o, j, s)
      BY <1>8 DEF Resume
    <2>2. /\ s.at = "permanent" /\ s.phase = journal[o].phase
          /\ s.available = available /\ s.locked = locked /\ s.earned = earned
      <3>1. j.entry = journal[o]
        BY <1>2
      <3> HIDE DEF j
      <3>2. /\ IsRun(Run(j)) /\ Run(j).phase = journal[o].phase
            /\ Run(j).available = available /\ Run(j).locked = locked
            /\ Run(j).earned = earned
        BY ONLY <3>1, RunFields
      <3>3. QED
        BY ONLY <3>2, StopFields
    <2> HIDE DEF s, j
    <2>3. s.phase \notin {"None", "Failed"}
      BY <1>4, <2>2 DEF PhaseOf
    <2>4. /\ k.status = "Expired" /\ k.fee = quoted[o]
          /\ k.entry = [journal[o] EXCEPT !.phase = "Failed"]
      BY <1>2, <1>4, <2>2, <2>3, JobsFail
    <2>5. /\ Puts(o, k.status, k.entry, k.fee, WalAfter(s)) /\ Ends(o)
          /\ available' = s.available /\ locked' = s.locked /\ earned' = s.earned
          /\ WalAfter(s) = "FailedPermanent"
      BY <1>1, <2>1, <2>2, ConcludesEnded
    <2> HIDE DEF k
    <2>6. GivesUp(o)
      BY <1>1, <1>8, <2>2, <2>4, <2>5 DEF GivesUp, books
    <2>7. QED
      BY <2>6
  <1>9. CASE reply[o] = "ok" /\ at[o] = "buyer"
    <2> DEFINE s == BuyerPaid(o, j)
    <2>1. Conclude(o, j, s)
      BY <1>9 DEF Resume
    <2>2. journal[o].phase = "Started" /\ Claim[o] = Quantity[o]
      BY <1>4, <1>9, Claims DEF PhaseOf, IInv
    <2>3. paid <= locked[w] /\ paid + rest <= locked[w]
      <3> HIDE DEF j, w, paid, rest
      <3>1. QED
        BY <1>2, <1>5, <1>6, <1>7, <2>2
    <2>4. CASE Profit(o, j) > 0
      <3>1. /\ s.at = "fee" /\ s.phase = "BalanceReleased"
            /\ s.available = Credit(available, Buyer[o], paid)
            /\ s.locked = Debit(locked, w, paid) /\ s.earned = earned
        <4> HIDE DEF j
        <4>1. QED
          BY <1>2, <1>6, <2>3, <2>4, AfterBuyerPaid
      <3> HIDE DEF s, j
      <3>2. /\ Puts(o, j.status, [j.entry EXCEPT !.phase = s.phase], j.fee,
                    "InFlight")
            /\ Sends(o, "fee")
            /\ available' = s.available /\ locked' = s.locked
            /\ earned' = s.earned
        BY <1>1, <1>2, <2>1, <3>1, ConcludesSent DEF Transfers
      <3>3. Pays(o)
        BY <1>2, <1>4, <1>9, <2>4, <3>1, <3>2 DEF Pays, j
      <3>4. QED
        BY <3>3
    <2>5. CASE ~(Profit(o, j) > 0)
      <3> DEFINE k == JobAfter(j, s)
      <3>1. paid + rest = Quantity[o]
        BY <1>2, <1>5, <2>5
      <3>2. /\ s.at = "done"
            /\ s.available = Credit(Credit(available, Buyer[o], paid),
                                    w, ToWriter(o, j))
            /\ s.locked = Debit(locked, w, Quantity[o]) /\ s.earned = earned
        <4> HIDE DEF j
        <4>1. QED
          BY <1>2, <1>5, <1>6, <2>3, <2>5, <3>1, AfterBuyerPaid
      <3> HIDE DEF s, j
      <3>3. k.status = "Settled" /\ k.fee = quoted[o] /\ k.entry = NoEntry
        BY <1>2, <3>2, JobsAreDone
      <3>4. /\ Puts(o, k.status, k.entry, k.fee, WalAfter(s)) /\ Ends(o)
            /\ available' = s.available /\ locked' = s.locked
            /\ earned' = s.earned /\ WalAfter(s) = "Succeeded"
        BY <1>1, <2>1, <3>2, ConcludesEnded
      <3> HIDE DEF k
      <3>5. PaysAndCloses(o)
        BY <1>2, <1>9, <2>5, <3>2, <3>3, <3>4 DEF PaysAndCloses, j
      <3>6. QED
        BY <3>5
    <2>6. QED
      BY <2>4, <2>5
  <1>10. CASE reply[o] = "ok" /\ at[o] = "fee"
    <2> DEFINE s == FeePaid(o, j)
               k == JobAfter(j, s)
    <2>1. Conclude(o, j, s)
      BY <1>10 DEF Resume
    <2>2. journal[o].phase = "BalanceReleased" /\ Claim[o] = Quantity[o] - paid
      BY <1>4, <1>10, Claims DEF PhaseOf, IInv
    <2>3. Profit(o, j) \in Nat /\ Profit(o, j) + rest = Quantity[o] - paid
          /\ Profit(o, j) + rest <= locked[w]
      <3>1. Profit(o, j) \in Nat /\ Profit(o, j) + rest = Quantity[o] - paid
        BY <1>2, <1>5
      <3> HIDE DEF j, w, paid, rest
      <3>2. QED
        BY <1>2, <1>6, <1>7, <2>2, <3>1
    <2>4. /\ s.at = "done"
          /\ s.available = Credit(available, w, ToWriter(o, j))
          /\ s.locked = Debit(locked, w, Quantity[o] - paid)
          /\ s.earned = earned + Profit(o, j)
      <3> HIDE DEF j
      <3>1. QED
        BY <1>2, <1>5, <1>6, <2>2, <2>3, AfterFeePaid
    <2> HIDE DEF s, j
    <2>5. k.status = "Settled" /\ k.fee = quoted[o] /\ k.entry = NoEntry
      BY <1>2, <2>4, JobsAreDone
    <2>6. /\ Puts(o, k.status, k.entry, k.fee, WalAfter(s)) /\ Ends(o)
          /\ available' = s.available /\ locked' = s.locked
          /\ earned' = s.earned /\ WalAfter(s) = "Succeeded"
      BY <1>1, <2>1, <2>4, ConcludesEnded
    <2> HIDE DEF k
    <2>7. Closes(o)
      BY <1>2, <1>10, <2>4, <2>5, <2>6 DEF Closes, j
    <2>8. QED
      BY <2>7
  <1>11. QED
    BY <1>8, <1>9, <1>10 DEF Resume

-----------------------------------------------------------------------------
(* What a step leaves of the options it is not about.                      *)
Same(x) ==
  /\ option'[x] = option[x] /\ journal'[x] = journal[x] /\ wal'[x] = wal[x]
  /\ quoted'[x] = quoted[x] /\ at'[x] = at[x] /\ reply'[x] = reply[x]
  /\ \A t \in Transfers : /\ <<x, t>> \in net' <=> <<x, t>> \in net
                          /\ <<x, t>> \in executed' <=> <<x, t>> \in executed

Touches(o) == \A x \in Options : x # o => Same(x)

RecordsOf(o) ==
  /\ option[o] = "Active" <=> wal[o] = "Absent" /\ option[o] # "Settled"
  /\ option[o] = "Settling" <=>
       wal[o] \in {"InFlight", "RetryRequired", "RecoveryRequired"}
  /\ option[o] = "Settling" <=>
       journal[o].phase \in {"Started", "BalanceReleased"}
  /\ option[o] = "Expired" <=> journal[o].phase = "Failed"
  /\ option[o] = "Expired" <=> wal[o] = "FailedPermanent"
  /\ at[o] # "idle" => option[o] = "Settling"

OptionInv(o) == RecordsOf(o) /\ EntryOf(o) /\ CallsOf(o) /\ EffectsOf(o)

(* Four parts of the invariant speak of one option at a time.              *)
LEMMA InvByOption ==
  (RecordsAgree /\ EntriesDivide /\ CallsFitPhase /\ EffectsFitPhase)
    <=> \A o \in Options : OptionInv(o)
  BY DEF RecordsAgree, EntriesDivide, CallsFitPhase, EffectsFitPhase,
         OptionInv, RecordsOf

(* A job is what the three records make it.                                *)
LEMMA SameJob ==
  ASSUME NEW o, option'[o] = option[o], journal'[o] = journal[o],
         quoted'[o] = quoted[o]
  PROVE  /\ Job(o)' = Job(o) /\ ToBuyer(Job(o))' = ToBuyer(Job(o))
         /\ Profit(o, Job(o))' = Profit(o, Job(o))
         /\ TransferFees(o, Job(o))' = TransferFees(o, Job(o))
         /\ \A t : Amount(o, Job(o), t)' = Amount(o, Job(o), t)
  <1>1. Job(o)' = Job(o)
    BY DEF Job
  <1>2. QED
    BY <1>1 DEF ToBuyer, Profit, TransferFees, Amount

(* What an untouched option keeps.                                         *)
LEMMA OthersStay ==
  ASSUME TypeOK, NEW o \in Options, Touches(o), NEW x \in Options, x # o
  PROVE  /\ OptionInv(x) => OptionInv(x)'
         /\ Claim'[x] = Claim[x]
         /\ Outgoing'[x] = Outgoing[x] /\ Incoming'[x] = Incoming[x]
  <1>1. Same(x)
    BY DEF Touches
  <1>2. /\ Job(x)' = Job(x) /\ ToBuyer(Job(x))' = ToBuyer(Job(x))
        /\ Profit(x, Job(x))' = Profit(x, Job(x))
        /\ TransferFees(x, Job(x))' = TransferFees(x, Job(x))
        /\ \A t : Amount(x, Job(x), t)' = Amount(x, Job(x), t)
    BY <1>1, SameJob DEF Same
  <1>3. RecordsOf(x) => RecordsOf(x)'
    BY <1>1 DEF Same, RecordsOf
  <1>4. EntryOf(x) => EntryOf(x)'
    BY <1>1, <1>2 DEF Same, EntryOf
  <1>5. at[x] \in Transfers \cup {"idle"}
    BY DEF TypeOK
  <1>6. CallsOf(x) => CallsOf(x)'
    <2>1. at[x] # "idle" =>
            (<<x, at[x]>> \in net' <=> <<x, at[x]>> \in net)
      BY <1>1, <1>5 DEF Same
    <2>2. QED
      BY <1>1, <2>1 DEF Same, CallsOf, PhaseOf
  <1>7. CallsOf(x) /\ EffectsOf(x) => EffectsOf(x)'
    <2>1. at[x] # "idle" =>
            (<<x, at[x]>> \in executed' <=> <<x, at[x]>> \in executed)
      BY <1>1, <1>5 DEF Same
    <2>2. QED
      BY <1>1, <1>2, <2>1 DEF Same, CallsOf, EffectsOf, Transfers
  <1>8. Claim'[x] = Claim[x]
    BY <1>1, <1>2 DEF Same, Claim, Held
  <1>9. /\ "buyer" \in Transfers /\ "fee" \in Transfers
        /\ Left(x, "buyer")' = Left(x, "buyer") /\ Left(x, "fee")' = Left(x, "fee")
    BY <1>1, <1>2 DEF Same, Left, Unbooked, Transfers
  <1>10. Outgoing'[x] = Outgoing[x]
    BY <1>1, <1>9 DEF Same, Outgoing, Leaving
  <1>11. Incoming'[x] = Incoming[x]
    BY <1>1, <1>2 DEF Same, Incoming, Arriving, Unbooked, Transfers
  <1>12. QED
    BY <1>3, <1>4, <1>6, <1>7, <1>8, <1>10, <1>11 DEF OptionInv

(* It is enough to look at the option a step touches.                      *)
LEMMA InvOfAll ==
  ASSUME NEW o \in Options, Touches(o), IInv, OptionInv(o)'
  PROVE  (RecordsAgree /\ EntriesDivide /\ CallsFitPhase /\ EffectsFitPhase)'
  <1>1. \A x \in Options : OptionInv(x)
    BY InvByOption DEF IInv
  <1>2. \A x \in Options : OptionInv(x)'
    BY <1>1, OthersStay DEF IInv
  <1>3. QED
    BY <1>2 DEF RecordsAgree, EntriesDivide, CallsFitPhase, EffectsFitPhase,
                OptionInv, RecordsOf

-----------------------------------------------------------------------------
(* The sums after a step: it is enough to look at the option it is about.  *)
LEMMA Flows ==
  ASSUME TypeOK, EffectsFitPhase, NEW o \in Options
  PROVE  /\ Outgoing[o] \in Int /\ Incoming[o] \in Int
         /\ option[o] # "Settling" => Outgoing[o] = 0 /\ Incoming[o] = 0
         /\ (option[o] = "Settling" /\ journal[o].phase = "Started") =>
              /\ Outgoing[o] = IF <<o, "buyer">> \in executed
                               THEN quoted[o] + journal[o].toBuyer ELSE 0
              /\ Incoming[o] = IF <<o, "buyer">> \in executed
                               THEN journal[o].toBuyer ELSE 0
         /\ (option[o] = "Settling" /\ journal[o].phase = "BalanceReleased") =>
              /\ Outgoing[o] =
                   (IF journal[o].toBuyer > 0 THEN quoted[o] ELSE 0)
                     + (IF <<o, "fee">> \in executed
                        THEN quoted[o] + Profit(o, Job(o)) ELSE 0)
              /\ Incoming[o] = 0
  <1>1. EffectsOf(o)
    BY DEF EffectsFitPhase
  <1>2. /\ quoted[o] \in Nat /\ journal[o].toBuyer \in Nat
        /\ Profit(o, Job(o)) \in Int /\ ToBuyer(Job(o)) = journal[o].toBuyer
    BY Entry
  <1>3. /\ Outgoing[o] = IF option[o] = "Settling"
                         THEN Left(o, "buyer") + Left(o, "fee") ELSE 0
        /\ Incoming[o] = IF option[o] = "Settling" THEN Arriving(o) ELSE 0
    BY DEF Outgoing, Incoming, Leaving
  <1>4. /\ Left(o, "buyer") = IF <<o, "buyer">> \in executed
                              THEN quoted[o] + Unbooked(o, "buyer") ELSE 0
        /\ Left(o, "fee") = IF <<o, "fee">> \in executed
                            THEN quoted[o] + Profit(o, Job(o)) ELSE 0
        /\ Unbooked(o, "buyer") = IF journal[o].phase = "BalanceReleased"
                                  THEN 0 ELSE journal[o].toBuyer
        /\ Arriving(o) = IF <<o, "buyer">> \in executed
                         THEN Unbooked(o, "buyer") ELSE 0
    BY <1>2 DEF Left, Unbooked, Arriving, Amount
  <1>5. /\ journal[o].phase = "Started" => <<o, "fee">> \notin executed
        /\ journal[o].phase = "BalanceReleased" =>
             (<<o, "buyer">> \in executed <=> journal[o].toBuyer > 0)
    BY <1>1, <1>2 DEF EffectsOf
  <1>6. QED
    BY <1>2, <1>3, <1>4, <1>5

(* Collateral stays covered when what is taken from it is what its claim   *)
(* loses, or the claim is given up.                                        *)
LEMMA ClaimsAfter ==
  ASSUME IInv, NEW o \in Options, Touches(o), Claim'[o] \in Nat,
         locked' \in [Users -> Nat],
         option[o] = "Expired" => option'[o] = "Expired",
         \/ \A u \in Users : locked'[u] = locked[u] +
              (IF u = Writer[o] THEN Claim'[o] - Claim[o] ELSE 0)
         \/ locked' = locked /\ option'[o] = "Expired" /\ Claim'[o] <= Claim[o]
  PROVE  ClaimsCovered'
  <1> DEFINE sum(u) == SumFunctionOnSet(Claim, WrittenBy(u))
             sum2(u) == SumFunctionOnSet(Claim', WrittenBy(u))
  <1>1. SUFFICES ASSUME NEW u \in Users
                 PROVE  /\ sum2(u) <= locked'[u]
                        /\ (\A x \in WrittenBy(u) : option'[x] # "Expired") =>
                             sum2(u) = locked'[u]
    BY DEF ClaimsCovered, WrittenBy
  <1>2. \A x \in Options : Claim[x] \in Nat /\ (x # o => Claim'[x] = Claim[x])
    BY Claims, OthersStay DEF IInv
  <1>3. \A x \in Options : Claim[x] \in Int /\ Claim'[x] \in Int
    BY <1>2
  <1>4. /\ sum(u) <= locked[u]
        /\ (\A x \in WrittenBy(u) : option[x] # "Expired") => sum(u) = locked[u]
    BY DEF IInv, ClaimsCovered
  <1>5. (\A x \in WrittenBy(u) : option'[x] # "Expired") =>
          (\A x \in WrittenBy(u) : option[x] # "Expired")
    BY FiniteParts DEF Touches, Same
  <1>6. locked[u] \in Nat /\ locked'[u] \in Nat
    BY DEF IInv, TypeOK
  <1>7. CASE u # Writer[o]
    <2>1. o \notin WrittenBy(u)
      BY <1>7 DEF WrittenBy
    <2>2. \A x \in WrittenBy(u) : Claim[x] \in Int /\ Claim'[x] = Claim[x]
      BY <1>2, <1>3, <2>1, FiniteParts
    <2>3. sum2(u) = sum(u)
      BY <2>2, FiniteParts, SumOfEqual
    <2>4. locked'[u] = locked[u]
      BY <1>6, <1>7
    <2> HIDE DEF sum, sum2
    <2>5. QED
      BY <1>4, <1>5, <2>3, <2>4
  <1>8. CASE u = Writer[o]
    <2>1. o \in WrittenBy(u)
      BY <1>8 DEF WrittenBy
    <2>2. sum(u) \in Int /\ sum2(u) = sum(u) + Claim'[o] - Claim[o]
      BY <1>2, <1>3, <2>1, FiniteParts, SumAfterChange
    <2> HIDE DEF sum, sum2
    <2>3. CASE locked'[u] = locked[u] + (Claim'[o] - Claim[o])
      BY <1>3, <1>4, <1>5, <1>6, <2>2, <2>3
    <2>4. CASE /\ locked' = locked /\ option'[o] = "Expired"
               /\ Claim'[o] <= Claim[o]
      BY <1>3, <1>4, <1>6, <2>1, <2>2, <2>4
    <2>5. QED
      BY <1>8, <2>3, <2>4
  <1>9. QED
    BY <1>7, <1>8

(* The books stay matched when what changes outside the canister and on    *)
(* its books differs by what the transfers under way account for.          *)
LEMMA BooksAfter ==
  ASSUME IInv, TypeOK', NEW o \in Options, Touches(o),
         Outgoing'[o] \in Int, Incoming'[o] \in Int,
         option[o] = "Expired" => option'[o] = "Expired",
         \A u \in Users :
           \/ option'[o] = "Expired" /\ u \in {Writer[o], Buyer[o]}
           \/ funds'[u] - funds[u] +
                (IF u = Writer[o] THEN Outgoing'[o] - Outgoing[o] ELSE 0)
              = (available'[u] - available[u]) + (locked'[u] - locked[u]) +
                (IF u = Buyer[o] THEN Incoming'[o] - Incoming[o] ELSE 0)
  PROVE  BooksMatch'
  <1> DEFINE out(u) == SumFunctionOnSet(Outgoing, WrittenBy(u))
             in(u) == SumFunctionOnSet(Incoming, BoughtBy(u))
             out2(u) == SumFunctionOnSet(Outgoing', WrittenBy(u))
             in2(u) == SumFunctionOnSet(Incoming', BoughtBy(u))
  <1>1. SUFFICES ASSUME NEW u \in Users,
                        \A x \in WrittenBy(u) \cup BoughtBy(u) :
                          option'[x] # "Expired"
                 PROVE  funds'[u] + out2(u) = available'[u] + locked'[u] + in2(u)
    BY DEF BooksMatch, WrittenBy, BoughtBy
  <1>2. \A x \in Options : x # o =>
          Outgoing'[x] = Outgoing[x] /\ Incoming'[x] = Incoming[x]
    BY OthersStay DEF IInv
  <1>3. \A x \in Options : /\ Outgoing[x] \in Int /\ Incoming[x] \in Int
                           /\ Outgoing'[x] \in Int /\ Incoming'[x] \in Int
    BY <1>2, Flows DEF IInv
  <1>4. \A x \in WrittenBy(u) \cup BoughtBy(u) : option[x] # "Expired"
    BY <1>1, FiniteParts DEF Touches, Same
  <1>5. funds[u] + out(u) = available[u] + locked[u] + in(u)
    BY <1>4 DEF IInv, BooksMatch
  <1>6. /\ out(u) \in Int
        /\ out2(u) = out(u) + (IF u = Writer[o] THEN Outgoing'[o] - Outgoing[o]
                                                ELSE 0)
    <2>1. CASE u = Writer[o]
      <3>1. o \in WrittenBy(u)
        BY <2>1 DEF WrittenBy
      <3>2. \A y \in WrittenBy(u) :
              /\ Outgoing[y] \in Int /\ Outgoing'[y] \in Int
              /\ y # o => Outgoing'[y] = Outgoing[y]
        BY <1>2, <1>3, FiniteParts
      <3>3. out(u) \in Int /\ out2(u) = out(u) + Outgoing'[o] - Outgoing[o]
        <4> DEFINE S == WrittenBy(u)
                   f == Outgoing
                   g == Outgoing'
        <4>1. /\ IsFiniteSet(S) /\ o \in S
              /\ \A y \in S : f[y] \in Int /\ g[y] \in Int /\ (y # o => g[y] = f[y])
          BY <3>1, <3>2, FiniteParts
        <4> HIDE DEF S, f, g
        <4>2. /\ SumFunctionOnSet(f, S) \in Int
              /\ SumFunctionOnSet(g, S) = SumFunctionOnSet(f, S) + g[o] - f[o]
          BY <4>1, SumAfterChange
        <4>3. QED
          BY <4>2 DEF S, f, g
      <3> HIDE DEF out, out2
      <3>4. QED
        BY <1>3, <2>1, <3>3
    <2>2. CASE u # Writer[o]
      <3>1. o \notin WrittenBy(u)
        BY <2>2 DEF WrittenBy
      <3>2. \A x \in WrittenBy(u) :
              Outgoing[x] \in Int /\ Outgoing'[x] = Outgoing[x]
        BY <1>2, <1>3, <3>1, FiniteParts
      <3>3. out2(u) = out(u)
        BY <3>2, FiniteParts, SumOfEqual
      <3>4. out(u) \in Int
        BY <3>2, FiniteParts, SumTakesAny
      <3> HIDE DEF out, out2
      <3>5. QED
        BY <2>2, <3>3, <3>4
    <2>3. QED
      BY <2>1, <2>2
  <1>7. /\ in(u) \in Int
        /\ in2(u) = in(u) + (IF u = Buyer[o] THEN Incoming'[o] - Incoming[o]
                                             ELSE 0)
    <2>1. CASE u = Buyer[o]
      <3>1. o \in BoughtBy(u)
        BY <2>1 DEF BoughtBy
      <3>2. \A y \in BoughtBy(u) :
              /\ Incoming[y] \in Int /\ Incoming'[y] \in Int
              /\ y # o => Incoming'[y] = Incoming[y]
        BY <1>2, <1>3, FiniteParts
      <3>3. in(u) \in Int /\ in2(u) = in(u) + Incoming'[o] - Incoming[o]
        <4> DEFINE S == BoughtBy(u)
                   f == Incoming
                   g == Incoming'
        <4>1. /\ IsFiniteSet(S) /\ o \in S
              /\ \A y \in S : f[y] \in Int /\ g[y] \in Int /\ (y # o => g[y] = f[y])
          BY <3>1, <3>2, FiniteParts
        <4> HIDE DEF S, f, g
        <4>2. /\ SumFunctionOnSet(f, S) \in Int
              /\ SumFunctionOnSet(g, S) = SumFunctionOnSet(f, S) + g[o] - f[o]
          BY <4>1, SumAfterChange
        <4>3. QED
          BY <4>2 DEF S, f, g
      <3> HIDE DEF in, in2
      <3>4. QED
        BY <1>3, <2>1, <3>3
    <2>2. CASE u # Buyer[o]
      <3>1. o \notin BoughtBy(u)
        BY <2>2 DEF BoughtBy
      <3>2. \A x \in BoughtBy(u) :
              Incoming[x] \in Int /\ Incoming'[x] = Incoming[x]
        BY <1>2, <1>3, <3>1, FiniteParts
      <3>3. in2(u) = in(u)
        BY <3>2, FiniteParts, SumOfEqual
      <3>4. in(u) \in Int
        BY <3>2, FiniteParts, SumTakesAny
      <3> HIDE DEF in, in2
      <3>5. QED
        BY <2>2, <3>3, <3>4
    <2>3. QED
      BY <2>1, <2>2
  <1>8. /\ funds[u] \in Nat /\ available[u] \in Nat /\ locked[u] \in Nat
        /\ funds'[u] \in Nat /\ available'[u] \in Nat /\ locked'[u] \in Nat
    BY DEF IInv, TypeOK
  <1>9. ~(option'[o] = "Expired" /\ u \in {Writer[o], Buyer[o]})
    BY <1>1 DEF WrittenBy, BoughtBy
  <1>10. funds'[u] - funds[u] +
           (IF u = Writer[o] THEN Outgoing'[o] - Outgoing[o] ELSE 0)
         = (available'[u] - available[u]) + (locked'[u] - locked[u]) +
           (IF u = Buyer[o] THEN Incoming'[o] - Incoming[o] ELSE 0)
    BY <1>9
  <1>11. /\ Outgoing[o] \in Int /\ Incoming[o] \in Int
         /\ Outgoing'[o] \in Int /\ Incoming'[o] \in Int
    BY <1>3
  <1> DEFINE more == IF u = Writer[o] THEN Outgoing'[o] - Outgoing[o] ELSE 0
             more2 == IF u = Buyer[o] THEN Incoming'[o] - Incoming[o] ELSE 0
  <1>12. more \in Int /\ more2 \in Int
    BY <1>11
  <1>13. /\ funds'[u] - funds[u] + more
              = (available'[u] - available[u]) + (locked'[u] - locked[u]) + more2
         /\ out2(u) = out(u) + more /\ in2(u) = in(u) + more2
         /\ out(u) \in Int /\ in(u) \in Int
    BY <1>6, <1>7, <1>10
  <1> HIDE DEF out, out2, in, in2, more, more2
  <1>14. QED
    BY <1>5, <1>8, <1>12, <1>13

-----------------------------------------------------------------------------
(* The invariant after a message of the canister.                          *)
LEMMA Put ==
  ASSUME IInv, NEW o \in Options, NEW status \in OptionStatuses,
         NEW entry \in Entries, NEW fee \in Nat, NEW walStatus \in WalStatuses,
         Puts(o, status, entry, fee, walStatus),
         (\E t \in Transfers : Sends(o, t)) \/ Ends(o),
         available' \in [Users -> Nat], locked' \in [Users -> Nat], earned' \in Nat
  PROVE  /\ TypeOK' /\ Touches(o)
         /\ option'[o] = status /\ journal'[o] = entry /\ quoted'[o] = fee
         /\ wal'[o] = walStatus /\ reply'[o] = "none"
         /\ executed' = executed /\ funds' = funds
         /\ \A t \in Transfers : Sends(o, t) =>
              at'[o] = t /\ net' = net \cup {<<o, t>>}
         /\ Ends(o) => at'[o] = "idle" /\ net' = net
  <1>1. TypeOK
    BY DEF IInv
  <1>2. /\ option' = [option EXCEPT ![o] = status]
        /\ journal' = [journal EXCEPT ![o] = entry]
        /\ quoted' = [quoted EXCEPT ![o] = fee]
        /\ wal' = [wal EXCEPT ![o] = walStatus]
        /\ reply' = [reply EXCEPT ![o] = "none"]
        /\ age' \in [Options -> Ages]
        /\ expired' = expired /\ executed' = executed
        /\ ledgerFee' = ledgerFee /\ funds' = funds
    BY DEF Puts
  <1>3. PICK d \in Transfers \cup {"idle"} :
          /\ at' = [at EXCEPT ![o] = d]
          /\ net' = net \/ (d \in Transfers /\ net' = net \cup {<<o, d>>})
    <2>1. CASE Ends(o)
      <3>1. at' = [at EXCEPT ![o] = "idle"] /\ net' = net
        BY <2>1 DEF Ends
      <3>2. QED
        BY <3>1
    <2>2. CASE \E t \in Transfers : Sends(o, t)
      BY <2>2 DEF Sends
    <2>3. QED
      BY <2>1, <2>2
  <1>4. /\ option'[o] = status /\ journal'[o] = entry /\ quoted'[o] = fee
        /\ wal'[o] = walStatus /\ reply'[o] = "none" /\ at'[o] = d
    BY <1>1, <1>2, <1>3 DEF TypeOK
  <1>5. TypeOK'
    BY <1>1, <1>2, <1>3 DEF TypeOK, Entries
  <1>6. Touches(o)
    <2>1. SUFFICES ASSUME NEW x \in Options, x # o PROVE Same(x)
      BY DEF Touches
    <2>2. /\ option'[x] = option[x] /\ journal'[x] = journal[x]
          /\ wal'[x] = wal[x] /\ quoted'[x] = quoted[x]
          /\ at'[x] = at[x] /\ reply'[x] = reply[x]
      BY <1>1, <1>2, <1>3, <2>1 DEF TypeOK
    <2>3. \A t \in Transfers : <<x, t>> \in net' <=> <<x, t>> \in net
      BY <1>3, <2>1
    <2>4. QED
      BY <1>2, <2>2, <2>3 DEF Same
  <1>7. \A t \in Transfers : Sends(o, t) =>
          at'[o] = t /\ net' = net \cup {<<o, t>>}
    BY <1>1 DEF Sends, TypeOK
  <1>8. Ends(o) => at'[o] = "idle" /\ net' = net
    BY <1>1 DEF Ends, TypeOK
  <1>9. QED
    BY <1>2, <1>4, <1>5, <1>6, <1>7, <1>8

(* The invariant after a step, from what is to be shown of it.             *)
LEMMA Kept ==
  ASSUME IInv, NEW o \in Options, Touches(o), TypeOK', OptionInv(o)',
         ClaimsCovered', BooksMatch'
  PROVE  IInv'
  BY InvOfAll DEF IInv

(* The values after a step, from those of the option's records.            *)
LEMMA ClaimNext ==
  ASSUME NEW o \in Options
  PROVE  /\ option'[o] \in {"Settled", "Expired"} => Claim'[o] = 0
         /\ (option'[o] = "Settling" /\ journal'[o].phase = "Started") =>
              Claim'[o] = Quantity[o]
         /\ (option'[o] = "Settling" /\ journal'[o].phase = "BalanceReleased") =>
              Claim'[o] = Quantity[o] - journal'[o].toBuyer
  <1>1. Job(o)'.entry = journal'[o]
    BY DEF Job
  <1>2. Claim'[o] = IF option'[o] = "Expired" THEN 0 ELSE Held(o)'
    BY DEF Claim
  <1>3. QED
    BY <1>1, <1>2 DEF Held, ToBuyer

(* No transfer of an option that is not settling is accounted for.         *)
LEMMA FlowsNext ==
  ASSUME NEW o \in Options, option'[o] # "Settling"
  PROVE  Outgoing'[o] = 0 /\ Incoming'[o] = 0
  BY DEF Outgoing, Incoming

(* The end of an option without a payout keeps the invariant.              *)
LEMMA LapsesKeeps ==
  ASSUME IInv, NEW o \in Options, Lapses(o)
  PROVE  IInv'
  <1> DEFINE w == Writer[o]
             q == Quantity[o]
  <1>1. /\ w \in Users /\ q \in Nat /\ NoEntry \in Entries
        /\ available \in [Users -> Nat] /\ locked \in [Users -> Nat]
        /\ earned \in Nat /\ locked[w] \in Nat
    BY SettlementAssumption DEF IInv, TypeOK, NoEntry, Entries, Phases
  <1>2. /\ Claim[o] = q /\ q <= locked[w] /\ option[o] = "Active"
    BY Claims, ClaimIsLocked DEF IInv, Lapses
  <1>3. /\ available' = Credit(available, w, q) /\ locked' = Debit(locked, w, q)
        /\ earned' = earned
        /\ Puts(o, "Settled", NoEntry, 0, "Succeeded") /\ Ends(o)
    BY DEF Lapses
  <1> HIDE DEF w, q
  <1>4. /\ available' \in [Users -> Nat] /\ locked' \in [Users -> Nat]
        /\ \A u \in Users :
             /\ available'[u] = IF u = w THEN available[u] + q ELSE available[u]
             /\ locked'[u] = IF u = w THEN locked[u] - q ELSE locked[u]
    <2>1. /\ available' \in [Users -> Nat]
          /\ \A u \in Users :
               available'[u] = IF u = w THEN available[u] + q ELSE available[u]
      BY <1>1, <1>3, CreditFacts, SMTT(30)
    <2>2. /\ locked' \in [Users -> Nat]
          /\ \A u \in Users :
               locked'[u] = IF u = w THEN locked[u] - q ELSE locked[u]
      BY <1>1, <1>2, <1>3, DebitFacts
    <2>3. QED
      BY <2>1, <2>2
  <1>5. /\ TypeOK' /\ Touches(o)
        /\ option'[o] = "Settled" /\ journal'[o] = NoEntry /\ quoted'[o] = 0
        /\ wal'[o] = "Succeeded" /\ reply'[o] = "none"
        /\ executed' = executed /\ funds' = funds
        /\ at'[o] = "idle" /\ net' = net
    BY <1>1, <1>3, <1>4, Put DEF OptionStatuses, WalStatuses
  <1>6. OptionInv(o)'
    <2>1. NoEntry.phase = "None"
      BY DEF NoEntry
    <2>2. CallsOf(o)
      BY DEF IInv, CallsFitPhase
    <2>3. \A t \in Transfers : <<o, t>> \notin net
      <3>1. journal[o] = NoEntry
        BY <1>2 DEF IInv, EntriesDivide, EntryOf
      <3>2. QED
        BY <2>1, <2>2, <3>1 DEF CallsOf, PhaseOf
    <2>4. QED
      BY <1>5, <2>1, <2>3 DEF OptionInv, RecordsOf, EntryOf, CallsOf, EffectsOf
  <1>7. Claim'[o] = 0 /\ Outgoing'[o] = 0 /\ Incoming'[o] = 0
        /\ Outgoing[o] = 0 /\ Incoming[o] = 0
    BY <1>2, <1>5, ClaimNext, FlowsNext, Flows DEF IInv
  <1>8. ClaimsCovered'
    <2>1. \A u \in Users : locked'[u] = locked[u] +
            (IF u = Writer[o] THEN Claim'[o] - Claim[o] ELSE 0)
      BY <1>1, <1>2, <1>4, <1>7 DEF w
    <2>2. QED
      BY <1>2, <1>4, <1>5, <1>7, <2>1, ClaimsAfter
  <1>9. BooksMatch'
    <2>1. ASSUME NEW u \in Users
          PROVE  funds'[u] - funds[u] +
                   (IF u = Writer[o] THEN Outgoing'[o] - Outgoing[o] ELSE 0)
                 = (available'[u] - available[u]) + (locked'[u] - locked[u]) +
                   (IF u = Buyer[o] THEN Incoming'[o] - Incoming[o] ELSE 0)
      <3>1. /\ funds[u] \in Nat /\ available[u] \in Nat /\ locked[u] \in Nat
        BY DEF IInv, TypeOK
      <3>2. funds'[u] = funds[u]
        BY <1>5
      <3>3. available'[u] - available[u] = 0 - (locked'[u] - locked[u])
        BY <1>1, <1>4, <3>1
      <3>4. available'[u] \in Nat /\ locked'[u] \in Nat
        BY <1>4
      <3>5. QED
        BY <1>7, <3>1, <3>2, <3>3, <3>4
    <2>2. QED
      BY <1>2, <1>5, <1>7, <2>1, BooksAfter
  <1>10. QED
    BY <1>5, <1>6, <1>8, <1>9, Kept

(* A step that moves no money.                                             *)
LEMMA BooksStay ==
  ASSUME IInv, TypeOK', NEW o \in Options, Touches(o),
         available' = available, locked' = locked, funds' = funds,
         option[o] = "Expired" => option'[o] = "Expired",
         Claim'[o] = Claim[o], Outgoing'[o] = Outgoing[o],
         Incoming'[o] = Incoming[o]
  PROVE  ClaimsCovered' /\ BooksMatch'
  <1>1. /\ Claim[o] \in Nat /\ Outgoing[o] \in Int /\ Incoming[o] \in Int
        /\ Writer[o] \in Users /\ Buyer[o] \in Users
        /\ available \in [Users -> Nat] /\ locked \in [Users -> Nat]
        /\ funds \in [Users -> Nat]
    <2>1. TypeOK /\ RecordsAgree /\ EntriesDivide /\ EffectsFitPhase
      BY DEF IInv
    <2>2. Claim[o] \in Nat /\ Outgoing[o] \in Int /\ Incoming[o] \in Int
      BY <2>1, Claims, Flows
    <2>3. Writer[o] \in Users /\ Buyer[o] \in Users
      BY SettlementAssumption
    <2>4. /\ available \in [Users -> Nat] /\ locked \in [Users -> Nat]
          /\ funds \in [Users -> Nat]
      BY <2>1 DEF TypeOK
    <2>5. QED
      BY <2>2, <2>3, <2>4
  <1>2. ClaimsCovered'
    <2>1. \A u \in Users : locked'[u] = locked[u] +
            (IF u = Writer[o] THEN Claim'[o] - Claim[o] ELSE 0)
      BY <1>1
    <2>2. QED
      BY <1>1, <2>1, ClaimsAfter
  <1>3. BooksMatch'
    <2>1. ASSUME NEW u \in Users
          PROVE  funds'[u] - funds[u] +
                   (IF u = Writer[o] THEN Outgoing'[o] - Outgoing[o] ELSE 0)
                 = (available'[u] - available[u]) + (locked'[u] - locked[u]) +
                   (IF u = Buyer[o] THEN Incoming'[o] - Incoming[o] ELSE 0)
      BY <1>1
    <2>2. QED
      BY <1>1, <2>1, BooksAfter
  <1>4. QED
    BY <1>2, <1>3

(* Balances that are left alone keep their types.                          *)
LEMMA BooksKept ==
  ASSUME IInv, UNCHANGED books
  PROVE  /\ available' = available /\ locked' = locked /\ earned' = earned
         /\ available' \in [Users -> Nat] /\ locked' \in [Users -> Nat]
         /\ earned' \in Nat
  BY DEF books, IInv, TypeOK

(* The beginning of a settlement keeps the invariant.                      *)
LEMMA AgreesKeeps ==
  ASSUME IInv, NEW o \in Options, Agrees(o)
  PROVE  IInv'
  <1>1. PICK e \in Entries, fee \in Nat, t \in Transfers : AgreesOn(o, e, fee, t)
    BY DEF Agrees
  <1>2. /\ option[o] = "Active"
        /\ Puts(o, "Settling", e, fee, "InFlight") /\ Sends(o, t)
        /\ UNCHANGED books
    BY <1>1 DEF AgreesOn
  <1>3. /\ TypeOK' /\ Touches(o)
        /\ option'[o] = "Settling" /\ journal'[o] = e /\ quoted'[o] = fee
        /\ wal'[o] = "InFlight" /\ reply'[o] = "none"
        /\ executed' = executed /\ funds' = funds
        /\ at'[o] = t /\ net' = net \cup {<<o, t>>}
    BY <1>2, BooksKept, Put DEF OptionStatuses, WalStatuses
  <1>4. e.phase = PhaseOf(t) /\ e.toBuyer \in Nat /\ e.toWriter \in Nat
    BY <1>1 DEF AgreesOn, Entries
  <1>5. \A c \in Transfers : <<o, c>> \notin net /\ <<o, c>> \notin executed
    <2>1. CallsOf(o) /\ EntryOf(o) /\ EffectsOf(o)
      BY DEF IInv, CallsFitPhase, EntriesDivide, EffectsFitPhase
    <2>2. journal[o] = NoEntry /\ NoEntry.phase = "None"
      BY <1>2, <2>1 DEF EntryOf, NoEntry
    <2>3. QED
      BY <1>2, <2>1, <2>2 DEF CallsOf, EffectsOf, PhaseOf
  <1>6. Job(o)' = Settling(e, fee)
    BY <1>3 DEF Job, Settling
  <1>7. OptionInv(o)'
    <2>1. ToBuyer(Job(o))' = e.toBuyer
      BY <1>6 DEF ToBuyer, Settling
    <2>2. TransferFees(o, Job(o))' <= e.toWriter
          /\ (t = "fee" => Profit(o, Job(o))' > 0)
          /\ e.toBuyer + e.toWriter <= Quantity[o]
          /\ (t = "buyer" <=> e.toBuyer > 0)
      BY <1>1, <1>6 DEF AgreesOn
    <2>3. EntryOf(o)'
      BY <1>3, <1>4, <2>1, <2>2 DEF EntryOf, PhaseOf, Transfers
    <2>4. RecordsOf(o)'
      BY <1>3, <1>4 DEF RecordsOf, PhaseOf
    <2>5. CallsOf(o)'
      BY <1>3, <1>4, <1>5 DEF CallsOf, PhaseOf, Transfers
    <2>6. EffectsOf(o)'
      BY <1>3, <1>4, <1>5, <2>1, <2>2 DEF EffectsOf, PhaseOf, Transfers
    <2>7. QED
      BY <2>3, <2>4, <2>5, <2>6 DEF OptionInv
  <1>8. Claim'[o] = Claim[o]
    <2>1. t = "fee" => ~(e.toBuyer > 0)
      BY <1>1 DEF AgreesOn
    <2>2. Quantity[o] \in Nat /\ Claim[o] = Quantity[o]
      BY <1>2, Claims, SettlementAssumption, SMTT(30) DEF IInv
    <2>3. CASE t = "buyer"
      BY <1>3, <1>4, <2>2, <2>3, ClaimNext DEF PhaseOf
    <2>4. CASE t = "fee"
      <3>1. e.toBuyer = 0
        BY <1>4, <2>1, <2>4
      <3>2. Claim'[o] = Quantity[o] - e.toBuyer
        BY <1>3, <1>4, <2>4, ClaimNext DEF PhaseOf
      <3>3. QED
        BY <2>2, <3>1, <3>2
    <2>5. QED
      BY <2>3, <2>4 DEF Transfers
  <1>9. Outgoing'[o] = 0 /\ Incoming'[o] = 0 /\ Outgoing[o] = 0 /\ Incoming[o] = 0
    <2>1. Outgoing[o] = 0 /\ Incoming[o] = 0
      BY <1>2, Flows DEF IInv
    <2>2. Left(o, "buyer")' = 0 /\ Left(o, "fee")' = 0 /\ Arriving(o)' = 0
      BY <1>3, <1>5 DEF Left, Arriving, Transfers
    <2>3. QED
      BY <2>1, <2>2 DEF Outgoing, Incoming, Leaving
  <1>10. ClaimsCovered' /\ BooksMatch'
    BY <1>2, <1>3, <1>8, <1>9, BooksKept, BooksStay
  <1>11. QED
    BY <1>3, <1>7, <1>10, Kept

(* Another attempt keeps the invariant.                                    *)
LEMMA ResendsKeeps ==
  ASSUME IInv, NEW o \in Options, Resends(o)
  PROVE  IInv'
  <1>1. PICK t \in Transfers : ResendsTo(o, t)
    BY DEF Resends
  <1>2. /\ option[o] = "Settling" /\ journal[o].phase = PhaseOf(t)
        /\ Puts(o, "Settling", journal[o], quoted[o], "InFlight") /\ Sends(o, t)
        /\ UNCHANGED books
    BY <1>1 DEF ResendsTo
  <1>3. journal[o] \in Entries /\ quoted[o] \in Nat
    BY DEF IInv, TypeOK, Entries
  <1>4. /\ TypeOK' /\ Touches(o)
        /\ option'[o] = "Settling" /\ journal'[o] = journal[o]
        /\ quoted'[o] = quoted[o]
        /\ wal'[o] = "InFlight" /\ reply'[o] = "none"
        /\ executed' = executed /\ funds' = funds
        /\ at'[o] = t /\ net' = net \cup {<<o, t>>}
    BY <1>2, <1>3, BooksKept, Put DEF OptionStatuses, WalStatuses
  <1>5. /\ Job(o)' = Job(o) /\ ToBuyer(Job(o))' = ToBuyer(Job(o))
        /\ Profit(o, Job(o))' = Profit(o, Job(o))
        /\ TransferFees(o, Job(o))' = TransferFees(o, Job(o))
        /\ \A c : Amount(o, Job(o), c)' = Amount(o, Job(o), c)
    BY <1>2, <1>4, SameJob
  <1>6. OptionInv(o)'
    <2>1. RecordsOf(o) /\ EntryOf(o) /\ CallsOf(o) /\ EffectsOf(o)
      BY InvByOption DEF IInv, OptionInv
    <2>2. RecordsOf(o)'
      BY <1>2, <1>4, <2>1 DEF RecordsOf
    <2>3. EntryOf(o)'
      BY <1>2, <1>4, <1>5, <2>1 DEF EntryOf
    <2>4. CallsOf(o)'
      BY <1>2, <1>4, <2>1 DEF CallsOf, PhaseOf, Transfers
    <2>5. EffectsOf(o)'
      BY <1>2, <1>4, <1>5, <2>1 DEF EffectsOf
    <2>6. QED
      BY <2>2, <2>3, <2>4, <2>5 DEF OptionInv
  <1>7. /\ Claim'[o] = Claim[o] /\ Outgoing'[o] = Outgoing[o]
        /\ Incoming'[o] = Incoming[o]
    <2>1. Claim'[o] = Claim[o]
      BY <1>2, <1>4, <1>5 DEF Claim, Held
    <2>2. Left(o, "buyer")' = Left(o, "buyer") /\ Left(o, "fee")' = Left(o, "fee")
          /\ Arriving(o)' = Arriving(o)
      BY <1>4, <1>5 DEF Left, Arriving, Unbooked
    <2>3. QED
      BY <1>2, <1>4, <2>1, <2>2 DEF Outgoing, Incoming, Leaving
  <1>8. ClaimsCovered' /\ BooksMatch'
    BY <1>2, <1>4, <1>7, BooksKept, BooksStay
  <1>9. QED
    BY <1>4, <1>6, <1>8, Kept

(* Another attempt at a failed settlement keeps the invariant.             *)
LEMMA FailsAgainKeeps ==
  ASSUME IInv, NEW o \in Options, FailsAgain(o)
  PROVE  IInv'
  <1>1. /\ option[o] = "Expired"
        /\ Puts(o, "Expired", journal[o], quoted[o], "FailedPermanent")
        /\ Ends(o) /\ UNCHANGED books
    BY DEF FailsAgain
  <1>2. journal[o] \in Entries /\ quoted[o] \in Nat
    BY DEF IInv, TypeOK, Entries
  <1>3. /\ TypeOK' /\ Touches(o)
        /\ option'[o] = "Expired" /\ journal'[o] = journal[o]
        /\ quoted'[o] = quoted[o]
        /\ wal'[o] = "FailedPermanent" /\ reply'[o] = "none"
        /\ executed' = executed /\ funds' = funds
        /\ at'[o] = "idle" /\ net' = net
    BY <1>1, <1>2, BooksKept, Put DEF OptionStatuses, WalStatuses
  <1>4. /\ ToBuyer(Job(o))' = ToBuyer(Job(o))
        /\ Profit(o, Job(o))' = Profit(o, Job(o))
        /\ TransferFees(o, Job(o))' = TransferFees(o, Job(o))
    BY <1>1, <1>3, SameJob
  <1>5. OptionInv(o)'
    <2>1. RecordsOf(o) /\ EntryOf(o) /\ CallsOf(o) /\ EffectsOf(o)
      BY InvByOption DEF IInv, OptionInv
    <2>2. RecordsOf(o)'
      BY <1>1, <1>3, <2>1 DEF RecordsOf
    <2>3. EntryOf(o)'
      BY <1>1, <1>3, <1>4, <2>1 DEF EntryOf
    <2>4. CallsOf(o)'
      BY <1>1, <1>3, <2>1 DEF CallsOf
    <2>5. EffectsOf(o)'
      BY <1>1, <1>3, <1>4, <2>1 DEF EffectsOf
    <2>6. QED
      BY <2>2, <2>3, <2>4, <2>5 DEF OptionInv
  <1>6. /\ Claim'[o] = 0 /\ Claim[o] = 0 /\ Outgoing'[o] = 0 /\ Outgoing[o] = 0
        /\ Incoming'[o] = 0 /\ Incoming[o] = 0
    BY <1>1, <1>3, Claims, ClaimNext, Flows, FlowsNext DEF IInv
  <1>7. ClaimsCovered' /\ BooksMatch'
    BY <1>1, <1>3, <1>6, BooksKept, BooksStay
  <1>8. QED
    BY <1>3, <1>5, <1>7, Kept

(* A run that pays a to the buyer and b to the writer, c of it collateral. *)
LEMMA PaidOut ==
  ASSUME IInv, TypeOK', NEW o \in Options, Touches(o), funds' = funds,
         option[o] # "Expired",
         NEW a \in Nat, NEW b \in Nat, NEW c \in Nat,
         \A u \in Users :
           /\ available'[u] = available[u] + (IF u = Buyer[o] THEN a ELSE 0)
                                           + (IF u = Writer[o] THEN b ELSE 0)
           /\ locked'[u] = locked[u] - (IF u = Writer[o] THEN c ELSE 0),
         Claim'[o] \in Nat, Claim'[o] = Claim[o] - c,
         Outgoing'[o] \in Int, Outgoing'[o] = Outgoing[o] + b - c,
         Incoming'[o] \in Int, Incoming'[o] = Incoming[o] - a
  PROVE  ClaimsCovered' /\ BooksMatch'
  <1>1. Claim[o] \in Nat /\ Outgoing[o] \in Int /\ Incoming[o] \in Int
    <2>1. TypeOK /\ RecordsAgree /\ EntriesDivide /\ EffectsFitPhase
      BY DEF IInv
    <2>2. QED
      BY <2>1, Claims, Flows
  <1>2. \A u \in Users :
          /\ available[u] \in Nat /\ locked[u] \in Nat /\ funds[u] \in Nat
          /\ available'[u] \in Nat /\ locked'[u] \in Nat
    BY DEF IInv, TypeOK
  <1>3. ClaimsCovered'
    <2>1. \A u \in Users : locked'[u] = locked[u] +
            (IF u = Writer[o] THEN Claim'[o] - Claim[o] ELSE 0)
      BY <1>1, <1>2
    <2>2. locked' \in [Users -> Nat]
      BY DEF TypeOK
    <2>3. QED
      BY <2>1, <2>2, ClaimsAfter
  <1>4. BooksMatch'
    <2>1. ASSUME NEW u \in Users
          PROVE  funds'[u] - funds[u] +
                   (IF u = Writer[o] THEN Outgoing'[o] - Outgoing[o] ELSE 0)
                 = (available'[u] - available[u]) + (locked'[u] - locked[u]) +
                   (IF u = Buyer[o] THEN Incoming'[o] - Incoming[o] ELSE 0)
      <3> DEFINE toB == IF u = Buyer[o] THEN a ELSE 0
                 toW == IF u = Writer[o] THEN b ELSE 0
                 from == IF u = Writer[o] THEN c ELSE 0
      <3>1. toB \in Nat /\ toW \in Nat /\ from \in Nat
        OBVIOUS
      <3>2. /\ available'[u] = available[u] + toB + toW
            /\ locked'[u] = locked[u] - from
        OBVIOUS
      <3>3. (IF u = Writer[o] THEN Outgoing'[o] - Outgoing[o] ELSE 0) = toW - from
        BY <1>1
      <3>4. (IF u = Buyer[o] THEN Incoming'[o] - Incoming[o] ELSE 0) = 0 - toB
        BY <1>1
      <3>5. funds'[u] - funds[u] = 0
        BY <1>2
      <3> HIDE DEF toB, toW, from
      <3>6. (available'[u] - available[u]) + (locked'[u] - locked[u])
              = toB + toW - from
        BY <1>2, <3>1, <3>2
      <3>7. QED
        BY <3>1, <3>3, <3>4, <3>5, <3>6
    <2>2. QED
      BY <2>1, BooksAfter
  <1>5. QED
    BY <1>3, <1>4

(* The settlement an answer is awaited for.                                *)
LEMMA Awaiting ==
  ASSUME IInv, NEW o \in Options, NEW t \in Transfers, at[o] = t, reply[o] = "ok"
  PROVE  /\ option[o] = "Settling" /\ journal[o].phase = PhaseOf(t)
         /\ <<o, t>> \in executed
         /\ \A x \in Transfers : <<o, x>> \notin net
         /\ journal[o] \in Entries /\ quoted[o] \in Nat
         /\ journal[o].toBuyer + journal[o].toWriter <= Quantity[o]
         /\ TransferFees(o, Job(o)) <= journal[o].toWriter
         /\ ToWriter(o, Job(o)) = journal[o].toWriter - TransferFees(o, Job(o))
         /\ ToWriter(o, Job(o)) \in Nat
         /\ Claim[o] <= locked[Writer[o]]
  <1>1. RecordsOf(o) /\ EntryOf(o) /\ CallsOf(o) /\ EffectsOf(o)
    BY InvByOption DEF IInv, OptionInv
  <1>2. /\ option[o] = "Settling" /\ journal[o].phase = PhaseOf(t)
        /\ <<o, t>> \in executed /\ <<o, t>> \notin net
    BY <1>1 DEF RecordsOf, CallsOf, EffectsOf, Transfers
  <1>3. \A x \in Transfers : <<o, x>> \notin net
    BY <1>1, <1>2 DEF CallsOf, PhaseOf, Transfers
  <1>4. /\ journal[o].toBuyer + journal[o].toWriter <= Quantity[o]
        /\ TransferFees(o, Job(o)) <= journal[o].toWriter
    BY <1>1, <1>2 DEF EntryOf
  <1>5. journal[o] \in Entries /\ quoted[o] \in Nat
    BY DEF IInv, TypeOK, Entries
  <1>6. /\ TransferFees(o, Job(o)) \in Nat /\ journal[o].toWriter \in Nat
        /\ Job(o).entry = journal[o]
    BY Entry DEF IInv
  <1> DEFINE fees == TransferFees(o, Job(o))
             rest == journal[o].toWriter
  <1>7. ToWriter(o, Job(o)) = IF rest < fees THEN 0 ELSE rest - fees
    BY <1>6 DEF ToWriter
  <1> HIDE DEF fees, rest
  <1>8. ToWriter(o, Job(o)) = rest - fees /\ ToWriter(o, Job(o)) \in Nat
    BY <1>4, <1>6, <1>7 DEF fees, rest
  <1>9. QED
    BY <1>2, <1>3, <1>4, <1>5, <1>8, ClaimIsLocked DEF fees, rest

(* Paying the buyer, with the profit fee still to be collected, keeps the  *)
(* invariant.                                                              *)
LEMMA PaysKeeps ==
  ASSUME IInv, NEW o \in Options, Pays(o)
  PROVE  IInv'
  <1> DEFINE e == [journal[o] EXCEPT !.phase = "BalanceReleased"]
             w == Writer[o]
             b == Buyer[o]
             paid == journal[o].toBuyer
  <1>1. at[o] = "buyer" /\ reply[o] = "ok" /\ "buyer" \in Transfers
    BY DEF Pays, Transfers
  <1>2. /\ option[o] = "Settling" /\ journal[o].phase = "Started"
        /\ <<o, "buyer">> \in executed
        /\ \A x \in Transfers : <<o, x>> \notin net
        /\ journal[o] \in Entries /\ quoted[o] \in Nat
        /\ Claim[o] <= locked[w]
    BY <1>1, Awaiting DEF PhaseOf
  <1>3. RecordsOf(o) /\ EntryOf(o) /\ EffectsOf(o)
    BY InvByOption DEF IInv, OptionInv
  <1>4. /\ ToBuyer(Job(o)) = paid /\ paid \in Nat /\ paid > 0
        /\ w \in Users /\ b \in Users /\ Quantity[o] \in Nat
        /\ Profit(o, Job(o)) \in Int /\ Profit(o, Job(o)) > 0
    BY <1>2, <1>3, Entry DEF IInv, EntryOf, Pays
  <1>5. /\ Claim[o] = Quantity[o] /\ Claim[o] \in Nat /\ paid <= Quantity[o]
        /\ locked[w] \in Nat /\ paid <= locked[w]
    <2>1. Claim[o] = Quantity[o]
      BY <1>2, Claims DEF IInv
    <2>2. journal[o].toBuyer + journal[o].toWriter <= Quantity[o]
          /\ journal[o].toWriter \in Nat
      BY <1>1, Awaiting DEF Entries
    <2>3. locked[w] \in Nat
      BY <1>4 DEF IInv, TypeOK
    <2>4. paid <= Quantity[o]
      BY <1>4, <2>2
    <2> HIDE DEF w, paid
    <2>5. QED
      BY <1>2, <1>4, <2>1, <2>3, <2>4
  <1>6. /\ available' = Credit(available, b, paid)
        /\ locked' = Debit(locked, w, paid) /\ earned' = earned
        /\ Puts(o, "Settling", e, quoted[o], "InFlight") /\ Sends(o, "fee")
    BY <1>4 DEF Pays
  <1>7. /\ available \in [Users -> Nat] /\ locked \in [Users -> Nat]
        /\ earned \in Nat
    BY DEF IInv, TypeOK
  <1>8. /\ e \in Entries /\ e.phase = "BalanceReleased" /\ e.toBuyer = paid
        /\ e.toWriter = journal[o].toWriter
    BY <1>2 DEF Entries, Phases
  <1> HIDE DEF e, w, b, paid
  <1>9. /\ available' \in [Users -> Nat]
        /\ \A u \in Users :
             available'[u] = IF u = b THEN available[u] + paid ELSE available[u]
    <2>1. available' = Credit(available, b, paid)
      BY <1>6
    <2>2. available \in [Users -> Nat] /\ b \in Users /\ paid \in Nat
      BY <1>4, <1>7
    <2>3. QED
      BY <2>1, <2>2, CreditFacts
  <1>10. /\ locked' \in [Users -> Nat]
         /\ \A u \in Users :
              locked'[u] = IF u = w THEN locked[u] - paid ELSE locked[u]
    BY <1>4, <1>5, <1>6, <1>7, DebitFacts
  <1>11. /\ TypeOK' /\ Touches(o)
         /\ option'[o] = "Settling" /\ journal'[o] = e /\ quoted'[o] = quoted[o]
         /\ wal'[o] = "InFlight" /\ reply'[o] = "none"
         /\ executed' = executed /\ funds' = funds
         /\ at'[o] = "fee" /\ net' = net \cup {<<o, "fee">>}
    BY <1>2, <1>6, <1>7, <1>8, <1>9, <1>10, Put
       DEF OptionStatuses, WalStatuses, Transfers
  <1>12. /\ Job(o)'.entry = e /\ Job(o)'.fee = quoted[o]
         /\ ToBuyer(Job(o))' = paid
         /\ Profit(o, Job(o))' = Profit(o, Job(o))
         /\ TransferFees(o, Job(o))' = TransferFees(o, Job(o))
    <2>1. /\ Job(o)'.entry = e /\ Job(o)'.fee = quoted[o]
          /\ Job(o).entry = journal[o] /\ Job(o).fee = quoted[o]
      BY <1>11 DEF Job
    <2>2. ToBuyer(Job(o))' = paid /\ Profit(o, Job(o))' = Profit(o, Job(o))
      BY <1>8, <2>1 DEF ToBuyer, Profit, paid
    <2>3. \A t : Amount(o, Job(o), t)' = Amount(o, Job(o), t)
      BY <1>4, <2>2 DEF Amount
    <2>4. QED
      BY <2>1, <2>2, <2>3 DEF TransferFees
  <1>13. OptionInv(o)'
    <2>1. RecordsOf(o)'
      BY <1>8, <1>11 DEF RecordsOf
    <2>2. EntryOf(o)'
      <3>1. /\ journal[o].toBuyer + journal[o].toWriter <= Quantity[o]
            /\ TransferFees(o, Job(o)) <= journal[o].toWriter
        BY <1>1, Awaiting
      <3>2. QED
        BY <1>4, <1>8, <1>11, <1>12, <3>1 DEF EntryOf, paid
    <2>3. CallsOf(o)'
      BY <1>2, <1>8, <1>11 DEF CallsOf, PhaseOf, Transfers
    <2>4. EffectsOf(o)'
      BY <1>2, <1>4, <1>8, <1>11, <1>12 DEF EffectsOf
    <2>5. QED
      BY <2>1, <2>2, <2>3, <2>4 DEF OptionInv
  <1>14. Claim'[o] = Claim[o] - paid /\ Claim'[o] \in Nat
    <2>1. Claim'[o] = Quantity[o] - e.toBuyer
      BY <1>8, <1>11, ClaimNext
    <2>2. QED
      BY <1>4, <1>5, <1>8, <2>1
  <1>15. /\ Outgoing'[o] = quoted[o] /\ Incoming'[o] = 0
         /\ Outgoing[o] = quoted[o] + paid /\ Incoming[o] = paid
    <2>1. Outgoing[o] = quoted[o] + paid /\ Incoming[o] = paid
      BY <1>2, Flows DEF IInv, paid
    <2>2. <<o, "fee">> \notin executed
      BY <1>2, <1>3 DEF EffectsOf
    <2>3. /\ Left(o, "buyer")' = quoted[o] + 0 /\ Left(o, "fee")' = 0
          /\ Arriving(o)' = 0
      <3>1. Unbooked(o, "buyer")' = 0
        BY <1>8, <1>11 DEF Unbooked
      <3>2. QED
        BY <1>2, <1>11, <2>2, <3>1 DEF Left, Arriving
    <2>4. QED
      BY <1>2, <1>11, <2>1, <2>3 DEF Outgoing, Incoming, Leaving
  <1>16. \A u \in Users :
           /\ available'[u] = available[u] + (IF u = b THEN paid ELSE 0)
                                           + (IF u = w THEN 0 ELSE 0)
           /\ locked'[u] = locked[u] - (IF u = w THEN paid ELSE 0)
    BY <1>4, <1>7, <1>9, <1>10
  <1>17. ClaimsCovered' /\ BooksMatch'
    <2>1. /\ Outgoing'[o] \in Int /\ Outgoing'[o] = Outgoing[o] + 0 - paid
          /\ Incoming'[o] \in Int /\ Incoming'[o] = Incoming[o] - paid
      BY <1>2, <1>4, <1>15
    <2>2. option[o] # "Expired" /\ 0 \in Nat
      BY <1>2
    <2>3. QED
      BY <1>4, <1>11, <1>14, <1>16, <2>1, <2>2, PaidOut DEF b, w
  <1>18. QED
    BY <1>11, <1>13, <1>17, Kept

(* The last message of a settlement, for both of its forms.                *)
LEMMA EndKeeps ==
  ASSUME IInv, NEW o \in Options, NEW t \in Transfers, at[o] = t, reply[o] = "ok",
         Puts(o, "Settled", NoEntry, quoted[o], "Succeeded"), Ends(o),
         NEW a \in Nat, NEW b \in Nat,
         available' \in [Users -> Nat], locked' \in [Users -> Nat],
         earned' \in Nat,
         \A u \in Users :
           /\ available'[u] = available[u] + (IF u = Buyer[o] THEN a ELSE 0)
                                           + (IF u = Writer[o] THEN b ELSE 0)
           /\ locked'[u] = locked[u] - (IF u = Writer[o] THEN Claim[o] ELSE 0),
         Outgoing[o] = Claim[o] - b, Incoming[o] = a
  PROVE  IInv'
  <1>1. /\ option[o] = "Settling" /\ quoted[o] \in Nat
        /\ \A x \in Transfers : <<o, x>> \notin net
    BY Awaiting
  <1>2. NoEntry \in Entries /\ NoEntry.phase = "None"
    BY DEF NoEntry, Entries, Phases
  <1>3. /\ TypeOK' /\ Touches(o)
        /\ option'[o] = "Settled" /\ journal'[o] = NoEntry
        /\ wal'[o] = "Succeeded" /\ reply'[o] = "none"
        /\ executed' = executed /\ funds' = funds
        /\ at'[o] = "idle" /\ net' = net
    BY <1>1, <1>2, Put DEF OptionStatuses, WalStatuses
  <1>4. OptionInv(o)'
    BY <1>1, <1>2, <1>3
       DEF OptionInv, RecordsOf, EntryOf, CallsOf, EffectsOf
  <1>5. Claim'[o] = 0 /\ Outgoing'[o] = 0 /\ Incoming'[o] = 0
        /\ Claim[o] \in Nat
    BY <1>3, ClaimNext, FlowsNext, Claims DEF IInv
  <1>6. ClaimsCovered' /\ BooksMatch'
    <2> DEFINE c == Claim[o]
    <2>1. /\ c \in Nat /\ Claim'[o] \in Nat /\ Claim'[o] = Claim[o] - c
          /\ Outgoing'[o] \in Int /\ Outgoing'[o] = Outgoing[o] + b - c
          /\ Incoming'[o] \in Int /\ Incoming'[o] = Incoming[o] - a
          /\ option[o] # "Expired"
      BY <1>1, <1>5
    <2>2. \A u \in Users :
            /\ available'[u] = available[u] + (IF u = Buyer[o] THEN a ELSE 0)
                                            + (IF u = Writer[o] THEN b ELSE 0)
            /\ locked'[u] = locked[u] - (IF u = Writer[o] THEN c ELSE 0)
      OBVIOUS
    <2> HIDE DEF c
    <2>3. TypeOK' /\ Touches(o) /\ funds' = funds
      BY <1>3
    <2>4. QED
      BY <2>1, <2>2, <2>3, PaidOut, ZenonT(40)
  <1>7. QED
    BY <1>3, <1>4, <1>6, Kept

(* Paying the buyer and the writer in one message keeps the invariant.     *)
LEMMA PaysAndClosesKeeps ==
  ASSUME IInv, NEW o \in Options, PaysAndCloses(o)
  PROVE  IInv'
  <1> DEFINE w == Writer[o]
             b == Buyer[o]
             q == Quantity[o]
             paid == journal[o].toBuyer
             rest == journal[o].toWriter
             back == ToWriter(o, Job(o))
             fees == TransferFees(o, Job(o))
  <1>1. /\ at[o] = "buyer" /\ reply[o] = "ok" /\ "buyer" \in Transfers
        /\ ~(Profit(o, Job(o)) > 0)
        /\ Puts(o, "Settled", NoEntry, quoted[o], "Succeeded") /\ Ends(o)
    BY DEF PaysAndCloses, Transfers
  <1>2. /\ option[o] = "Settling" /\ journal[o].phase = "Started"
        /\ <<o, "buyer">> \in executed
        /\ paid + rest <= q /\ fees <= rest
        /\ back = rest - fees /\ back \in Nat /\ Claim[o] <= locked[w]
    BY <1>1, Awaiting DEF PhaseOf
  <1>3. RecordsOf(o) /\ EntryOf(o) /\ EffectsOf(o)
    BY InvByOption DEF IInv, OptionInv
  <1>4. /\ ToBuyer(Job(o)) = paid /\ paid \in Nat /\ rest \in Nat /\ q \in Nat
        /\ w \in Users /\ b \in Users
        /\ Profit(o, Job(o)) = q - rest - paid
        /\ quoted[o] \in Nat
        /\ fees = (IF paid > 0 THEN quoted[o] ELSE 0)
                    + (IF Profit(o, Job(o)) > 0 THEN quoted[o] ELSE 0)
    BY Entry DEF IInv
  <1>5. paid > 0
    BY <1>2, <1>3, <1>4 DEF EntryOf
  <1>6. /\ available' = Credit(Credit(available, b, paid), w, back)
        /\ locked' = Debit(locked, w, q) /\ earned' = earned
    BY <1>4 DEF PaysAndCloses
  <1>7. Claim[o] = q
    BY <1>2, Claims DEF IInv
  <1>8. Outgoing[o] = quoted[o] + paid /\ Incoming[o] = paid
    BY <1>2, Flows DEF IInv
  <1>9. /\ available \in [Users -> Nat] /\ locked \in [Users -> Nat]
        /\ earned' \in Nat
    BY <1>6 DEF IInv, TypeOK
  <1> DEFINE profit == Profit(o, Job(o))
             quote == quoted[o]
             out == Outgoing[o]
  <1>10. /\ profit = q - rest - paid /\ ~(profit > 0) /\ quote \in Nat
         /\ fees = (IF paid > 0 THEN quote ELSE 0)
                     + (IF profit > 0 THEN quote ELSE 0)
         /\ out = quote + paid
    BY <1>1, <1>4, <1>8
  <1> HIDE DEF w, b, q, paid, rest, back, fees, profit, quote, out
  <1>11. fees = quote /\ paid + rest = q /\ back = rest - fees
    BY <1>2, <1>4, <1>5, <1>10
  <1>12. out = q - back
    BY <1>2, <1>4, <1>10, <1>11
  <1> DEFINE avail == Credit(available, b, paid)
  <1>13. /\ avail \in [Users -> Nat]
         /\ \A u \in Users :
              avail[u] = IF u = b THEN available[u] + paid ELSE available[u]
    BY <1>4, <1>9, CreditFacts, ZenonT(40)
  <1> HIDE DEF avail
  <1>14. /\ available' \in [Users -> Nat]
         /\ \A u \in Users :
              available'[u] = IF u = w THEN avail[u] + back ELSE avail[u]
    <2>1. available' = Credit(avail, w, back) /\ w \in Users /\ back \in Nat
      BY <1>2, <1>4, <1>6 DEF avail
    <2>2. QED
      BY <1>13, <2>1, CreditFacts
  <1>15. /\ locked' \in [Users -> Nat]
         /\ \A u \in Users :
              locked'[u] = IF u = w THEN locked[u] - q ELSE locked[u]
    <2>1. locked' = Debit(locked, w, q) /\ w \in Users /\ q \in Nat
          /\ q <= locked[w]
      BY <1>2, <1>4, <1>6, <1>7
    <2>2. QED
      BY <1>9, <2>1, DebitFacts
  <1>16. \A u \in Users :
           /\ available'[u] = available[u] + (IF u = b THEN paid ELSE 0)
                                           + (IF u = w THEN back ELSE 0)
           /\ locked'[u] = locked[u] - (IF u = w THEN Claim[o] ELSE 0)
    <2>1. ASSUME NEW u \in Users
          PROVE  /\ available'[u] = available[u] + (IF u = b THEN paid ELSE 0)
                                                 + (IF u = w THEN back ELSE 0)
                 /\ locked'[u] = locked[u] - (IF u = w THEN q ELSE 0)
      <3>1. available[u] \in Nat /\ locked[u] \in Nat /\ avail[u] \in Nat
            /\ paid \in Nat /\ back \in Nat /\ q \in Nat
        BY <1>2, <1>4, <1>9, <1>13
      <3>2. QED
        BY <1>13, <1>14, <1>15, <3>1
    <2>2. QED
      BY <1>7, <2>1
  <1>17. Outgoing[o] = Claim[o] - back /\ Incoming[o] = paid
    BY <1>7, <1>8, <1>12 DEF out, paid
  <1>18. paid \in Nat /\ back \in Nat
    BY <1>2, <1>4
  <1>19. QED
    BY <1>1, <1>9, <1>14, <1>15, <1>16, <1>17, <1>18, EndKeeps, ZenonT(40) DEF w, b

(* Collecting the profit fee and paying the writer keeps the invariant.    *)
LEMMA ClosesKeeps ==
  ASSUME IInv, NEW o \in Options, Closes(o)
  PROVE  IInv'
  <1> DEFINE w == Writer[o]
             q == Quantity[o]
             paid == journal[o].toBuyer
             rest == journal[o].toWriter
             back == ToWriter(o, Job(o))
             fees == TransferFees(o, Job(o))
             profit == Profit(o, Job(o))
             claim == Claim[o]
             out == Outgoing[o]
             quote == quoted[o]
  <1>1. /\ at[o] = "fee" /\ reply[o] = "ok" /\ "fee" \in Transfers
        /\ Puts(o, "Settled", NoEntry, quoted[o], "Succeeded") /\ Ends(o)
    BY DEF Closes, Transfers
  <1>2. /\ option[o] = "Settling" /\ journal[o].phase = "BalanceReleased"
        /\ <<o, "fee">> \in executed
        /\ paid + rest <= q /\ fees <= rest
        /\ back = rest - fees /\ back \in Nat /\ claim <= locked[w]
    BY <1>1, Awaiting DEF PhaseOf
  <1>3. RecordsOf(o) /\ EntryOf(o) /\ EffectsOf(o)
    BY InvByOption DEF IInv, OptionInv
  <1>4. /\ ToBuyer(Job(o)) = paid /\ paid \in Nat /\ rest \in Nat /\ q \in Nat
        /\ w \in Users /\ profit = q - rest - paid
        /\ quote \in Nat
        /\ fees = (IF paid > 0 THEN quote ELSE 0) + (IF profit > 0 THEN quote ELSE 0)
    BY Entry DEF IInv
  <1>5. profit > 0
    BY <1>2, <1>3 DEF EntryOf
  <1>6. /\ available' = Credit(available, w, back)
        /\ locked' = Debit(locked, w, q - paid) /\ earned' = earned + profit
    BY <1>4 DEF Closes
  <1>7. claim = q - paid
    BY <1>2, Claims DEF IInv
  <1>8. /\ out = (IF paid > 0 THEN quote ELSE 0) + (quote + profit)
        /\ Incoming[o] = 0
    BY <1>2, Flows DEF IInv
  <1>9. /\ available \in [Users -> Nat] /\ locked \in [Users -> Nat]
        /\ earned \in Nat
    BY DEF IInv, TypeOK
  <1> HIDE DEF w, q, paid, rest, back, fees, profit, claim, out, quote
  <1>10. profit \in Nat /\ claim \in Nat /\ profit + rest = claim
    BY <1>2, <1>4, <1>7
  <1>11. out = claim - back
    BY <1>2, <1>4, <1>5, <1>8, <1>10
  <1>12. earned' \in Nat
    BY <1>6, <1>9, <1>10
  <1>13. /\ available' \in [Users -> Nat]
         /\ \A u \in Users :
              available'[u] = IF u = w THEN available[u] + back ELSE available[u]
    <2>1. available' = Credit(available, w, back) /\ w \in Users /\ back \in Nat
      BY <1>2, <1>4, <1>6
    <2>2. QED
      BY <1>9, <2>1, CreditFacts
  <1>14. /\ locked' \in [Users -> Nat]
         /\ \A u \in Users :
              locked'[u] = IF u = w THEN locked[u] - claim ELSE locked[u]
    <2>1. locked' = Debit(locked, w, claim) /\ w \in Users /\ claim \in Nat
          /\ claim <= locked[w]
      BY <1>2, <1>4, <1>6, <1>7, <1>10
    <2>2. QED
      BY <1>9, <2>1, DebitFacts
  <1>15. \A u \in Users :
           /\ available'[u] = available[u] + (IF u = Buyer[o] THEN 0 ELSE 0)
                                           + (IF u = w THEN back ELSE 0)
           /\ locked'[u] = locked[u] - (IF u = w THEN claim ELSE 0)
    <2>1. ASSUME NEW u \in Users
          PROVE  /\ available'[u] = available[u] + 0
                                                 + (IF u = w THEN back ELSE 0)
                 /\ locked'[u] = locked[u] - (IF u = w THEN claim ELSE 0)
      <3>1. available[u] \in Nat /\ locked[u] \in Nat
            /\ back \in Nat /\ claim \in Nat
        BY <1>2, <1>9, <1>10
      <3>2. QED
        BY <1>13, <1>14, <3>1
    <2>2. QED
      BY <2>1
  <1>16. /\ Outgoing[o] = Claim[o] - back /\ Incoming[o] = 0
         /\ 0 \in Nat /\ back \in Nat
    BY <1>2, <1>8, <1>11 DEF out, claim
  <1>17. QED
    BY <1>1, <1>12, <1>13, <1>14, <1>15, <1>16, EndKeeps DEF w, claim

(* Giving a settlement up keeps the invariant: its collateral stays        *)
(* locked and has no claim on it any more.                                 *)
LEMMA GivesUpKeeps ==
  ASSUME IInv, NEW o \in Options, GivesUp(o)
  PROVE  IInv'
  <1> DEFINE e == [journal[o] EXCEPT !.phase = "Failed"]
  <1>1. /\ at[o] # "idle" /\ Puts(o, "Expired", e, quoted[o], "FailedPermanent")
        /\ Ends(o) /\ UNCHANGED books
    BY DEF GivesUp
  <1>2. RecordsOf(o) /\ EntryOf(o) /\ CallsOf(o) /\ EffectsOf(o)
    BY InvByOption DEF IInv, OptionInv
  <1>3. /\ e \in Entries /\ e.phase = "Failed" /\ quoted[o] \in Nat
        /\ at[o] \in Transfers
    BY <1>1 DEF IInv, TypeOK, Entries, Phases
  <1>4. /\ option[o] = "Settling" /\ reply[o] = "rejected"
        /\ journal[o].phase = PhaseOf(at[o]) /\ <<o, at[o]>> \notin net
    BY <1>1, <1>2 DEF RecordsOf, CallsOf, GivesUp
  <1>5. \A t \in Transfers : <<o, t>> \notin net
    BY <1>2, <1>3, <1>4 DEF CallsOf, PhaseOf, Transfers
  <1> HIDE DEF e
  <1>6. /\ TypeOK' /\ Touches(o)
        /\ option'[o] = "Expired" /\ journal'[o] = e /\ quoted'[o] = quoted[o]
        /\ wal'[o] = "FailedPermanent" /\ reply'[o] = "none"
        /\ executed' = executed /\ funds' = funds
        /\ at'[o] = "idle" /\ net' = net
    BY <1>1, <1>3, BooksKept, Put DEF OptionStatuses, WalStatuses
  <1>7. OptionInv(o)'
    BY <1>3, <1>5, <1>6 DEF OptionInv, RecordsOf, EntryOf, CallsOf, EffectsOf
  <1>8. /\ Claim'[o] = 0 /\ Outgoing'[o] = 0 /\ Incoming'[o] = 0
        /\ Claim[o] \in Nat
        /\ Outgoing[o] \in Int /\ Incoming[o] \in Int
    BY <1>6, Claims, ClaimNext, Flows, FlowsNext DEF IInv
  <1>9. /\ available' = available /\ locked' = locked
        /\ locked' \in [Users -> Nat]
    BY <1>1, BooksKept
  <1>10. ClaimsCovered'
    <2>1. Claim'[o] \in Nat /\ Claim'[o] <= Claim[o]
      BY <1>8
    <2>2. QED
      BY <1>4, <1>6, <1>9, <2>1, ClaimsAfter
  <1>11. BooksMatch'
    <2>1. ASSUME NEW u \in Users
          PROVE  \/ option'[o] = "Expired" /\ u \in {Writer[o], Buyer[o]}
                 \/ funds'[u] - funds[u] +
                      (IF u = Writer[o] THEN Outgoing'[o] - Outgoing[o] ELSE 0)
                    = (available'[u] - available[u]) + (locked'[u] - locked[u]) +
                      (IF u = Buyer[o] THEN Incoming'[o] - Incoming[o] ELSE 0)
      <3>1. /\ funds[u] \in Nat /\ available[u] \in Nat /\ locked[u] \in Nat
        BY DEF IInv, TypeOK
      <3>2. QED
        BY <1>6, <1>9, <3>1
    <2>2. Outgoing'[o] \in Int /\ Incoming'[o] \in Int
      BY <1>8
    <2>3. QED
      BY <1>4, <1>6, <2>1, <2>2, BooksAfter
  <1>12. QED
    BY <1>6, <1>7, <1>10, <1>11, Kept

-----------------------------------------------------------------------------
(* Steps that change neither the terms of a settlement nor any balance.    *)
LEMMA Quiet ==
  ASSUME IInv, NEW o \in Options, TypeOK', Touches(o),
         UNCHANGED <<option, journal, quoted, executed, funds, books>>,
         RecordsOf(o)', CallsOf(o)',
         reply'[o] = "ok" => <<o, at'[o]>> \in executed
  PROVE  IInv'
  <1>1. /\ option'[o] = option[o] /\ journal'[o] = journal[o]
        /\ quoted'[o] = quoted[o] /\ executed' = executed /\ funds' = funds
    OBVIOUS
  <1>2. /\ Job(o)' = Job(o) /\ ToBuyer(Job(o))' = ToBuyer(Job(o))
        /\ Profit(o, Job(o))' = Profit(o, Job(o))
        /\ TransferFees(o, Job(o))' = TransferFees(o, Job(o))
        /\ \A c : Amount(o, Job(o), c)' = Amount(o, Job(o), c)
    BY <1>1, SameJob
  <1>3. EntryOf(o) /\ EffectsOf(o)
    BY DEF IInv, EntriesDivide, EffectsFitPhase
  <1>4. EntryOf(o)' /\ EffectsOf(o)'
    BY <1>1, <1>2, <1>3 DEF EntryOf, EffectsOf
  <1>5. OptionInv(o)'
    BY <1>4 DEF OptionInv
  <1>6. /\ Claim'[o] = Claim[o] /\ Outgoing'[o] = Outgoing[o]
        /\ Incoming'[o] = Incoming[o]
    <2>1. Claim'[o] = Claim[o]
      BY <1>1, <1>2 DEF Claim, Held
    <2>2. Left(o, "buyer")' = Left(o, "buyer") /\ Left(o, "fee")' = Left(o, "fee")
          /\ Arriving(o)' = Arriving(o)
      BY <1>1, <1>2 DEF Left, Arriving, Unbooked
    <2>3. QED
      BY <1>1, <2>1, <2>2 DEF Outgoing, Incoming, Leaving
  <1>7. available' = available /\ locked' = locked
    BY DEF books
  <1>8. ClaimsCovered' /\ BooksMatch'
    BY <1>1, <1>6, <1>7, BooksStay
  <1>9. QED
    BY <1>5, <1>8, Kept

(* Steps that change neither records, calls nor balances.                  *)
LEMMA Untouched ==
  ASSUME IInv, TypeOK', UNCHANGED <<records, at, reply, net, executed, funds, books>>
  PROVE  IInv'
  <1>1. /\ option' = option /\ journal' = journal /\ wal' = wal
        /\ quoted' = quoted /\ at' = at /\ reply' = reply /\ net' = net
        /\ executed' = executed /\ funds' = funds
        /\ available' = available /\ locked' = locked /\ earned' = earned
    BY DEF records, books
  <1>2. ASSUME NEW o \in Options
        PROVE  OptionInv(o)' /\ Claim'[o] = Claim[o]
               /\ Outgoing'[o] = Outgoing[o] /\ Incoming'[o] = Incoming[o]
    <2>1. /\ Job(o)' = Job(o) /\ ToBuyer(Job(o))' = ToBuyer(Job(o))
          /\ Profit(o, Job(o))' = Profit(o, Job(o))
          /\ TransferFees(o, Job(o))' = TransferFees(o, Job(o))
          /\ \A c : Amount(o, Job(o), c)' = Amount(o, Job(o), c)
      BY <1>1, SameJob
    <2>2. OptionInv(o)
      BY InvByOption DEF IInv
    <2>3. OptionInv(o)'
      BY <1>1, <2>1, <2>2
         DEF OptionInv, RecordsOf, EntryOf, CallsOf, EffectsOf, PhaseOf
    <2>4. Claim'[o] = Claim[o]
      BY <1>1, <2>1 DEF Claim, Held
    <2>5. Left(o, "buyer")' = Left(o, "buyer") /\ Left(o, "fee")' = Left(o, "fee")
          /\ Arriving(o)' = Arriving(o)
      BY <1>1, <2>1 DEF Left, Arriving, Unbooked
    <2>6. QED
      BY <1>1, <2>3, <2>4, <2>5 DEF Outgoing, Incoming, Leaving
  <1>3. (RecordsAgree /\ EntriesDivide /\ CallsFitPhase /\ EffectsFitPhase)'
    BY <1>2 DEF RecordsAgree, EntriesDivide, CallsFitPhase, EffectsFitPhase,
                OptionInv, RecordsOf
  <1>4. Claim' = Claim /\ Outgoing' = Outgoing /\ Incoming' = Incoming
    BY <1>2 DEF Claim, Outgoing, Incoming
  <1>5. ClaimsCovered' /\ BooksMatch'
    <2>1. ClaimsCovered /\ BooksMatch
      BY DEF IInv
    <2>2. ClaimsCovered'
      BY <1>1, <1>4, <2>1 DEF ClaimsCovered, WrittenBy
    <2>3. BooksMatch'
      BY <1>1, <1>4, <2>1 DEF BooksMatch, WrittenBy, BoughtBy
    <2>4. QED
      BY <2>2, <2>3
  <1>6. QED
    BY <1>3, <1>5 DEF IInv

(* Expiry, the passing of time and a new fee of the ledger.                *)
LEMMA TimeKeeps ==
  ASSUME IInv, \/ \E o \in Options : Expire(o) \/ Grow(o)
               \/ FeeChange
               \/ UNCHANGED vars
  PROVE  IInv'
  <1>1. TypeOK
    BY DEF IInv
  <1>2. CASE \E o \in Options : Expire(o)
    <2>1. TypeOK'
      BY <1>1, <1>2 DEF Expire, TypeOK, records, ledger, books
    <2>2. QED
      BY <1>2, <2>1, Untouched DEF Expire, ledger
  <1>3. CASE \E o \in Options : Grow(o)
    <2>1. PICK o \in Options : Grow(o)
      BY <1>3
    <2>2. age' = [age EXCEPT ![o] = @ + 1] /\ age[o] < Expired
      BY <2>1 DEF Grow
    <2>3. age[o] + 1 \in Ages /\ age \in [Options -> Ages]
      BY <1>1, <2>2 DEF TypeOK, Ages, Young, Expired
    <2>4. age' \in [Options -> Ages]
      BY <2>2, <2>3
    <2>5. UNCHANGED <<expired, records, at, reply, ledger, books>>
      BY <2>1 DEF Grow
    <2>6. TypeOK'
      BY <1>1, <2>4, <2>5 DEF TypeOK, records, ledger, books
    <2>7. QED
      BY <2>5, <2>6, Untouched DEF ledger
  <1>4. CASE FeeChange
    <2>1. TypeOK'
      BY <1>1, <1>4 DEF FeeChange, TypeOK, records, books
    <2>2. QED
      BY <1>4, <2>1, Untouched DEF FeeChange
  <1>5. CASE UNCHANGED vars
    <2>1. TypeOK'
      BY <1>1, <1>5 DEF vars, TypeOK, records, ledger, books
    <2>2. QED
      BY <1>5, <2>1, Untouched DEF vars, ledger
  <1>6. QED
    BY <1>2, <1>3, <1>4, <1>5

(* An attempt that ends without an answer, and the timers.                 *)
LEMMA TimersKeep ==
  ASSUME IInv, NEW o \in Options,
         \/ Fails(o) \/ Interrupt(o) \/ PromoteStale(o) \/ GiveUp(o) \/ Cleanup(o)
  PROVE  IInv'
  <1>1. TypeOK
    BY DEF IInv
  <1>2. RecordsOf(o) /\ CallsOf(o) /\ EffectsOf(o)
    BY InvByOption DEF IInv, OptionInv
  <1>3. PICK status \in WalStatuses, d \in Transfers \cup {"idle"},
             r \in {"none", "ok", "rejected"} :
          /\ wal' = [wal EXCEPT ![o] = status]
          /\ at' = [at EXCEPT ![o] = d] /\ reply' = [reply EXCEPT ![o] = r]
          /\ (d = at[o] /\ r = reply[o]) \/ (d = "idle" /\ r = "none")
          /\ \/ status = wal[o]
             \/ /\ status \in {"RetryRequired", "RecoveryRequired"}
                /\ option[o] = "Settling"
             \/ status = "Absent" /\ wal[o] = "Succeeded"
    <2>1. /\ wal = [wal EXCEPT ![o] = wal[o]] /\ at = [at EXCEPT ![o] = at[o]]
          /\ reply = [reply EXCEPT ![o] = reply[o]]
          /\ wal[o] \in WalStatuses /\ at[o] \in Transfers \cup {"idle"}
          /\ reply[o] \in {"none", "ok", "rejected"}
      BY <1>1 DEF TypeOK
    <2>2. CASE Fails(o)
      BY <1>2, <2>1, <2>2 DEF Fails, RecordsOf, WalStatuses
    <2>3. CASE Interrupt(o)
      BY <2>1, <2>3 DEF Interrupt, records
    <2>4. CASE PromoteStale(o)
      <3>1. PICK s \in {"RetryRequired", "RecoveryRequired"} :
              wal' = [wal EXCEPT ![o] = s]
        BY <2>4 DEF PromoteStale
      <3>2. /\ at' = [at EXCEPT ![o] = at[o]]
            /\ reply' = [reply EXCEPT ![o] = reply[o]]
        BY <2>1, <2>4 DEF PromoteStale
      <3>3. option[o] = "Settling" /\ s \in WalStatuses
        BY <1>2, <2>4 DEF PromoteStale, RecordsOf, WalStatuses
      <3>4. QED
        BY <2>1, <3>1, <3>2, <3>3
    <2>5. CASE GiveUp(o)
      <3>1. /\ wal' = [wal EXCEPT ![o] = "RecoveryRequired"]
            /\ at' = [at EXCEPT ![o] = at[o]]
            /\ reply' = [reply EXCEPT ![o] = reply[o]]
        BY <2>1, <2>5 DEF GiveUp
      <3>2. option[o] = "Settling" /\ "RecoveryRequired" \in WalStatuses
        BY <1>2, <2>5 DEF GiveUp, RecordsOf, WalStatuses
      <3>3. QED
        BY <2>1, <3>1, <3>2
    <2>6. CASE Cleanup(o)
      <3>1. /\ wal' = [wal EXCEPT ![o] = "Absent"] /\ wal[o] = "Succeeded"
            /\ at' = [at EXCEPT ![o] = at[o]]
            /\ reply' = [reply EXCEPT ![o] = reply[o]]
        BY <2>1, <2>6 DEF Cleanup
      <3>2. "Absent" \in WalStatuses
        BY DEF WalStatuses
      <3>3. QED
        BY <2>1, <3>1, <3>2
    <2>7. QED
      BY <2>2, <2>3, <2>4, <2>5, <2>6
  <1>4. /\ option' = option /\ journal' = journal /\ quoted' = quoted
        /\ executed' = executed /\ funds' = funds /\ net' = net
        /\ UNCHANGED <<expired, age, ledgerFee, books>>
    BY DEF Fails, Interrupt, PromoteStale, GiveUp, Cleanup, records, ledger
  <1>5. TypeOK'
    BY <1>1, <1>3, <1>4 DEF TypeOK, books
  <1>6. /\ wal'[o] = status /\ at'[o] = d /\ reply'[o] = r
    BY <1>1, <1>3 DEF TypeOK
  <1>7. Touches(o)
    BY <1>1, <1>3, <1>4 DEF Touches, Same, TypeOK
  <1>8. RecordsOf(o)' /\ CallsOf(o)'
    <2>1. RecordsOf(o)'
      <3>1. option[o] \in OptionStatuses /\ wal[o] \in WalStatuses
        BY <1>1 DEF TypeOK
      <3>2. QED
        BY <1>2, <1>3, <1>4, <1>6, <3>1
           DEF RecordsOf, OptionStatuses, WalStatuses
    <2>2. CallsOf(o)'
      BY <1>2, <1>3, <1>4, <1>6 DEF CallsOf, PhaseOf
    <2>3. QED
      BY <2>1, <2>2
  <1>9. reply'[o] = "ok" => <<o, at'[o]>> \in executed
    BY <1>2, <1>3, <1>6 DEF EffectsOf
  <1>10. QED
    BY <1>4, <1>5, <1>7, <1>8, <1>9, Quiet

(* The part of the invariant on calls, after the ledger took one in.       *)
LEMMA LedgerCalls ==
  ASSUME IInv, NEW o \in Options, NEW t \in Transfers, LedgerExecutes(o, t)
  PROVE  /\ journal[o].phase = PhaseOf(t) /\ option[o] = "Settling"
         /\ reply' \in [Options -> {"none", "ok", "rejected"}]
         /\ CallsOf(o)' /\ RecordsOf(o)'
         /\ option' = option /\ journal' = journal /\ quoted' = quoted
         /\ wal' = wal /\ at' = at /\ net' = net \ {<<o, t>>}
         /\ \A x \in Options : x # o => reply'[x] = reply[x]
         /\ UNCHANGED <<expired, age, ledgerFee, books>>
         /\ reply'[o] = "ok" =>
              \/ reply[o] = "ok"
              \/ at[o] = t /\ (<<o, t>> \in executed \/ <<o, t>> \in executed')
  <1> DEFINE amount == Amount(o, Job(o), t)
             v == Verdict(<<o, t>> \in executed, age[o], quoted[o], ledgerFee,
                          funds[Writer[o]], amount)
             answer == IF v = "rejected" THEN "rejected" ELSE "ok"
  <1>1. /\ <<o, t>> \in net /\ net' = net \ {<<o, t>>}
        /\ v = "applied" => executed' = executed \cup {<<o, t>>}
        /\ reply' = IF at[o] # t THEN reply ELSE [reply EXCEPT ![o] = answer]
        /\ UNCHANGED <<expired, records, age, at, ledgerFee, books>>
    BY DEF LedgerExecutes
  <1>2. v \in {"applied", "rejected"} \/ (v = "duplicate" /\ <<o, t>> \in executed)
    BY DEF Verdict
  <1> HIDE DEF v
  <1>3. TypeOK /\ RecordsOf(o) /\ CallsOf(o)
    BY InvByOption DEF IInv, OptionInv
  <1>4. /\ option' = option /\ journal' = journal /\ quoted' = quoted
        /\ wal' = wal /\ at' = at
    BY <1>1 DEF records
  <1>5. journal[o].phase = PhaseOf(t) /\ option[o] = "Settling"
    BY <1>1, <1>3 DEF CallsOf, RecordsOf, PhaseOf
  <1>6. reply \in [Options -> {"none", "ok", "rejected"}]
    BY <1>3 DEF TypeOK
  <1>7. /\ reply' \in [Options -> {"none", "ok", "rejected"}]
        /\ \A x \in Options : x # o => reply'[x] = reply[x]
        /\ reply'[o] = IF at[o] # t THEN reply[o] ELSE answer
    BY <1>1, <1>6
  <1>8. RecordsOf(o)'
    BY <1>3, <1>4 DEF RecordsOf
  <1>9. CallsOf(o)'
    <2>1. at[o] \in Transfers \cup {"idle"} /\ t # "idle"
      BY <1>3 DEF TypeOK, Transfers
    <2>2. QED
      BY <1>1, <1>3, <1>4, <1>7, <2>1 DEF CallsOf, PhaseOf
  <1>10. reply'[o] = "ok" =>
           \/ reply[o] = "ok"
           \/ at[o] = t /\ (<<o, t>> \in executed \/ <<o, t>> \in executed')
    BY <1>1, <1>2, <1>7
  <1>11. QED
    BY <1>1, <1>4, <1>5, <1>7, <1>8, <1>9, <1>10

(* A request the ledger refuses, or finds it has executed, keeps the       *)
(* invariant.                                                              *)
LEMMA LedgerRefuses ==
  ASSUME IInv, NEW o \in Options, NEW t \in Transfers, LedgerExecutes(o, t),
         UNCHANGED <<executed, funds>>
  PROVE  IInv'
  <1>1. TypeOK /\ EffectsOf(o)
    BY InvByOption DEF IInv, OptionInv
  <1>2. /\ reply' \in [Options -> {"none", "ok", "rejected"}]
        /\ CallsOf(o)' /\ RecordsOf(o)'
        /\ option' = option /\ journal' = journal /\ quoted' = quoted
        /\ wal' = wal /\ at' = at /\ net' = net \ {<<o, t>>}
        /\ \A x \in Options : x # o => reply'[x] = reply[x]
        /\ UNCHANGED <<expired, age, ledgerFee, books>>
        /\ reply'[o] = "ok" =>
             reply[o] = "ok" \/ (at[o] = t /\ <<o, t>> \in executed)
    BY LedgerCalls
  <1>3. TypeOK'
    BY <1>1, <1>2 DEF TypeOK, books
  <1>4. Touches(o)
    BY <1>2 DEF Touches, Same
  <1>5. reply'[o] = "ok" => <<o, at'[o]>> \in executed
    BY <1>1, <1>2 DEF EffectsOf
  <1>6. QED
    BY <1>2, <1>3, <1>4, <1>5, Quiet

(* A transfer the ledger executes keeps the invariant: what it moves       *)
(* becomes due to be booked.                                               *)
LEMMA LedgerApplies ==
  ASSUME IInv, NEW o \in Options, NEW t \in Transfers, LedgerExecutes(o, t),
         NEW w, NEW amount, NEW q, w = Writer[o],
         amount = Amount(o, Job(o), t), q = quoted[o],
         <<o, t>> \notin executed, ~(funds[w] < amount + q),
         executed' = executed \cup {<<o, t>>},
         funds' = [u \in Users |->
           (funds[u] + (IF t = "buyer" /\ u = Buyer[o] THEN amount ELSE 0))
             - (IF u = w THEN amount + q ELSE 0)]
  PROVE  IInv'
  <1>1. TypeOK /\ RecordsOf(o) /\ EntryOf(o) /\ EffectsOf(o)
    BY InvByOption DEF IInv, OptionInv
  <1>2. /\ reply' \in [Options -> {"none", "ok", "rejected"}]
        /\ journal[o].phase = PhaseOf(t) /\ option[o] = "Settling"
        /\ CallsOf(o)' /\ RecordsOf(o)'
        /\ option' = option /\ journal' = journal /\ quoted' = quoted
        /\ wal' = wal /\ at' = at /\ net' = net \ {<<o, t>>}
        /\ \A x \in Options : x # o => reply'[x] = reply[x]
        /\ UNCHANGED <<expired, age, ledgerFee, books>>
        /\ reply'[o] = "ok" => reply[o] = "ok" \/ at[o] = t
    BY LedgerCalls
  <1>3. /\ w \in Users /\ q \in Nat /\ journal[o].toBuyer \in Nat
        /\ ToBuyer(Job(o)) = journal[o].toBuyer /\ Profit(o, Job(o)) \in Int
        /\ Buyer[o] \in Users
    BY <1>1, Entry
  <1>4. /\ t = "buyer" => amount = journal[o].toBuyer
        /\ t = "fee" => amount = Profit(o, Job(o)) /\ amount > 0
        /\ amount \in Nat
    <2>1. CASE t = "buyer"
      BY <1>3, <2>1 DEF Amount
    <2>2. CASE t = "fee"
      <3>1. Profit(o, Job(o)) > 0
        BY <1>1, <1>2, <2>2 DEF EntryOf, PhaseOf
      <3>2. QED
        BY <1>3, <2>2, <3>1 DEF Amount
    <2>3. QED
      BY <2>1, <2>2 DEF Transfers
  <1>5. /\ funds \in [Users -> Nat] /\ amount + q \in Nat /\ amount + q <= funds[w]
    BY <1>1, <1>3, <1>4 DEF TypeOK
  <1>6. funds' \in [Users -> Nat]
    <2>1. ASSUME NEW u \in Users
          PROVE  (funds[u] + (IF t = "buyer" /\ u = Buyer[o] THEN amount ELSE 0))
                   - (IF u = w THEN amount + q ELSE 0) \in Nat
      BY <1>4, <1>5
    <2>2. QED
      BY <2>1
  <1>7. TypeOK'
    BY <1>1, <1>2, <1>6 DEF TypeOK, books
  <1>8. Touches(o)
    BY <1>2 DEF Touches, Same
  <1>9. /\ Job(o)' = Job(o) /\ ToBuyer(Job(o))' = ToBuyer(Job(o))
        /\ Profit(o, Job(o))' = Profit(o, Job(o))
        /\ TransferFees(o, Job(o))' = TransferFees(o, Job(o))
        /\ \A c : Amount(o, Job(o), c)' = Amount(o, Job(o), c)
    BY <1>2, SameJob
  <1>10. OptionInv(o)'
    <2>1. EntryOf(o)'
      BY <1>1, <1>2, <1>9 DEF EntryOf
    <2>2. EffectsOf(o)'
      BY <1>1, <1>2, <1>9 DEF EffectsOf, PhaseOf, Transfers
    <2>3. QED
      BY <1>2, <2>1, <2>2 DEF OptionInv
  <1>11. Claim'[o] = Claim[o]
    BY <1>2, <1>9 DEF Claim, Held
  <1> DEFINE into == IF t = "buyer" THEN amount ELSE 0
  <1>12. /\ Outgoing[o] \in Int /\ Incoming[o] \in Int
         /\ Outgoing'[o] = Outgoing[o] + (amount + q)
         /\ Incoming'[o] = Incoming[o] + into
    <2>1. /\ Outgoing[o] \in Int /\ Incoming[o] \in Int
          /\ Outgoing[o] = Left(o, "buyer") + Left(o, "fee")
          /\ Incoming[o] = Arriving(o)
          /\ Outgoing'[o] = Left(o, "buyer")' + Left(o, "fee")'
          /\ Incoming'[o] = Arriving(o)'
      BY <1>1, <1>2, Flows DEF IInv, Outgoing, Incoming, Leaving
    <2>2. \A c \in Transfers : Unbooked(o, c)' = Unbooked(o, c)
      BY <1>2, <1>9 DEF Unbooked
    <2>3. CASE t = "buyer"
      <3>1. Left(o, "buyer") = 0 /\ Arriving(o) = 0
        BY <2>3 DEF Left, Arriving
      <3>2. Unbooked(o, "buyer") = amount
        BY <1>2, <2>3 DEF Unbooked, PhaseOf
      <3>3. Left(o, "buyer")' = q + amount /\ Arriving(o)' = amount
        BY <1>2, <2>2, <2>3, <3>2 DEF Left, Arriving, Transfers
      <3>4. Left(o, "fee") = 0 /\ Left(o, "fee")' = 0
        <4>1. <<o, "fee">> \notin executed /\ <<o, "fee">> \notin executed'
          BY <1>1, <1>2, <2>3 DEF EffectsOf, PhaseOf
        <4>2. QED
          BY <4>1 DEF Left
      <3>5. QED
        BY <1>3, <1>4, <2>1, <2>3, <3>1, <3>3, <3>4
    <2>4. CASE t = "fee"
      <3>1. Left(o, "fee") = 0
        BY <2>4 DEF Left
      <3>2. Unbooked(o, "fee") = amount
        BY <1>2, <2>4 DEF Unbooked, PhaseOf
      <3>3. Left(o, "fee")' = q + amount
        BY <1>2, <2>2, <2>4, <3>2 DEF Left, Transfers
      <3>4. Left(o, "buyer")' = Left(o, "buyer") /\ Arriving(o)' = Arriving(o)
        <4>1. <<o, "buyer">> \in executed <=> <<o, "buyer">> \in executed'
          BY <2>4
        <4>2. QED
          BY <1>2, <2>2, <4>1 DEF Left, Arriving, Transfers
      <3>5. Left(o, "buyer") = Outgoing[o]
        <4>1. Left(o, "buyer") \in Int
          BY <1>2, <1>3, <2>4 DEF Left, Unbooked, PhaseOf
        <4>2. QED
          BY <2>1, <3>1, <4>1
      <3>6. QED
        BY <1>3, <1>4, <2>1, <2>4, <3>3, <3>4, <3>5
    <2>5. QED
      BY <2>3, <2>4 DEF Transfers
  <1>13. into \in Nat
    BY <1>4
  <1> HIDE DEF into
  <1>14. /\ available' = available /\ locked' = locked
         /\ available' \in [Users -> Nat] /\ locked' \in [Users -> Nat]
    BY <1>2, BooksKept
  <1>15. ClaimsCovered'
    <2>1. Claim[o] \in Nat
      BY Claims DEF IInv
    <2>2. \A u \in Users : locked'[u] = locked[u] +
            (IF u = Writer[o] THEN Claim'[o] - Claim[o] ELSE 0)
      BY <1>11, <1>14, <2>1
    <2>3. QED
      BY <1>2, <1>8, <1>11, <1>14, <2>1, <2>2, ClaimsAfter
  <1>16. BooksMatch'
    <2>1. ASSUME NEW u \in Users
          PROVE  funds'[u] - funds[u] +
                   (IF u = Writer[o] THEN Outgoing'[o] - Outgoing[o] ELSE 0)
                 = (available'[u] - available[u]) + (locked'[u] - locked[u]) +
                   (IF u = Buyer[o] THEN Incoming'[o] - Incoming[o] ELSE 0)
      <3> DEFINE in == IF t = "buyer" /\ u = Buyer[o] THEN amount ELSE 0
                 from == IF u = w THEN amount + q ELSE 0
      <3>1. in \in Nat /\ from \in Nat /\ funds[u] \in Nat
        BY <1>4, <1>5
      <3>2. funds'[u] = (funds[u] + in) - from
        OBVIOUS
      <3>3. (IF u = Writer[o] THEN Outgoing'[o] - Outgoing[o] ELSE 0) = from
        BY <1>5, <1>12
      <3>4. (IF u = Buyer[o] THEN Incoming'[o] - Incoming[o] ELSE 0) = in
        BY <1>12, <1>13 DEF into
      <3>5. available'[u] - available[u] = 0 /\ locked'[u] - locked[u] = 0
        BY <1>14
      <3> HIDE DEF in, from
      <3>6. funds'[u] - funds[u] + from = 0 + 0 + in
        BY <3>1, <3>2
      <3>7. QED
        BY <3>3, <3>4, <3>5, <3>6
    <2>2. Outgoing'[o] \in Int /\ Incoming'[o] \in Int
      BY <1>5, <1>12, <1>13
    <2>3. QED
      BY <1>2, <1>7, <1>8, <2>1, <2>2, BooksAfter
  <1>17. QED
    BY <1>7, <1>8, <1>10, <1>15, <1>16, Kept

(* Whatever the ledger answers, the invariant is kept.                     *)
LEMMA LedgerKeeps ==
  ASSUME IInv, NEW o \in Options, NEW t \in Transfers, LedgerExecutes(o, t)
  PROVE  IInv'
  <1> DEFINE w == Writer[o]
             amount == Amount(o, Job(o), t)
             q == quoted[o]
             v == Verdict(<<o, t>> \in executed, age[o], q, ledgerFee, funds[w],
                          amount)
  <1>1. \/ /\ v = "applied"
           /\ executed' = executed \cup {<<o, t>>}
           /\ funds' = [u \in Users |->
                (funds[u] + (IF t = "buyer" /\ u = Buyer[o] THEN amount ELSE 0))
                  - (IF u = w THEN amount + q ELSE 0)]
        \/ UNCHANGED <<executed, funds>>
    BY DEF LedgerExecutes
  <1>2. v = "applied" => <<o, t>> \notin executed /\ ~(funds[w] < amount + q)
    BY DEF Verdict
  <1> HIDE DEF w, amount, q, v
  <1>3. w = Writer[o] /\ amount = Amount(o, Job(o), t) /\ q = quoted[o]
    BY DEF w, amount, q
  <1>4. QED
    BY <1>1, <1>2, <1>3, LedgerRefuses, LedgerApplies

-----------------------------------------------------------------------------
(* The invariant holds to begin with, and after every step.                *)
LEMMA InitIInv == Init => IInv
  <1> SUFFICES ASSUME Init PROVE IInv
    OBVIOUS
  <1>1. /\ Quantity \in [Options -> Nat] /\ Available0 \in [Users -> Nat]
        /\ NoEntry.phase = "None" /\ NoEntry.toBuyer = 0 /\ NoEntry.toWriter = 0
    BY SettlementAssumption DEF NoEntry
  <1>2. ASSUME NEW u \in Users
        PROVE  SumFunctionOnSet(Quantity, WrittenBy(u)) \in Nat
    <2>1. \A x \in WrittenBy(u) : Quantity[x] \in Nat
      BY <1>1, FiniteParts
    <2>2. QED
      BY <2>1, FiniteParts, SumOfAmounts
  <1>3. locked \in [Users -> Nat] /\ available \in [Users -> Nat]
        /\ funds \in [Users -> Nat]
    BY <1>1, <1>2 DEF Init
  <1>4. TypeOK
    <2>1. /\ option \in [Options -> OptionStatuses]
          /\ journal \in [Options -> [phase : Phases, toBuyer : Nat, toWriter : Nat]]
          /\ wal \in [Options -> WalStatuses] /\ quoted \in [Options -> Nat]
          /\ at \in [Options -> Transfers \cup {"idle"}]
          /\ reply \in [Options -> {"none", "ok", "rejected"}]
      BY DEF Init, OptionStatuses, NoEntry, Phases, WalStatuses, Transfers
    <2>2. age \in [Options -> Ages]
      BY DEF Init, Ages, Young, Expired
    <2>3. QED
      BY <1>3, <2>1, <2>2 DEF Init, TypeOK
  <1>5. \A o \in Options : OptionInv(o)
    BY <1>1 DEF Init, OptionInv, RecordsOf, EntryOf, CallsOf, EffectsOf
  <1>6. RecordsAgree /\ EntriesDivide /\ CallsFitPhase /\ EffectsFitPhase
    BY <1>5, InvByOption
  <1>7. \A o \in Options : Claim[o] = Quantity[o]
    BY <1>1 DEF Init, Claim, Held
  <1>8. ASSUME NEW u \in Users
        PROVE  SumFunctionOnSet(Claim, WrittenBy(u)) = locked[u]
    <2>1. \A x \in WrittenBy(u) : Quantity[x] \in Int /\ Claim[x] = Quantity[x]
      BY <1>1, <1>7, FiniteParts
    <2>2. SumFunctionOnSet(Claim, WrittenBy(u))
            = SumFunctionOnSet(Quantity, WrittenBy(u))
      <3> DEFINE f == Claim
                 S == WrittenBy(u)
      <3>1. IsFiniteSet(S) /\ \A x \in S : Quantity[x] \in Int /\ f[x] = Quantity[x]
        BY <2>1, FiniteParts
      <3> HIDE DEF f, S
      <3>2. SumFunctionOnSet(f, S) = SumFunctionOnSet(Quantity, S)
        BY <3>1, SumOfEqual
      <3>3. QED
        BY <3>2 DEF f, S
    <2>3. QED
      BY <2>2 DEF Init
  <1>9. ClaimsCovered
    BY <1>3, <1>8 DEF ClaimsCovered
  <1>10. \A o \in Options : Outgoing[o] = 0 /\ Incoming[o] = 0
    BY DEF Init, Outgoing, Incoming
  <1>11. ASSUME NEW f, NEW S, IsFiniteSet(S), \A x \in S : f[x] = 0
         PROVE  SumFunctionOnSet(f, S) = 0
    <2>1. SumFunctionOnSet(f, S) = SumFunctionOnSet(f, {})
      <3>1. {} \in SUBSET S /\ \A x \in S : f[x] \in Int
        BY <1>11
      <3>2. QED
        BY <1>11, <3>1, SumOfPart
    <2>2. QED
      BY <2>1, SumOfNone
  <1>12. BooksMatch
    <2>1. ASSUME NEW u \in Users
          PROVE  funds[u] + SumFunctionOnSet(Outgoing, WrittenBy(u))
                 = available[u] + locked[u]
                     + SumFunctionOnSet(Incoming, BoughtBy(u))
      <3>1. SumFunctionOnSet(Outgoing, WrittenBy(u)) = 0
        BY <1>10, <1>11, FiniteParts
      <3>2. SumFunctionOnSet(Incoming, BoughtBy(u)) = 0
        BY <1>10, <1>11, FiniteParts
      <3>3. funds[u] = available[u] + locked[u]
        BY DEF Init
      <3>4. available[u] \in Nat /\ locked[u] \in Nat
        BY <1>3
      <3>5. QED
        BY <3>1, <3>2, <3>3, <3>4
    <2>2. QED
      BY <2>1 DEF BooksMatch
  <1>13. QED
    BY <1>4, <1>6, <1>9, <1>12 DEF IInv

(* What a step comes to: one of the effects above, or one that touches     *)
(* neither records nor balances.                                           *)
Effect(o) ==
  \/ Lapses(o) \/ Agrees(o) \/ Resends(o) \/ FailsAgain(o)
  \/ Pays(o) \/ PaysAndCloses(o) \/ Closes(o) \/ GivesUp(o)

Beside == UNCHANGED <<option, journal, quoted, books>>

(* Every step keeps the invariant and comes to one of these.               *)
LEMMA StepComesTo ==
  ASSUME IInv, [Next]_vars
  PROVE  IInv' /\ (Beside \/ \E o \in Options : Effect(o))
  <1>1. CASE UNCHANGED vars
    <2>1. IInv'
      BY <1>1, TimeKeeps
    <2>2. Beside
      BY <1>1 DEF Beside, vars, records
    <2>3. QED
      BY <2>1, <2>2
  <1>2. CASE FeeChange
    <2>1. IInv'
      BY <1>2, TimeKeeps
    <2>2. Beside
      BY <1>2 DEF Beside, FeeChange, records
    <2>3. QED
      BY <2>1, <2>2
  <1>3. ASSUME NEW o \in Options, OptionStep(o)
        PROVE  IInv' /\ (Beside \/ Effect(o))
    <2>1. CASE Expire(o) \/ Grow(o)
      <3>1. IInv'
        BY <2>1, TimeKeeps
      <3>2. Beside
        BY <2>1 DEF Beside, Expire, Grow, records
      <3>3. QED
        BY <3>1, <3>2
    <2>2. CASE Retry(o) \/ Recover(o)
      <3>1. Attempt(o) /\ wal[o] \notin {"Absent", "Succeeded"}
        BY <2>2 DEF Retry, Recover
      <3>2. Resends(o) \/ FailsAgain(o)
        BY <3>1, AttemptComesTo
      <3>3. QED
        BY <3>2, ResendsKeeps, FailsAgainKeeps DEF Effect
    <2>3. CASE Resume(o)
      <3>1. Pays(o) \/ PaysAndCloses(o) \/ Closes(o) \/ GivesUp(o)
        BY <2>3, ResumeComesTo
      <3>2. QED
        BY <3>1, PaysKeeps, PaysAndClosesKeeps, ClosesKeeps, GivesUpKeeps
           DEF Effect
    <2>4. CASE \/ Fails(o) \/ Interrupt(o) \/ PromoteStale(o) \/ GiveUp(o)
               \/ Cleanup(o)
      <3>1. IInv'
        BY <2>4, TimersKeep
      <3>2. Beside
        BY <2>4 DEF Beside, Fails, Interrupt, PromoteStale, GiveUp, Cleanup,
                    records
      <3>3. QED
        BY <3>1, <3>2
    <2>5. CASE \E price \in Prices, fee \in Fees : Settle(o, price, fee)
      <3>1. Lapses(o) \/ Agrees(o)
        BY <2>5, SettleComesTo
      <3>2. QED
        BY <3>1, LapsesKeeps, AgreesKeeps DEF Effect
    <2>6. CASE \E t \in Transfers : LedgerExecutes(o, t)
      <3>1. IInv'
        BY <2>6, LedgerKeeps
      <3>2. Beside
        BY <2>6 DEF Beside, LedgerExecutes, records
      <3>3. QED
        BY <3>1, <3>2
    <2>7. QED
      BY <1>3, <2>1, <2>2, <2>3, <2>4, <2>5, <2>6 DEF OptionStep
  <1>4. QED
    BY <1>1, <1>2, <1>3 DEF Next

(* The inductive invariant, for any number of options, users and amounts.  *)
THEOREM Inductive == Spec => []IInv
  <1>1. Init => IInv
    BY InitIInv
  <1>2. IInv /\ [Next]_vars => IInv'
    BY StepComesTo
  <1>3. QED
    BY <1>1, <1>2, PTL DEF Spec

(* Every variable keeps its type.                                          *)
THEOREM TypeCorrect == Spec => []TypeOK
  <1>1. IInv => TypeOK
    BY DEF IInv
  <1>2. QED
    BY <1>1, Inductive, PTL

(* The option, its journal entry and its WAL row tell the same story after *)
(* every message, whatever is lost, retried, interrupted or refused.       *)
THEOREM RecordsAlwaysAgree == Spec => []RecordsAgree
  <1>1. IInv => RecordsAgree
    BY DEF IInv
  <1>2. QED
    BY <1>1, Inductive, PTL

(* The locked balance of a writer holds what his options have a claim on.  *)
LEMMA ClaimsAreHeld == IInv => CollateralIsKept
  <1> SUFFICES ASSUME IInv, NEW u \in Users
               PROVE  LET failed == {o \in WrittenBy(u) : option[o] = "Expired"}
                          held == SumFunctionOnSet([o \in Options |-> Held(o)],
                                                   WrittenBy(u) \ failed)
                      IN  held <= locked[u] /\ (failed = {} => held = locked[u])
    BY DEF CollateralIsKept
  <1> DEFINE failed == {o \in WrittenBy(u) : option[o] = "Expired"}
             S == WrittenBy(u)
             T == S \ failed
             h == [o \in Options |-> Held(o)]
             f == Claim
  <1>1. IsFiniteSet(S) /\ S \subseteq Options /\ T \in SUBSET S /\ IsFiniteSet(T)
    BY FiniteParts, FS_Subset
  <1>2. \A x \in S : f[x] \in Int
    BY <1>1, Claims DEF IInv
  <1>3. \A x \in S \ T : f[x] = 0
    BY <1>1 DEF Claim
  <1>4. \A x \in T : f[x] \in Int /\ h[x] = f[x]
    BY <1>1, <1>2 DEF Claim
  <1>5. /\ SumFunctionOnSet(f, S) <= locked[u]
        /\ (\A x \in S : option[x] # "Expired") => SumFunctionOnSet(f, S) = locked[u]
    BY DEF IInv, ClaimsCovered
  <1>6. failed = {} => \A x \in S : option[x] # "Expired"
    OBVIOUS
  <1> HIDE DEF failed, S, T, h, f
  <1>7. SumFunctionOnSet(f, S) = SumFunctionOnSet(f, T)
    BY <1>1, <1>2, <1>3, SumOfPart
  <1>8. SumFunctionOnSet(h, T) = SumFunctionOnSet(f, T)
    BY <1>1, <1>4, SumOfEqual
  <1>9. QED
    BY <1>5, <1>6, <1>7, <1>8 DEF failed, S, T, h, f

(* Every option that can still be settled is covered by its writer's       *)
(* locked balance, and to the satoshi unless a settlement of his has       *)
(* failed.                                                                 *)
THEOREM CollateralIsAlwaysKept == Spec => []CollateralIsKept
  BY ClaimsAreHeld, Inductive, PTL

(* The balances of the canister are the ledger's, up to what is under way. *)
LEMMA BooksAreMatched == IInv => BooksMatchLedger
  <1> SUFFICES ASSUME IInv, NEW u \in Users,
                      \A o \in WrittenBy(u) \cup BoughtBy(u) :
                        option[o] # "Expired"
               PROVE  LET Open(R) == {o \in R : option[o] = "Settling"}
                          leaving == SumFunctionOnSet(
                            [o \in Options |-> Leaving(o)], Open(WrittenBy(u)))
                          arriving == SumFunctionOnSet(
                            [o \in Options |-> Arriving(o)], Open(BoughtBy(u)))
                      IN  funds[u] + leaving = available[u] + locked[u] + arriving
    BY DEF BooksMatchLedger
  <1> DEFINE W == WrittenBy(u)
             B == BoughtBy(u)
             SW == {o \in W : option[o] = "Settling"}
             SB == {o \in B : option[o] = "Settling"}
             l == [o \in Options |-> Leaving(o)]
             a == [o \in Options |-> Arriving(o)]
             f == Outgoing
             g == Incoming
  <1>1. /\ IsFiniteSet(W) /\ W \subseteq Options /\ SW \in SUBSET W
        /\ IsFiniteSet(B) /\ B \subseteq Options /\ SB \in SUBSET B
        /\ IsFiniteSet(SW) /\ IsFiniteSet(SB)
    BY FiniteParts, FS_Subset
  <1>2. \A x \in Options : f[x] \in Int /\ g[x] \in Int
    BY Flows DEF IInv
  <1>3. /\ \A x \in W \ SW : f[x] = 0
        /\ \A x \in B \ SB : g[x] = 0
    BY <1>1 DEF Outgoing, Incoming
  <1>4. /\ \A x \in SW : l[x] = f[x]
        /\ \A x \in SB : a[x] = g[x]
    BY <1>1 DEF Outgoing, Incoming
  <1>5. funds[u] + SumFunctionOnSet(f, W)
          = available[u] + locked[u] + SumFunctionOnSet(g, B)
    BY DEF IInv, BooksMatch
  <1> HIDE DEF W, B, SW, SB, l, a, f, g
  <1>6. SumFunctionOnSet(f, W) = SumFunctionOnSet(f, SW)
    <2>1. \A x \in W : f[x] \in Int
      BY <1>1, <1>2
    <2>2. QED
      BY <1>1, <1>3, <2>1, SumOfPart
  <1>7. SumFunctionOnSet(g, B) = SumFunctionOnSet(g, SB)
    <2>1. \A x \in B : g[x] \in Int
      BY <1>1, <1>2
    <2>2. QED
      BY <1>1, <1>3, <2>1, SumOfPart
  <1>8. SumFunctionOnSet(l, SW) = SumFunctionOnSet(f, SW)
    <2>1. \A x \in SW : f[x] \in Int /\ l[x] = f[x]
      BY <1>1, <1>2, <1>4
    <2>2. QED
      BY <1>1, <2>1, SumOfEqual
  <1>9. SumFunctionOnSet(a, SB) = SumFunctionOnSet(g, SB)
    <2>1. \A x \in SB : g[x] \in Int /\ a[x] = g[x]
      BY <1>1, <1>2, <1>4
    <2>2. QED
      BY <1>1, <2>1, SumOfEqual
  <1>10. funds[u] + SumFunctionOnSet(l, SW)
           = available[u] + locked[u] + SumFunctionOnSet(a, SB)
    BY <1>5, <1>6, <1>7, <1>8, <1>9
  <1>11. QED
    BY <1>10 DEF W, B, SW, SB, l, a

(* The canister's balances are what the ledger holds for the user, up to   *)
(* the transfers of settlements in progress.                               *)
THEOREM BooksAlwaysMatch == Spec => []BooksMatchLedger
  BY BooksAreMatched, Inductive, PTL

-----------------------------------------------------------------------------
(* What an effect leaves of the other options, and makes of its own.       *)
LEMMA EffectTouches ==
  ASSUME TypeOK, NEW o \in Options, NEW status, NEW entry, NEW fee, NEW walStatus,
         Puts(o, status, entry, fee, walStatus)
  PROVE  /\ option'[o] = status /\ journal'[o] = entry /\ quoted'[o] = fee
         /\ \A x \in Options : x # o =>
              /\ option'[x] = option[x] /\ journal'[x] = journal[x]
              /\ quoted'[x] = quoted[x]
  BY DEF TypeOK, Puts

(* Whichever price a caller was given, and however often the payload runs, *)
(* a settlement keeps the payouts and the fee it began with.               *)
TermsOf(o) ==
  (journal[o].phase # "None" /\ journal'[o].phase # "None") =>
    /\ journal'[o].toBuyer = journal[o].toBuyer
    /\ journal'[o].toWriter = journal[o].toWriter
    /\ quoted'[o] = quoted[o]

(* No effect changes the terms of a settlement under way.                  *)
LEMMA EffectKeepsTerms ==
  ASSUME IInv, NEW o \in Options, Effect(o)
  PROVE  \A x \in Options : TermsOf(x)
  <1>1. TypeOK /\ EntryOf(o) /\ journal[o] \in Entries /\ NoEntry.phase = "None"
    BY InvByOption DEF IInv, OptionInv, TypeOK, Entries, NoEntry
  <1>2. CASE Lapses(o)
    BY <1>1, <1>2, EffectTouches DEF Lapses, TermsOf
  <1>3. CASE Agrees(o)
    <2>1. PICK e \in Entries, fee \in Nat, t \in Transfers : AgreesOn(o, e, fee, t)
      BY <1>3 DEF Agrees
    <2>2. Puts(o, "Settling", e, fee, "InFlight") /\ option[o] = "Active"
      BY <2>1 DEF AgreesOn
    <2>3. journal[o].phase = "None"
      BY <1>1, <2>2 DEF EntryOf
    <2>4. QED
      BY <1>1, <2>2, <2>3, EffectTouches DEF TermsOf
  <1>4. CASE Resends(o)
    BY <1>1, <1>4, EffectTouches DEF Resends, ResendsTo, TermsOf
  <1>5. CASE FailsAgain(o)
    BY <1>1, <1>5, EffectTouches DEF FailsAgain, TermsOf
  <1>6. CASE Pays(o)
    <2> DEFINE e == [journal[o] EXCEPT !.phase = "BalanceReleased"]
    <2>1. e.toBuyer = journal[o].toBuyer /\ e.toWriter = journal[o].toWriter
      BY <1>1 DEF Entries
    <2>2. Puts(o, "Settling", e, quoted[o], "InFlight")
      BY <1>6 DEF Pays
    <2> HIDE DEF e
    <2>3. QED
      BY <1>1, <2>1, <2>2, EffectTouches DEF TermsOf
  <1>7. CASE PaysAndCloses(o)
    BY <1>1, <1>7, EffectTouches DEF PaysAndCloses, TermsOf
  <1>8. CASE Closes(o)
    BY <1>1, <1>8, EffectTouches DEF Closes, TermsOf
  <1>9. CASE GivesUp(o)
    <2> DEFINE e == [journal[o] EXCEPT !.phase = "Failed"]
    <2>1. e.toBuyer = journal[o].toBuyer /\ e.toWriter = journal[o].toWriter
      BY <1>1 DEF Entries
    <2>2. Puts(o, "Expired", e, quoted[o], "FailedPermanent")
      BY <1>9 DEF GivesUp
    <2> HIDE DEF e
    <2>3. QED
      BY <1>1, <2>1, <2>2, EffectTouches DEF TermsOf
  <1>10. QED
    BY <1>2, <1>3, <1>4, <1>5, <1>6, <1>7, <1>8, <1>9 DEF Effect

(* The payouts and the fee of a settlement are those it began with,        *)
(* whoever asks for a price and however often its payload runs.            *)
THEOREM TermsStayFixed == Spec => TermsFixed
  <1>1. IInv /\ [Next]_vars => [\A o \in Options : TermsOf(o)]_vars
    <2>1. SUFFICES ASSUME IInv, [Next]_vars
                   PROVE  \A o \in Options : TermsOf(o)
      OBVIOUS
    <2>2. CASE Beside
      BY <2>2 DEF Beside, TermsOf
    <2>3. CASE \E o \in Options : Effect(o)
      BY <2>1, <2>3, EffectKeepsTerms
    <2>4. QED
      BY <2>1, <2>2, <2>3, StepComesTo
  <1>2. [\A o \in Options : TermsOf(o)]_vars <=>
          [\A o \in Options :
             (journal[o].phase # "None" /\ journal'[o].phase # "None") =>
               /\ journal'[o].toBuyer = journal[o].toBuyer
               /\ journal'[o].toWriter = journal[o].toWriter
               /\ quoted'[o] = quoted[o]]_vars
    BY DEF TermsOf
  <1>3. QED
    BY <1>1, <1>2, Inductive, PTL DEF Spec, TermsFixed

-----------------------------------------------------------------------------
(* The settlement implements OptionPayout: its effects are the steps of    *)
(* that specification, and every other message leaves its state alone.     *)
DealOf(o) ==
  IF option[o] # "Settling"
  THEN [buyer |-> 0, platform |-> 0, charge |-> 0, writer |-> 0]
  ELSE LET j == Job(o) IN
       [buyer |-> ToBuyer(j), platform |-> Profit(o, j),
        charge |-> TransferFees(o, j), writer |-> ToWriter(o, j)]

stageOf == [o \in Options |-> StageOf(o)]
dealOf == [o \in Options |-> DealOf(o)]

(* The stage and the deal of an option are what its records make them.     *)
LEMMA SameStage ==
  ASSUME NEW o, option'[o] = option[o], journal'[o] = journal[o],
         quoted'[o] = quoted[o]
  PROVE  StageOf(o)' = StageOf(o) /\ DealOf(o)' = DealOf(o)
  <1>1. /\ ToBuyer(Job(o))' = ToBuyer(Job(o))
        /\ Profit(o, Job(o))' = Profit(o, Job(o))
        /\ TransferFees(o, Job(o))' = TransferFees(o, Job(o))
        /\ Job(o)' = Job(o)
    BY SameJob
  <1>2. ToWriter(o, Job(o))' = ToWriter(o, Job(o))
    BY <1>1 DEF ToWriter
  <1>3. QED
    BY <1>1, <1>2 DEF StageOf, DealOf

(* Where the two specifications stand, by the phase of the entry.          *)
LEMMA Standing ==
  ASSUME IInv, NEW o \in Options
  PROVE  /\ option[o] = "Active" => StageOf(o) = "open"
         /\ option[o] # "Settling" => DealOf(o) = Promise!NoDeal
         /\ option[o] = "Settling" =>
              /\ DealOf(o).buyer = journal[o].toBuyer
              /\ DealOf(o).platform = Profit(o, Job(o))
              /\ DealOf(o).writer = ToWriter(o, Job(o))
              /\ Promise!IsDivision(o, DealOf(o))
              /\ StageOf(o) = IF journal[o].phase = "Started" THEN "agreed"
                              ELSE "paid"
  <1>1. RecordsOf(o) /\ EntryOf(o) /\ NoEntry.phase = "None"
    BY InvByOption DEF IInv, OptionInv, NoEntry
  <1>2. option[o] = "Active" => StageOf(o) = "open"
    BY <1>1 DEF EntryOf, StageOf
  <1>3. option[o] # "Settling" => DealOf(o) = Promise!NoDeal
    BY DEF DealOf, Promise!NoDeal
  <1>4. ASSUME option[o] = "Settling"
        PROVE  /\ DealOf(o).buyer = journal[o].toBuyer
               /\ DealOf(o).platform = Profit(o, Job(o))
               /\ DealOf(o).writer = ToWriter(o, Job(o))
               /\ DealOf(o).charge = TransferFees(o, Job(o))
    BY <1>4, Entry DEF DealOf, IInv
  <1>5. option[o] = "Settling" => Promise!IsDivision(o, DealOf(o))
    <2> DEFINE fees == TransferFees(o, Job(o))
               rest == journal[o].toWriter
               paid == journal[o].toBuyer
               profit == Profit(o, Job(o))
               back == ToWriter(o, Job(o))
               q == Quantity[o]
    <2>1. SUFFICES ASSUME option[o] = "Settling"
                   PROVE  paid + profit + fees + back = q
      BY <1>4 DEF Promise!IsDivision
    <2>2. /\ profit = q - rest - paid /\ fees \in Nat /\ q \in Nat
          /\ rest \in Nat /\ paid \in Nat /\ Job(o).entry = journal[o]
      BY Entry DEF IInv
    <2>3. fees <= rest
      BY <1>1, <2>1 DEF EntryOf
    <2>4. back = IF rest < fees THEN 0 ELSE rest - fees
      BY <2>2 DEF ToWriter
    <2> HIDE DEF fees, rest, paid, profit, back, q
    <2>5. QED
      BY <2>2, <2>3, <2>4
  <1>6. option[o] = "Settling" =>
          StageOf(o) = IF journal[o].phase = "Started" THEN "agreed" ELSE "paid"
    BY <1>1 DEF RecordsOf, StageOf
  <1>7. QED
    BY <1>2, <1>3, <1>4, <1>5, <1>6

(* An effect moves the stage and the deal of its option alone.             *)
LEMMA StagesMove ==
  ASSUME TypeOK, NEW o \in Options, NEW status, NEW entry, NEW fee, NEW walStatus,
         Puts(o, status, entry, fee, walStatus)
  PROVE  /\ stageOf' = [stageOf EXCEPT ![o] = StageOf(o)']
         /\ dealOf' = [dealOf EXCEPT ![o] = DealOf(o)']
         /\ stageOf[o] = StageOf(o) /\ dealOf[o] = DealOf(o)
         /\ stageOf'[o] = StageOf(o)' /\ dealOf'[o] = DealOf(o)'
         /\ option'[o] = status
  <1>1. /\ option'[o] = status
        /\ \A x \in Options : x # o =>
              StageOf(x)' = StageOf(x) /\ DealOf(x)' = DealOf(x)
    BY EffectTouches, SameStage
  <1>2. stageOf' = [stageOf EXCEPT ![o] = StageOf(o)']
    BY <1>1 DEF stageOf
  <1>3. dealOf' = [dealOf EXCEPT ![o] = DealOf(o)']
    BY <1>1 DEF dealOf
  <1>4. QED
    BY <1>1, <1>2, <1>3 DEF stageOf, dealOf

(* The effects are steps of OptionPayout.                                  *)
LEMMA LapseStep ==
  ASSUME IInv, IInv', NEW o \in Options, Lapses(o)
  PROVE  Promise!Lapse(o)
  <1>1. TypeOK
    BY DEF IInv
  <1>2. /\ option[o] = "Active" /\ Puts(o, "Settled", NoEntry, 0, "Succeeded")
        /\ available' = Credit(available, Writer[o], Quantity[o])
        /\ locked' = Debit(locked, Writer[o], Quantity[o])
        /\ UNCHANGED earned
    BY DEF Lapses
  <1>3. /\ stageOf' = [stageOf EXCEPT ![o] = StageOf(o)']
        /\ dealOf' = [dealOf EXCEPT ![o] = DealOf(o)']
        /\ stageOf[o] = StageOf(o) /\ dealOf[o] = DealOf(o)
        /\ option'[o] = "Settled"
    BY <1>1, <1>2, StagesMove
  <1>4. StageOf(o) = "open" /\ DealOf(o) = Promise!NoDeal
    BY <1>2, Standing
  <1>5. StageOf(o)' = "closed" /\ DealOf(o)' = Promise!NoDeal
    BY <1>3 DEF StageOf, DealOf, Promise!NoDeal
  <1>6. dealOf' = dealOf
    BY <1>3, <1>4, <1>5 DEF dealOf
  <1>7. stageOf' = [stageOf EXCEPT ![o] = "closed"] /\ stageOf[o] = "open"
    BY <1>3, <1>4, <1>5
  <1>8. /\ available' = [available EXCEPT ![Writer[o]] = @ + Quantity[o]]
        /\ locked' = [locked EXCEPT ![Writer[o]] = @ - Quantity[o]]
        /\ earned' = earned
    BY <1>2 DEF Credit, Debit
  <1>9. QED
    BY <1>6, <1>7, <1>8, Zenon DEF Promise!Lapse, stageOf, dealOf, DealOf

Stands(o) ==
  option[o] = "Settling" =>
    /\ DealOf(o).buyer = journal[o].toBuyer
    /\ DealOf(o).platform = Profit(o, Job(o))
    /\ Promise!IsDivision(o, DealOf(o))
    /\ StageOf(o) = IF journal[o].phase = "Started" THEN "agreed" ELSE "paid"

(* The same, as one formula of the option, before a step and after it.     *)
LEMMA StandsNow == IInv => \A o \in Options : Stands(o)
  BY Standing DEF Stands

(* After a step.                                                           *)
LEMMA StandsNext == IInv' => (\A o \in Options : Stands(o))'
  BY StandsNow, PTL

(* The beginning of a settlement is an agreement on the division.          *)
LEMMA AgreeStep ==
  ASSUME IInv, IInv', NEW o \in Options, Agrees(o)
  PROVE  Promise!Agree(o)
  <1>1. TypeOK
    BY DEF IInv
  <1>2. PICK e \in Entries, fee \in Nat, t \in Transfers : AgreesOn(o, e, fee, t)
    BY DEF Agrees
  <1>3. /\ option[o] = "Active" /\ Puts(o, "Settling", e, fee, "InFlight")
        /\ e.phase = PhaseOf(t) /\ (t = "buyer" <=> e.toBuyer > 0)
        /\ UNCHANGED books /\ e.toBuyer \in Nat
    BY <1>2 DEF AgreesOn, Entries
  <1>4. /\ stageOf' = [stageOf EXCEPT ![o] = StageOf(o)']
        /\ dealOf' = [dealOf EXCEPT ![o] = DealOf(o)']
        /\ stageOf[o] = StageOf(o)
        /\ stageOf'[o] = StageOf(o)' /\ dealOf'[o] = DealOf(o)'
        /\ option'[o] = "Settling"
    BY <1>1, <1>3, StagesMove
  <1>5. journal'[o] = e
    BY <1>1, <1>3, EffectTouches
  <1>6. StageOf(o) = "open"
    BY <1>3, Standing
  <1>7. /\ DealOf(o)'.buyer = journal'[o].toBuyer
        /\ Promise!IsDivision(o, DealOf(o)')
        /\ StageOf(o)' = IF journal'[o].phase = "Started" THEN "agreed" ELSE "paid"
    BY <1>4, StandsNext DEF Stands
  <1>8. StageOf(o)' = IF DealOf(o)'.buyer = 0 THEN "paid" ELSE "agreed"
    BY <1>3, <1>5, <1>7 DEF PhaseOf, Transfers
  <1>9. /\ stageOf[o] = "open" /\ Promise!IsDivision(o, dealOf'[o])
        /\ dealOf' = [dealOf EXCEPT ![o] = dealOf'[o]]
        /\ stageOf' = [stageOf EXCEPT ![o] =
                         IF dealOf'[o].buyer = 0 THEN "paid" ELSE "agreed"]
    BY <1>4, <1>6, <1>7, <1>8
  <1>10. UNCHANGED <<available, locked, earned>>
    BY <1>3 DEF books
  <1>11. QED
    BY <1>9, <1>10, Zenon DEF Promise!Agree, stageOf, dealOf, DealOf

(* The buyer's payout is released.                                         *)
LEMMA PayStep ==
  ASSUME IInv, IInv', NEW o \in Options, Pays(o)
  PROVE  Promise!Pay(o)
  <1> DEFINE e == [journal[o] EXCEPT !.phase = "BalanceReleased"]
  <1>1. TypeOK /\ journal[o] \in Entries
    BY DEF IInv, TypeOK, Entries
  <1>2. /\ at[o] = "buyer" /\ reply[o] = "ok"
        /\ Puts(o, "Settling", e, quoted[o], "InFlight")
        /\ available' = Credit(available, Buyer[o], ToBuyer(Job(o)))
        /\ locked' = Debit(locked, Writer[o], ToBuyer(Job(o)))
        /\ UNCHANGED earned
    BY DEF Pays
  <1>3. /\ e.phase = "BalanceReleased" /\ e.toBuyer = journal[o].toBuyer
        /\ e.toWriter = journal[o].toWriter
    BY <1>1 DEF Entries
  <1> HIDE DEF e
  <1>4. option[o] = "Settling" /\ journal[o].phase = "Started"
    BY <1>2, Awaiting DEF PhaseOf, Transfers
  <1>5. /\ stageOf' = [stageOf EXCEPT ![o] = StageOf(o)']
        /\ dealOf' = [dealOf EXCEPT ![o] = DealOf(o)']
        /\ stageOf[o] = StageOf(o) /\ dealOf[o] = DealOf(o)
        /\ option'[o] = "Settling"
    BY <1>1, <1>2, StagesMove
  <1>6. journal'[o] = e /\ quoted'[o] = quoted[o]
    BY <1>1, <1>2, EffectTouches
  <1>7. StageOf(o) = "agreed" /\ DealOf(o).buyer = journal[o].toBuyer
        /\ StageOf(o)' = "paid"
    BY <1>3, <1>4, <1>5, <1>6, Standing, StandsNext DEF Stands
  <1>8. DealOf(o)' = DealOf(o)
    <2>1. /\ Job(o)'.entry.toBuyer = Job(o).entry.toBuyer
          /\ Job(o)'.entry.toWriter = Job(o).entry.toWriter
          /\ Job(o)'.fee = Job(o).fee
      BY <1>3, <1>6 DEF Job
    <2>2. /\ ToBuyer(Job(o))' = ToBuyer(Job(o))
          /\ Profit(o, Job(o))' = Profit(o, Job(o))
      BY <2>1 DEF ToBuyer, Profit
    <2>3. \A t : Amount(o, Job(o), t)' = Amount(o, Job(o), t)
      BY <2>2 DEF Amount
    <2>4. TransferFees(o, Job(o))' = TransferFees(o, Job(o))
      BY <2>1, <2>3 DEF TransferFees
    <2>5. ToWriter(o, Job(o))' = ToWriter(o, Job(o))
      BY <2>1, <2>4 DEF ToWriter
    <2>6. QED
      BY <1>4, <1>5, <2>2, <2>4, <2>5 DEF DealOf
  <1>9. dealOf' = dealOf
    BY <1>5, <1>8 DEF dealOf
  <1>10. /\ stageOf[o] = "agreed" /\ stageOf' = [stageOf EXCEPT ![o] = "paid"]
    BY <1>5, <1>7
  <1>11. ToBuyer(Job(o)) = dealOf[o].buyer
    BY <1>1, <1>5, <1>7, Entry
  <1>12. /\ available' = [available EXCEPT ![Buyer[o]] = @ + dealOf[o].buyer]
         /\ locked' = [locked EXCEPT ![Writer[o]] = @ - dealOf[o].buyer]
         /\ earned' = earned
    BY <1>2, <1>11 DEF Credit, Debit
  <1>13. QED
    BY <1>9, <1>10, <1>12, Zenon DEF Promise!Pay, stageOf, dealOf, DealOf

(* The two ends of a settlement, which leave an option with no deal.       *)
LEMMA EndStages ==
  ASSUME IInv, NEW o \in Options, NEW status \in {"Settled", "Expired"},
         NEW entry, NEW fee, NEW walStatus, Puts(o, status, entry, fee, walStatus),
         option[o] = "Settling",
         NEW s, s = IF status = "Settled" THEN "closed" ELSE "abandoned"
  PROVE  /\ stageOf' = [stageOf EXCEPT ![o] = s]
         /\ dealOf' = [dealOf EXCEPT ![o] = Promise!NoDeal]
         /\ stageOf[o] = IF journal[o].phase = "Started" THEN "agreed" ELSE "paid"
         /\ ToBuyer(Job(o)) = dealOf[o].buyer
         /\ ToWriter(o, Job(o)) = dealOf[o].writer
         /\ Profit(o, Job(o)) = dealOf[o].platform
  <1>1. TypeOK
    BY DEF IInv
  <1>2. /\ stageOf' = [stageOf EXCEPT ![o] = StageOf(o)']
        /\ dealOf' = [dealOf EXCEPT ![o] = DealOf(o)']
        /\ stageOf[o] = StageOf(o) /\ dealOf[o] = DealOf(o)
        /\ option'[o] = status
    BY <1>1, StagesMove
  <1>3. StageOf(o)' = s /\ DealOf(o)' = Promise!NoDeal
    BY <1>2 DEF StageOf, DealOf, Promise!NoDeal
  <1>4. /\ DealOf(o).buyer = journal[o].toBuyer
        /\ DealOf(o).platform = Profit(o, Job(o))
        /\ DealOf(o).writer = ToWriter(o, Job(o))
        /\ StageOf(o) = IF journal[o].phase = "Started" THEN "agreed" ELSE "paid"
    BY Standing
  <1>5. ToBuyer(Job(o)) = journal[o].toBuyer
    BY <1>1, Entry
  <1>6. QED
    BY <1>2, <1>3, <1>4, <1>5

(* Both halves at once, when no profit fee is to be collected.             *)
LEMMA PayAndCloseStep ==
  ASSUME IInv, NEW o \in Options, PaysAndCloses(o)
  PROVE  Promise!PayAndClose(o)
  <1>1. /\ at[o] = "buyer" /\ reply[o] = "ok" /\ ~(Profit(o, Job(o)) > 0)
        /\ Puts(o, "Settled", NoEntry, quoted[o], "Succeeded")
        /\ available' = Credit(Credit(available, Buyer[o], ToBuyer(Job(o))),
                               Writer[o], ToWriter(o, Job(o)))
        /\ locked' = Debit(locked, Writer[o], Quantity[o])
        /\ UNCHANGED earned
    BY DEF PaysAndCloses
  <1>2. /\ option[o] = "Settling" /\ journal[o].phase = "Started"
        /\ journal[o].toBuyer + journal[o].toWriter <= Quantity[o]
    BY <1>1, Awaiting DEF PhaseOf, Transfers
  <1>3. /\ stageOf' = [stageOf EXCEPT ![o] = "closed"]
        /\ dealOf' = [dealOf EXCEPT ![o] = Promise!NoDeal]
        /\ stageOf[o] = "agreed"
        /\ ToBuyer(Job(o)) = dealOf[o].buyer
        /\ ToWriter(o, Job(o)) = dealOf[o].writer
        /\ Profit(o, Job(o)) = dealOf[o].platform
    BY <1>1, <1>2, EndStages
  <1>4. Profit(o, Job(o)) = 0
    <2> DEFINE q == Quantity[o]
               paid == journal[o].toBuyer
               rest == journal[o].toWriter
               profit == Profit(o, Job(o))
    <2>1. q \in Nat /\ paid \in Nat /\ rest \in Nat /\ profit = q - rest - paid
      BY Entry DEF IInv
    <2>2. ~(profit > 0) /\ paid + rest <= q
      BY <1>1, <1>2
    <2> HIDE DEF q, paid, rest, profit
    <2>3. profit = 0
      BY <2>1, <2>2
    <2>4. QED
      BY <2>3 DEF profit
  <1>5. available' =
          [[available EXCEPT ![Buyer[o]] = @ + dealOf[o].buyer]
             EXCEPT ![Writer[o]] = @ + dealOf[o].writer]
    <2>1. available' = Credit(Credit(available, Buyer[o], dealOf[o].buyer),
                              Writer[o], dealOf[o].writer)
      BY <1>1, <1>3, Zenon
    <2>2. QED
      BY <2>1, Zenon DEF Credit
  <1>6. locked' = [locked EXCEPT ![Writer[o]] = @ - Quantity[o]]
        /\ earned' = earned
    BY <1>1 DEF Debit
  <1>7. dealOf[o].platform = 0
    BY <1>3, <1>4
  <1>8. QED
    BY <1>3, <1>5, <1>6, <1>7, Zenon
       DEF Promise!PayAndClose, Promise!NoDeal, stageOf, dealOf, DealOf

(* The second half of the division.                                        *)
LEMMA CloseStep ==
  ASSUME IInv, NEW o \in Options, Closes(o)
  PROVE  Promise!Close(o)
  <1>1. /\ at[o] = "fee" /\ reply[o] = "ok"
        /\ Puts(o, "Settled", NoEntry, quoted[o], "Succeeded")
        /\ available' = Credit(available, Writer[o], ToWriter(o, Job(o)))
        /\ locked' = Debit(locked, Writer[o], Quantity[o] - ToBuyer(Job(o)))
        /\ earned' = earned + Profit(o, Job(o))
    BY DEF Closes
  <1>2. option[o] = "Settling" /\ journal[o].phase = "BalanceReleased"
    BY <1>1, Awaiting DEF PhaseOf, Transfers
  <1>3. /\ stageOf' = [stageOf EXCEPT ![o] = "closed"]
        /\ dealOf' = [dealOf EXCEPT ![o] = Promise!NoDeal]
        /\ stageOf[o] = "paid"
        /\ ToBuyer(Job(o)) = dealOf[o].buyer
        /\ ToWriter(o, Job(o)) = dealOf[o].writer
        /\ Profit(o, Job(o)) = dealOf[o].platform
    BY <1>1, <1>2, EndStages
  <1>4. /\ available' = [available EXCEPT ![Writer[o]] = @ + dealOf[o].writer]
        /\ locked' = [locked EXCEPT ![Writer[o]] =
                        @ - (Quantity[o] - dealOf[o].buyer)]
        /\ earned' = earned + dealOf[o].platform
    BY <1>1, <1>3, Zenon DEF Credit, Debit
  <1>5. QED
    BY <1>3, <1>4, Zenon
       DEF Promise!Close, Promise!NoDeal, stageOf, dealOf, DealOf

(* A settlement is given up.                                               *)
LEMMA AbandonStep ==
  ASSUME IInv, NEW o \in Options, GivesUp(o)
  PROVE  Promise!Abandon(o)
  <1> DEFINE e == [journal[o] EXCEPT !.phase = "Failed"]
  <1>1. /\ at[o] # "idle" /\ Puts(o, "Expired", e, quoted[o], "FailedPermanent")
        /\ UNCHANGED books
    BY DEF GivesUp
  <1> HIDE DEF e
  <1>2. option[o] = "Settling"
    BY <1>1 DEF IInv, RecordsAgree
  <1>3. /\ stageOf' = [stageOf EXCEPT ![o] = "abandoned"]
        /\ dealOf' = [dealOf EXCEPT ![o] = Promise!NoDeal]
        /\ stageOf[o] \in {"agreed", "paid"}
    BY <1>1, <1>2, EndStages
  <1>4. UNCHANGED <<available, locked, earned>>
    BY <1>1 DEF books
  <1>5. QED
    BY <1>3, <1>4, Zenon
       DEF Promise!Abandon, Promise!NoDeal, stageOf, dealOf, DealOf

(* Where records and balances stay, so does the state of OptionPayout.     *)
LEMMA StagesStay ==
  ASSUME UNCHANGED <<option, journal, quoted>>, UNCHANGED books
  PROVE  UNCHANGED Promise!vars
  <1>1. \A o \in Options : StageOf(o)' = StageOf(o) /\ DealOf(o)' = DealOf(o)
    BY SameStage
  <1>2. stageOf' = stageOf /\ dealOf' = dealOf
    BY <1>1 DEF stageOf, dealOf
  <1>3. available' = available /\ locked' = locked /\ earned' = earned
    BY DEF books
  <1>4. QED
    BY <1>2, <1>3, Zenon DEF Promise!vars, stageOf, dealOf, DealOf

(* Every step of the settlement is one of OptionPayout's, or leaves its    *)
(* state as it is.                                                         *)
LEMMA StepImplements ==
  ASSUME IInv, IInv', [Next]_vars
  PROVE  [Promise!Next]_(Promise!vars)
  <1>1. CASE Beside
    BY <1>1, StagesStay DEF Beside
  <1>2. ASSUME NEW o \in Options, Effect(o)
        PROVE  [Promise!Next]_(Promise!vars)
    <2>1. TypeOK
      BY DEF IInv
    <2>2. CASE Resends(o)
      <3>1. PICK t \in Transfers : ResendsTo(o, t)
        BY <2>2 DEF Resends
      <3>2. /\ option[o] = "Settling" /\ UNCHANGED books
            /\ Puts(o, "Settling", journal[o], quoted[o], "InFlight")
        BY <3>1 DEF ResendsTo
      <3>3. UNCHANGED <<option, journal, quoted>>
        BY <2>1, <3>2 DEF Puts, TypeOK
      <3>4. QED
        BY <3>2, <3>3, StagesStay
    <2>3. CASE FailsAgain(o)
      <3>1. /\ option[o] = "Expired" /\ UNCHANGED books
            /\ Puts(o, "Expired", journal[o], quoted[o], "FailedPermanent")
        BY <2>3 DEF FailsAgain
      <3>2. UNCHANGED <<option, journal, quoted>>
        BY <2>1, <3>1 DEF Puts, TypeOK
      <3>3. QED
        BY <3>1, <3>2, StagesStay
    <2>4. CASE \/ Lapses(o) \/ Agrees(o) \/ Pays(o) \/ PaysAndCloses(o)
               \/ Closes(o) \/ GivesUp(o)
      <3>1. \/ Promise!Agree(o) \/ Promise!Pay(o) \/ Promise!Close(o)
            \/ Promise!PayAndClose(o) \/ Promise!Lapse(o) \/ Promise!Abandon(o)
        BY <2>4, LapseStep, AgreeStep, PayStep, PayAndCloseStep, CloseStep,
           AbandonStep
      <3>2. Promise!Next
        BY <3>1 DEF Promise!Next
      <3>3. QED
        BY <3>2
    <2>5. QED
      BY <1>2, <2>2, <2>3, <2>4 DEF Effect
  <1>3. QED
    BY <1>1, <1>2, StepComesTo

(* And it begins where OptionPayout does.                                  *)
LEMMA InitImplements == Init => Promise!Init
  <1> SUFFICES ASSUME Init PROVE Promise!Init
    OBVIOUS
  <1>1. \A o \in Options : StageOf(o) = "open" /\ DealOf(o) = Promise!NoDeal
    BY DEF Init, StageOf, DealOf, NoEntry, Promise!NoDeal
  <1>2. /\ stageOf = [o \in Options |-> "open"]
        /\ dealOf = [o \in Options |-> Promise!NoDeal]
    BY <1>1 DEF stageOf, dealOf
  <1>3. earned = 0
    BY DEF Init
  <1>4. QED
    BY <1>2, <1>3, Zenon DEF Promise!Init, Promise!NoDeal, stageOf, dealOf, DealOf

(* Every collateral is divided once and completely, and no other balance   *)
(* is touched: the settlement implements what OptionPayout promises.       *)
THEOREM PromiseIsKept == Spec => PayoutKeepsItsPromise
  <1>1. IInv /\ IInv' /\ [Next]_vars => [Promise!Next]_(Promise!vars)
    BY StepImplements
  <1>2. QED
    BY <1>1, InitImplements, Inductive, PTL DEF Spec, PayoutKeepsItsPromise,
       Promise!Spec
=============================================================================
