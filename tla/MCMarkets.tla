----------------------------- MODULE MCMarkets -----------------------------
(* What stands around a trade, side by side: the price oracle before it,   *)
(* the history after it, and a trading bot that makes one of its own.      *)
(*                                                                         *)
(* A unit of the oracle's time is ten minutes; beside the snapshots there  *)
(* are two settlements, or one and an accept.  A day of the history's      *)
(* calendar has two hours.  The bot has two overlapping ticks and an       *)
(* outside writer with two offers of one score and premium, one of them    *)
(* beyond what he can cover.                                               *)
EXTENDS Markets, TLC

CONSTANTS a1, s1, s2, p1

MCGroups == {{a1, s1, p1}, {s1, s2, p1}}
MCDeals == {[quantity |-> 40000, premium |-> 601, strike |-> 100]}
MCDayStarts == <<0, 2>>
MCBotOf == [x \in {"t1", "t2"} |-> "b"]
Offer(quantity) ==
  [writer |-> "w", bps |-> 2500, quantity |-> quantity, strike |-> 11000, short |-> TRUE]
MCBook0 == <<Offer(4), Offer(6)>>
MCAvailable0 == [x \in {"b", "w"} |-> 4]
=============================================================================
