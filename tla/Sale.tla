-------------------------------- MODULE Sale --------------------------------
(***************************************************************************)
(* What accepting offers promises: a request takes its part of every offer *)
(* it names at once, and then either all of it is sold or all of it goes   *)
(* back.  While a request holds a part of an offer nobody else takes any   *)
(* of it, or withdraws it.  Nothing is said of journals, transfers,        *)
(* retries or crashes.                                                     *)
(***************************************************************************)
EXTENDS Naturals

CONSTANTS Accepts, Offers, Total,
          Taken   \* what a request takes of an offer

VARIABLES
  stage,     \* of a request: "open", "held", "sold", "returned"
  left       \* what is left of an offer

vars == <<stage, left>>

Takes(a) == {o \in Offers : Taken[a][o] > 0}
Holders(o) == {a \in Accepts : stage[a] = "held" /\ o \in Takes(a)}

Init ==
  /\ stage = [a \in Accepts |-> "open"]
  /\ left = Total

Hold(a) ==
  /\ stage[a] = "open"
  /\ \A o \in Takes(a) : Holders(o) = {} /\ Taken[a][o] <= left[o]
  /\ stage' = [stage EXCEPT ![a] = "held"]
  /\ left' = [o \in Offers |-> left[o] - Taken[a][o]]

Sell(a) ==
  /\ stage[a] = "held"
  /\ stage' = [stage EXCEPT ![a] = "sold"]
  /\ UNCHANGED left

Return(a) ==
  /\ stage[a] = "held"
  /\ stage' = [stage EXCEPT ![a] = "returned"]
  /\ left' = [o \in Offers |-> left[o] + Taken[a][o]]

Next == \E a \in Accepts : Hold(a) \/ Sell(a) \/ Return(a)

Spec == Init /\ [][Next]_vars
=============================================================================
