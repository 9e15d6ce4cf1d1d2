--------------------------- MODULE MCWithdrawal ---------------------------
(* One user with two withdrawals, of which the second can only follow the  *)
(* first.                                                                  *)
EXTENDS Withdrawal, TLC

CONSTANTS user, w1, w2

MCOwner == w1 :> user @@ w2 :> user
MCAvailable == user :> 7
=============================================================================
