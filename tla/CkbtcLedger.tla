---------------------------- MODULE CkbtcLedger ----------------------------
(***************************************************************************)
(* The ckBTC ledger as the canister relies on it (ledger.rs): a request    *)
(* names the fee it expects to pay and the time it was created at.  The    *)
(* ledger refuses another fee than its own (BadFee) and a request created  *)
(* longer ago than its deduplication window (TooOld); it answers Duplicate *)
(* to a request it has executed, which the canister reads as success, and  *)
(* refuses what the account cannot pay (InsufficientFunds).                *)
(*                                                                         *)
(* The age of a request is kept as coarsely as the code tells ages apart:  *)
(* the WAL stops retrying unattended when it is Aged, the ledger when it   *)
(* is Expired (store.rs keeps an hour between the two).                    *)
(***************************************************************************)
EXTENDS Naturals

Young == 0     \* created less than 23 hours ago
Aged == 1      \* created 23 to 24 hours ago
Expired == 2   \* older than the deduplication window
Ages == Young .. Expired

(* What becomes of a request for `amount' at a fee of `fee'.               *)
Verdict(executed, age, fee, ledgerFee, funds, amount) ==
  IF fee # ledgerFee \/ age = Expired THEN "rejected"
  ELSE IF executed THEN "duplicate"
  ELSE IF funds < amount + fee THEN "rejected" ELSE "applied"
=============================================================================
