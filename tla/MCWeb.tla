------------------------------- MODULE MCWeb -------------------------------
(* A small instance of the pages.  The panel of pending deposits sees two  *)
(* accounts with a deposit each; the user of the account panel has enough  *)
(* for one withdrawal of either amount, or two of the smaller one; of the  *)
(* codes an onboarding draws, ann's first is the friend's, and bob's only  *)
(* one is the code ann then takes.                                         *)
EXTENDS Pages, TLC

ToEach == "d1" :> "u1" @@ "d2" :> "u2"
ClosingPrices == [h \in 0 .. 20 |-> 10 + ((h * 7) % 5)]
Clock(offset, shift) == [offset |-> offset, shift |-> shift]
BrowserClocks == {Clock(0, 0), Clock(1, 0), Clock(0, 1)}
InviteCandidates == "fay" :> <<"F">> @@ "ann" :> <<"F", "A">> @@ "bob" :> <<"A">>

(* A chart that rests is of one size, and beside one clock.                *)
WebInit ==
  /\ PagesInit
  /\ onPage # "chart" => chWidth = 20 /\ chClock = Clock(0, 0)

WebSpec == WebInit /\ [][PagesNext]_pagesVars
=============================================================================
