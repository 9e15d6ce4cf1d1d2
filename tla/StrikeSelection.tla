--------------------------- MODULE StrikeSelection ---------------------------
(***************************************************************************)
(* Term and strike of an option, as a user picks them on the pages to buy  *)
(* and to write: the model behind each form, the store the price chart     *)
(* draws from, the pickers, and the flow that leads from them to an order. *)
(*                                                                         *)
(* The store outlives the forms; a form is built anew whenever its page    *)
(* is entered or its dialog opened.  Limits, offers, account and price     *)
(* arrive and change at any time.  Effects run to their end after every    *)
(* event, before the next.  Amounts and premiums are left out.             *)
(***************************************************************************)
EXTENDS Integers, FiniteSets, FiniteSetsExt

CONSTANTS
  TermOptions,      \* DEFAULT_TERM_OPTIONS: 1, 3, 7 days
  StrikeOptions,    \* STRIKE_PERCENT_OPTIONS
  DefaultTerm,      \* 7, also the first of the store
  DefaultStrike,    \* 5
  Limits,           \* option_duration_seconds, in days: [min, max]
  Lists,            \* lists of offers the browser may hold
  MaxChanges        \* bound on what arrives

StrikeSelectionAssumption ==
  /\ TermOptions \subseteq Nat \ {0} /\ StrikeOptions \subseteq Nat \ {0}
  /\ StrikeOptions # {} /\ {DefaultTerm, DefaultStrike, MaxChanges} \subseteq Nat
  /\ IsFiniteSet(TermOptions) /\ IsFiniteSet(StrikeOptions)
  /\ \A list \in Lists :
       IsFiniteSet(list) /\ list \subseteq [term : Nat, strike : Nat, own : BOOLEAN]
  /\ \A l \in Limits : \E d \in TermOptions : l.min <= d /\ d <= l.max

VARIABLES
  chart,      \* the store: [term, strike]
  limits,     \* those of the configuration, {} before it is there
  offers,     \* [term, strike, own] of the offers listed, {} before they are
  account,    \* whether the browser knows who the user is
  priced,     \* whether it knows the price of BTC
  form,       \* "none", or the side and the kind of picker
  picked,     \* what the form keeps itself: [term, strike]
  step, stage,   \* page of the flow, progress of the order
  order,      \* the last order, and what the form showed with it
  changes

data == <<limits, offers, account, priced>>
vars == <<chart, data, form, picked, step, stage, order, changes>>

None == [kind |-> "none"]
Buys == {"buyForm", "buyFlow"}
Flows == {"buyFlow", "writeFlow"}
Review(f) == IF f = "buyFlow" THEN 3 ELSE 4
Processing == {"signing", "submitting"}

Init ==
  /\ chart = [term |-> DefaultTerm, strike |-> DefaultStrike]
  /\ limits = {} /\ offers = {} /\ account = FALSE /\ priced = FALSE
  /\ form = "none" /\ picked = chart
  /\ step = 1 /\ stage = "idle" /\ order = None /\ changes = 0

-----------------------------------------------------------------------------
(* What a form derives.                                                    *)

(* termOptions of mapConfig; the buyer's strikes are those of offers by    *)
(* others at a term, the writer's are fixed but come with the              *)
(* configuration.                                                          *)
Terms(l) == {d \in TermOptions : \E x \in l : x.min <= d /\ d <= x.max}
Others(list, known) == {o \in list : ~(known /\ o.own)}
StrikesFor(f, l, list, known, term) ==
  IF f \in Buys THEN {o.strike : o \in {x \in Others(list, known) : x.term = term}}
  ELSE IF l = {} THEN {} ELSE StrikeOptions

(* An option that is not on the list gives way to the first that is.       *)
OnList(x, S) == IF x \in S \/ S = {} THEN x ELSE Min(S)

SelectedTerm == OnList(IF form \in Buys THEN chart.term ELSE picked.term, Terms(limits))
StrikeChoices == StrikesFor(form, limits, offers, account,
                      IF form \in Buys THEN chart.term ELSE SelectedTerm)
SelectedStrike == IF form \in Buys THEN picked.strike ELSE OnList(picked.strike, StrikeChoices)

(* Numbers by their rank.                                                  *)
Ascending(S) ==
  [i \in 1 .. Cardinality(S) |-> CHOOSE x \in S : Cardinality({y \in S : y <= x}) = i]

(* getStrikeUsd; without a price every strike is worth 0.                  *)
Usd(strike) == IF priced THEN 100 + strike ELSE 0
Values == LET sorted == Ascending(StrikeChoices) IN [i \in DOMAIN sorted |-> Usd(sorted[i])]
IndexIn(seq, v) == LET at == {i \in DOMAIN seq : seq[i] = v} IN IF at = {} THEN 0 ELSE Min(at)

-----------------------------------------------------------------------------
(* The effects.                                                            *)

(* Fault: a strike that is gone stays picked.                              *)
SettledOnTerm(f, c, p, l, list, known, fresh) ==
  LET t1 == OnList(IF f \in Buys THEN c.term ELSE p.term, Terms(l))
  IN  [chart |-> [term |-> t1, strike |-> p.strike], picked |-> [term |-> t1, strike |-> p.strike]]

(* Term and strike give way when they are off their lists, the strike at   *)
(* the old term first and at the new one then; what changes, and on the    *)
(* first run everything, is told to the chart.  The buyer keeps no term    *)
(* but the chart's.                                                        *)
Settled(f, c, p, l, list, known, fresh) ==
  LET t1 == OnList(IF f \in Buys THEN c.term ELSE p.term, Terms(l))
      s1 == OnList(OnList(p.strike, StrikesFor(f, l, list, known, c.term)),
                   StrikesFor(f, l, list, known, t1))
      told(new, old, shown) == IF fresh \/ new # old THEN new ELSE shown
  IN  [chart |-> [term |-> told(t1, p.term, c.term), strike |-> told(s1, p.strike, c.strike)],
       picked |-> [term |-> t1, strike |-> s1]]

Settle(f, c, p, l, list, known, fresh) ==
  IF f = "none" THEN chart' = c /\ picked' = p
  ELSE LET s == Settled(f, c, p, l, list, known, fresh) IN
       chart' = s.chart /\ picked' = s.picked

-----------------------------------------------------------------------------
(* The world.                                                              *)

Arrive(l, list, known) ==
  /\ changes < MaxChanges /\ changes' = changes + 1
  /\ limits' = l /\ offers' = list /\ account' = known
  /\ Settle(form, chart, picked, l, list, known, FALSE)
  /\ UNCHANGED <<priced, form, step, stage, order>>

Configure(l) == l # limits /\ Arrive(l, offers, account)
ListOffers(list) == list # offers /\ Arrive(limits, list, account)
KnowAccount == ~account /\ Arrive(limits, offers, TRUE)
KnowPrice ==
  /\ ~priced /\ priced' = TRUE
  /\ UNCHANGED <<chart, limits, offers, account, form, picked, step, stage, order, changes>>

(* A page of forms is entered, or a flow opened: a new model with its      *)
(* first values.                                                           *)
Enter(f) ==
  /\ form = "none" /\ form' = f
  /\ LET first == [term |-> IF f \in Buys THEN chart.term ELSE OnList(DefaultTerm,
                            IF Terms(limits) = {} THEN {} ELSE {Min(Terms(limits))}),
                   strike |-> IF f \in Buys \/ limits = {} THEN DefaultStrike
                              ELSE Min(StrikeOptions)]
     IN  Settle(f, chart, first, limits, offers, account, TRUE)
  /\ step' = 1 /\ stage' = "idle"
  /\ UNCHANGED <<data, order, changes>>

(* Another page, or the notice that trading is paused.                     *)
Leave ==
  /\ form # "none" /\ form' = "none" /\ step' = 1 /\ stage' = "idle"
  /\ UNCHANGED <<chart, data, picked, order, changes>>

-----------------------------------------------------------------------------
(* The pickers: the carousels of a form, the grid and the stepper of a     *)
(* flow's first page, and never while a dialog tells of an order.          *)
Picking == form # "none" /\ (form \in Flows => step = 1) /\ stage = "idle"

Choose(c, p) ==
  /\ Settle(form, c, p, limits, offers, account, FALSE)
  /\ UNCHANGED <<data, form, step, stage, order, changes>>

(* setTerm: the buyer's is the store's.                                    *)
PickTerm(t) ==
  /\ Picking /\ t \in Terms(limits)
  /\ form \notin Flows =>
       LET sorted == Ascending(Terms(limits))
           at == Max({1, IndexIn(sorted, SelectedTerm)})
       IN  t \in {sorted[i] : i \in {at - 1, at + 1} \cap DOMAIN sorted}
  /\ Choose([chart EXCEPT !.term = t], [picked EXCEPT !.term = t])

(* A carousel stands on the first value when its own is not there, a       *)
(* stepper does not move then.                                             *)
Position ==
  LET at == IndexIn(Values, Usd(SelectedStrike)) IN
  IF form \in Flows THEN at ELSE Max({1, at})

CanMove(d) == Position > 0 /\ Position + d \in DOMAIN Values

(* handleStrikeUsdChange: the strike is looked up by its value in dollars. *)
PickStrike(d) ==
  /\ Picking /\ CanMove(d)
  /\ LET strike == Ascending(StrikeChoices)[IndexIn(Values, Values[Position + d])]
     IN  Choose([chart EXCEPT !.strike = strike], [picked EXCEPT !.strike = strike])

-----------------------------------------------------------------------------
(* The flow.                                                               *)
GoNext ==
  /\ form \in Flows /\ step < Review(form)
  /\ form = "buyFlow" /\ step = 1 => StrikeChoices # {}
  /\ step' = step + 1
  /\ UNCHANGED <<chart, data, form, picked, stage, order, changes>>

GoBack ==
  /\ form \in Flows /\ stage = "idle" /\ step > 1
  /\ \E s \in 1 .. step - 1 : step' = s
  /\ UNCHANGED <<chart, data, form, picked, stage, order, changes>>

CanSubmit ==
  /\ form # "none" /\ stage = "idle" /\ (form \in Flows => step = Review(form))
  /\ form \in Buys => picked.strike \in StrikeChoices

(* The buyer's order is of the best of the offers at the store's term and  *)
(* the form's strike, the writer's of the term and strike selected.        *)
Ordered ==
  IF form \in Buys THEN [term |-> chart.term, strike |-> picked.strike]
  ELSE [term |-> SelectedTerm, strike |-> SelectedStrike]

Submit ==
  /\ CanSubmit
  /\ order' = [kind |-> form, known |-> limits, ordered |-> Ordered,
               shown |-> [term |-> SelectedTerm, strike |-> SelectedStrike]]
  /\ stage' = "signing"
  /\ UNCHANGED <<chart, data, form, picked, step, changes>>

Progress ==
  /\ \/ stage = "signing" /\ stage' \in {"submitting", "error"}
     \/ stage = "submitting" /\ stage' \in {"success", "error"}
  /\ UNCHANGED <<chart, data, form, picked, step, order, changes>>

(* Neither a flow nor the dialog of a form is closed while its order is    *)
(* processed.                                                              *)
Close ==
  /\ form # "none" /\ stage \notin Processing
  /\ form \in Flows \/ stage # "idle"
  /\ form' = IF form \in Flows THEN "none" ELSE form
  /\ step' = 1 /\ stage' = "idle"
  /\ UNCHANGED <<chart, data, picked, order, changes>>

TryAgain ==
  /\ form \in Flows /\ stage = "error" /\ stage' = "idle"
  /\ UNCHANGED <<chart, data, form, picked, step, order, changes>>

Next ==
  \/ \E l \in Limits : Configure({l})
  \/ \E list \in Lists : ListOffers(list)
  \/ KnowAccount \/ KnowPrice
  \/ \E f \in {"buyForm", "buyFlow", "writeForm", "writeFlow"} : Enter(f)
  \/ Leave
  \/ \E t \in TermOptions : PickTerm(t)
  \/ \E d \in {-1, 1} : PickStrike(d)
  \/ GoNext \/ GoBack \/ Submit \/ Progress \/ Close \/ TryAgain

Spec == Init /\ [][Next]_vars

-----------------------------------------------------------------------------
TypeOK ==
  /\ Cardinality(limits) <= 1 /\ limits \subseteq Limits /\ offers \in Lists \cup {{}}
  /\ form \in {"none"} \cup Buys \cup Flows \cup {"writeForm"}
  /\ step \in 1 .. 4 /\ stage \in Processing \cup {"idle", "success", "error"}

(* The chart beside a form draws the term and the strike the form shows,   *)
(* whichever form wrote to the store before and in whatever order limits,  *)
(* offers and account arrive (chart-options-store, the models' effects).   *)
ChartShowsTheForm ==
  form # "none" =>
    chart = [term |-> SelectedTerm, strike |-> SelectedStrike]

(* What is ordered is what the form showed, and a term that the limits it  *)
(* was shown with allow.                                                   *)
OrderedAsShown ==
  order # None =>
    /\ order.ordered = order.shown
    /\ order.known # {} => order.ordered.term \in Terms(order.known)

(* Once there is a price, a picker stands on the strike that is selected,  *)
(* wherever there are strikes: so its neighbours are one move away, and    *)
(* no picker is stuck on a strike that has gone.                           *)
PickerStandsOnItsStrike ==
  (form # "none" /\ priced /\ StrikeChoices # {}) =>
    /\ SelectedStrike \in StrikeChoices
    /\ Ascending(StrikeChoices)[Position] = SelectedStrike
=============================================================================
