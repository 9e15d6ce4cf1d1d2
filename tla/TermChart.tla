------------------------------ MODULE TermChart ------------------------------
(***************************************************************************)
(* What the option pages tell of time: the chart of past prices with the   *)
(* term and the strike drawn into its future, the expiry that a review     *)
(* foretells, the day in the headline of the list, and the expiry that     *)
(* the canister then gives an option.                                      *)
(*                                                                         *)
(* Time is counted in ticks, HourTicks to an hour; a candle is named by    *)
(* the hour it begins.  The browser's hours begin offset ticks after those *)
(* of UTC, and its clock may be moved by an hour before an expiry.         *)
(***************************************************************************)
EXTENDS Integers, FiniteSets, FiniteSetsExt

CONSTANTS
  HourTicks, DayHours,      \* ticks of an hour, hours of a day: 24
  WindowHours,              \* COINBASE_CANDLES_PER_REQUEST_WITH_MARGIN
  MaxCandles,               \* COINBASE_MAX_CANDLES_PER_REQUEST
  MinDays, MaxDays,         \* MIN_HISTORY_DAYS, MAX_BTC_HISTORY_DAYS
  Terms, Strikes,           \* days, and percents above the price
  ClosingPrice,             \* the price an hour closes at
  Prices,                   \* of BTC, as the page may be told
  Sizes,                    \* widths of the chart's container
  Left, Right,              \* CHART_PADDING, in the same measure
  Top, Height,              \* of the plot inside the container
  Clocks,                   \* of a browser: [offset, shift], in ticks and hours
  Start, MaxNow             \* first and last tick

TermChartAssumption ==
  /\ {HourTicks, DayHours, WindowHours} \subseteq Nat \ {0}
  /\ {MinDays, MaxDays, MaxCandles, Left, Right, Top, Height, Start, MaxNow} \subseteq Nat
  /\ 1 <= MinDays /\ MinDays <= MaxDays /\ WindowHours < MaxCandles
  /\ IsFiniteSet(Terms) /\ Terms # {} /\ Terms \subseteq Nat \ {0}
  /\ IsFiniteSet(Strikes) /\ Strikes # {} /\ Strikes \subseteq Nat
  /\ Prices \subseteq Nat /\ \A h \in 0 .. MaxNow \div HourTicks : ClosingPrice[h] \in Nat
  /\ Clocks \subseteq [offset : Int, shift : Int]
  /\ Start >= MaxDays * DayHours * HourTicks /\ Start <= MaxNow
  /\ Sizes \subseteq Nat     \* a day on the chart is one unit wide or more
  /\ \A n \in Sizes, t \in Terms : n >= Left + Right + MaxDays + t + 3

VARIABLES
  now, clock,     \* the time, and [offset, shift] of the browser's clock
  chosen,         \* the store of the options pages: [term, strike]
  price,          \* the page's price of BTC, 0 before it is known
  history,        \* by days asked for: [status, candles]
  asked,          \* requests on their way: [days, at]
  chart,          \* the charts' properties: "none", "overlay" or "plain"
  width,          \* of the container as the page lays it out
  measured,       \* of the container as the chart knows it
  watched,        \* whether the observer watches the container on the page
  review,         \* what the page tells of the expiry: {} or [at, term]
  order           \* the order: {} or [told, at, expiry]

page == <<chosen, price, chart, width, measured, watched>>
vars == <<now, clock, page, history, asked, review, order>>

Hour(t) == t \div HourTicks
DayTicks == DayHours * HourTicks

Init ==
  /\ now = Start /\ clock \in Clocks
  /\ chosen = [term |-> Max(Terms), strike |-> Max(Strikes)] /\ price = 0
  /\ history = [d \in MinDays .. MaxDays |-> [status |-> "pending", candles |-> {}]]
  /\ asked = {} /\ chart = "none"
  /\ width \in Sizes /\ measured = 0 /\ watched = FALSE
  /\ review = {} /\ order = {}

-----------------------------------------------------------------------------
(* Past prices.                                                            *)

(* historyDays and getBoundedHistoryDays; a chart without overlay is of a  *)
(* fixed term, the longest.                                                *)
HistoryDays(kind, term) ==
  LET days == IF kind = "plain" THEN MaxDays ELSE (3 * term + 1) \div 2
  IN  Min({MaxDays, Max({MinDays, days})})

(* buildCandleRequestWindowsSeconds                                        *)
Windows(from, to) ==
  LET span == WindowHours * HourTicks IN
  {[from |-> from + k * span, to |-> Min({from + (k + 1) * span, to})] :
     k \in {k \in 0 .. (to - from) \div span : from + k * span < to}}

(* The exchange: the hours that begin inside a window, both ends counted.  *)
CandlesOf(w) ==
  {h \in Hour(w.from) .. Hour(w.to) : w.from <= h * HourTicks /\ h * HourTicks <= w.to}

(* fetchBtcHistory: all windows or nothing.                                *)
Fetched(days, at) ==
  LET windows == Windows(at - days * DayTicks, at) IN
  IF \E w \in windows : Cardinality(CandlesOf(w)) > MaxCandles THEN {}
  ELSE UNION {CandlesOf(w) : w \in windows}

(* A chart that comes up or changes its days asks when nothing is there.   *)
Asks(kind, term) ==
  LET d == HistoryDays(kind, term) IN
  IF kind # "none" /\ history[d].status = "pending" /\ ~\E r \in asked : r.days = d
  THEN {[days |-> d, at |-> now]} ELSE {}

Loading(kind, term, h, q) ==
  LET d == HistoryDays(kind, term) IN
  h[d].status = "pending" /\ \E r \in q : r.days = d

(* refetchInterval *)
Refetch ==
  /\ chart # "none" /\ asked = {} /\ history[HistoryDays(chart, chosen.term)].status # "pending"
  /\ asked' = {[days |-> HistoryDays(chart, chosen.term), at |-> now]}
  /\ UNCHANGED <<now, clock, page, history, review, order>>

-----------------------------------------------------------------------------
(* The chart on the page.                                                  *)

(* Fault: the container is watched when the chart comes up, and then no    *)
(* more.                                                                   *)
ShowOnce(kind, term, h, q) ==
  IF kind = "none" THEN measured' = 0 /\ watched' = FALSE
  ELSE IF Loading(kind, term, h, q) THEN measured' = measured /\ watched' = FALSE
  ELSE IF measured = 0 THEN measured' = width /\ watched' = TRUE
  ELSE UNCHANGED <<measured, watched>>

(* While the history loads there is no container; its effects measure and  *)
(* watch the one that then comes, and the one there is.                    *)
Show(kind, term, h, q) ==
  IF kind = "none" THEN measured' = 0 /\ watched' = FALSE
  ELSE IF Loading(kind, term, h, q) THEN measured' = measured /\ watched' = FALSE
  ELSE IF ~watched \/ h[HistoryDays(kind, term)] # history[HistoryDays(kind, term)]
  THEN measured' = width /\ watched' = TRUE
  ELSE UNCHANGED <<measured, watched>>

Turn(kind, c) ==
  /\ chart' = kind /\ chosen' = c
  /\ LET q == asked \cup Asks(kind, c.term) IN
     asked' = q /\ Show(kind, c.term, history, q)
  /\ UNCHANGED <<now, clock, price, width, history, order>>

Mount(kind) == chart = "none" /\ Turn(kind, chosen) /\ UNCHANGED review
Unmount == chart # "none" /\ Turn("none", chosen) /\ review' = {}

(* The pickers, with the review rendered anew where there is one.          *)
Choose(term, strike) ==
  /\ chosen # [term |-> term, strike |-> strike]
  /\ Turn(chart, [term |-> term, strike |-> strike])
  /\ review' = {[at |-> now, term |-> term] : r \in review}

Resize(w) ==
  /\ w # width /\ width' = w
  /\ measured' = IF watched THEN w ELSE measured
  /\ UNCHANGED <<now, clock, chosen, price, chart, watched, history, asked, review, order>>

(* An answer of the exchange; a failure leaves what is there.              *)
Answer(r, ok) ==
  /\ r \in asked /\ asked' = asked \ {r}
  /\ LET candles == Fetched(r.days, r.at)
         old == history[r.days] IN
     history' = [history EXCEPT ![r.days] =
                   IF ok /\ candles # {} THEN [status |-> "success", candles |-> candles]
                   ELSE [old EXCEPT !.status = IF old.status = "success" THEN "success"
                                               ELSE "error"]]
  /\ Show(chart, chosen.term, history', asked')
  /\ UNCHANGED <<now, clock, chosen, price, chart, width, review, order>>

(* A price renders the review anew.                                        *)
Price(p) ==
  /\ p # price /\ price' = p
  /\ review' = {[r EXCEPT !.at = now] : r \in review}
  /\ UNCHANGED <<now, clock, chosen, chart, width, measured, watched, history, asked, order>>

-----------------------------------------------------------------------------
(* What the chart draws.                                                   *)

Candles == history[HistoryDays(chart, chosen.term)].candles
Overlay == chart = "overlay"
Strike == price * (100 + chosen.strike)     \* in hundredths
Drawn ==
  /\ chart # "none" /\ ~Loading(chart, chosen.term, history, asked)
  /\ measured > 0 /\ Candles # {}

Today == Max(Candles)
Days(n) == Today + n * DayHours
Extra == 3
ChartEnd == IF Overlay THEN Days(chosen.term + Extra) ELSE Today

Expiry == Days(chosen.term)
ZoneEnd == Min({Days(chosen.term + Extra), ChartEnd})

(* scaleX *)
X(h) ==
  LET first == Min(Candles) IN
  IF ChartEnd <= first THEN Left
  ELSE Left + ((h - first) * (measured - Left - Right)) \div (ChartEnd - first)

(* The range of prices on the chart; the page's price is not part of it.   *)
Plotted == {100 * ClosingPrice[h] : h \in Candles} \cup {Strike}
PriceRange == LET padding == (15 * (Max(Plotted) - Min(Plotted))) \div 100
         IN  [min |-> Min(Plotted) - padding, max |-> Max(Plotted) + padding]

(* scaleY *)
Y(p, range) == IF range.max = range.min THEN Top + Height \div 2
               ELSE Top + ((range.max - p) * Height) \div (range.max - range.min)

Line(range) == {<<X(h), Y(100 * ClosingPrice[h], range)>> : h \in Candles}

(* The overlay: the term runs from today's price to the expiry, the strike *)
(* from there to the end of the zone.                                      *)
Marks(range) ==
  [today |-> X(Today), expiry |-> X(Expiry), end |-> X(ZoneEnd), strike |-> Y(Strike, range)]

-----------------------------------------------------------------------------
(* Expiries.                                                               *)

(* estimateExpiryDate: the browser's next full hour, days of its calendar. *)
Estimate(at, term) ==
  LET begin == ((at - clock.offset) \div HourTicks + 1) * HourTicks + clock.offset
  IN  begin + term * DayTicks - clock.shift * HourTicks

(* calculate_expiry_seconds *)
ExpiryOf(at, term) == (Hour(at) + 1) * HourTicks + term * DayTicks

(* formatOrdersHeadlineSettlesOnMonthDayUtc *)
HeadlineDay(at, term) == at \div DayTicks + term

Review ==
  /\ chart # "none" /\ review = {}
  /\ review' = {[at |-> now, term |-> chosen.term]}
  /\ UNCHANGED <<now, clock, page, history, asked, order>>

(* Submitted as it was rendered last.                                      *)
Order ==
  /\ order = {}
  /\ \E r \in review :
       order' = {[term |-> r.term, rendered |-> r.at, told |-> Estimate(r.at, r.term),
                  day |-> HeadlineDay(r.at, r.term), marked |-> IF Drawn /\ Overlay
                  THEN {Expiry} ELSE {}, at |-> now, expiry |-> 0]}
  /\ UNCHANGED <<now, clock, page, history, asked, review>>

(* The canister carries it out, at a time of its own.                      *)
Accept ==
  /\ \E o \in order : o.expiry = 0 /\ order' = {[o EXCEPT !.at = now, !.expiry = ExpiryOf(now, o.term)]}
  /\ UNCHANGED <<now, clock, page, history, asked, review>>

Tick ==
  /\ now < MaxNow /\ now' = now + 1
  /\ UNCHANGED <<clock, page, history, asked, review, order>>

Next ==
  \/ Refetch \/ Unmount \/ Review \/ Order \/ Accept \/ Tick
  \/ \E kind \in {"overlay", "plain"} : Mount(kind)
  \/ \E term \in Terms, strike \in Strikes : Choose(term, strike)
  \/ \E w \in Sizes : Resize(w)
  \/ \E r \in asked, ok \in BOOLEAN : Answer(r, ok)
  \/ \E p \in Prices : Price(p)

Spec == Init /\ [][Next]_vars

-----------------------------------------------------------------------------
TypeOK ==
  /\ now \in Start .. MaxNow /\ chart \in {"none", "overlay", "plain"}
  /\ watched \in BOOLEAN /\ measured \in Sizes \cup {0}
  /\ Cardinality(review) <= 1 /\ Cardinality(order) <= 1

(* The history of a chart has every hour of the days that were asked for,  *)
(* however many requests it took (fetchBtcHistory).                        *)
HistoryIsWhole ==
  \A d \in DOMAIN history :
    LET candles == history[d].candles IN
    candles # {} =>
      /\ candles = Min(candles) .. Max(candles)
      /\ Cardinality(candles) \in {d * DayHours, d * DayHours + 1}

(* A chart fills the container it is drawn into: resized, reloaded or      *)
(* turned to another term, it is drawn in the size the page gives it.      *)
ChartFitsItsContainer == Drawn => measured = width

(* What is drawn lies on the chart and in its order: the first candle at   *)
(* the left edge, today, the expiry, and the end of the zone of profit;    *)
(* and no price of the line, nor the strike, is above or below the plot.   *)
MarksInOrder ==
  Drawn =>
    LET range == PriceRange
        right == measured - Right
        fits(y) == Top <= y /\ y <= Top + Height
    IN  /\ X(Min(Candles)) = Left /\ Left <= X(Today) /\ X(Today) <= right
        /\ \A point \in Line(range) : fits(point[2])
        /\ Overlay =>
             LET marks == Marks(range) IN
             /\ marks.today < marks.expiry /\ marks.expiry < marks.end
             /\ marks.end = right /\ fits(marks.strike)

(* An option expires when its review foretold, later only by the full      *)
(* hours that passed between the review's last rendering and the accept:   *)
(* in a browser whose clock goes with UTC's hours and is not moved.  With  *)
(* other clocks it differs by less than an hour, and by the shift          *)
(* (estimateExpiryDate, calculate_expiry_seconds).                         *)
ReviewForetellsExpiry ==
  \A o \in order :
    o.expiry # 0 =>
      LET late == (Hour(o.at) - Hour(o.rendered)) * HourTicks
          off == o.expiry - late - o.told - clock.shift * HourTicks
      IN  -HourTicks < off /\ off < HourTicks /\ (clock.offset = 0 => off = 0)

(* Nor does it expire before its term has passed, by the mark of the chart *)
(* that was beside the order, or on a day before that in the headline.     *)
NoneExpiresEarly ==
  \A o \in order :
    o.expiry # 0 =>
      /\ \A h \in o.marked : h * HourTicks < o.expiry
      /\ o.day <= o.expiry \div DayTicks
      /\ o.expiry > o.at + o.term * DayTicks
=============================================================================
