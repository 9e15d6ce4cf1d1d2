# Isometric in TLA+

Isometric sells covered call options on Bitcoin. Its core is one Internet
Computer canister (`src/apps/volumetric_canister`), which keeps the users'
balances, the offers and the options, and moves ckBTC on an external ledger and
bitcoins through an external minter. Around it stand a web application with cron
jobs and a database (`src/apps/volumetric_web`) and trading bots
(`src/apps/volumetric-bot`). This directory specifies them in TLA+, checks the
specifications with TLC and proves the most important ones with TLAPS.

A canister runs one message at a time; a message ends at an `await`, and what
it wrote to stable memory stays written whether or not the reply ever comes.
So the difficult behaviour is always the same: *between two awaits everything
is atomic, across an await anything may have happened* - another message on the
same user or option, a trap that rolls back one message only, an upgrade that
drops the heap, an answer that never comes although the call was executed. The
same is true of the jobs, handlers and pages of the web application, with
database rows, React renders and killed workers in the place of stable memory,
messages and upgrades. Every module cuts the code at its awaits, one action per
segment.

Canister paths below are relative to
`src/apps/volumetric_canister/src/volumetric/src`, paths of the application to
`src/apps/volumetric_web/src`.

## Inventory

| Component | State | Operations | What makes it correct |
|---|---|---|---|
| Write-ahead log (`journaling/wal`) | stable map of entries; heap set of running ids | enqueue, attempt, outcome, promote stale, collect due, recover, clean up | an attempt owns its row while it runs; withdrawals never run unattended; a success is final; nothing is forgotten |
| Timers (`timers.rs`) | none of their own | maintenance, settlement, cleanup, snapshot of rates | overlapping activations do no harm |
| Settlement (`usecases/options/settle_option.rs`) | option status, journal entry, WAL row | settle by timer or by caller, payload in five stages, failure | collateral divided once and completely; terms fixed at first settlement; books equal the ledger's |
| Withdrawals (`usecases/balances/withdraw_ckbtc.rs`) | balance, journal entry, WAL row | withdraw, approve, retrieve, refund | bitcoins sent at most once; a refund matches what the ledger kept |
| Offers and acceptance (`usecases/offers`, `storage/{accepts,options}.rs`) | offers, accept journal, WAL row, locked collateral, options | create, cancel, accept stitched over several offers, payload, rollback | every option is covered; an accept takes all or nothing; the books are the ledger's |
| Balances (`storage/balances.rs`) | available and locked per user, platform fees | add, subtract, lock, unlock, release, deduct | no balance from nothing, none lost |
| Ledger and minter clients (`ledger.rs`, `minter.rs`) | cached fee | transfer, approve, retrieve | a request is executed at most once |
| Oracle (`oracle/client.rs`, `storage/xrc_rates.rs`) | rate cache | price of an accept, price at expiry, snapshot, cleanup | a rate of the window, the nearest or newest to be had |
| Authentication (`auth`) | nonce per principal | challenge, verification | a signed request is executed at most once |
| Invites and accounts (`usecases/accounts`, `storage/invites.rs`) | registry, codes | create account, validate a code | codes, owners and registry agree |
| Event log (`storage/events.rs`) and its copy (`sync-events`) | events, rows | emit, clean up, query; sync in batches | nothing behind the cursor is missing |
| Deposits in the application (`sync-deposits`) | rows, cursor | detect, mint, credit | no deposit overlooked, no job undoes its own credit |
| Withdrawals in the application (`withdraw`, `sync-withdrawals`) | rows | request, poll, follow | a row leaves the list for a reason, and in the end |
| Log shipping (`crates/logging`, `ship-canister-logs`) | buffers, cursor | log, page, ship | no entry is passed over |
| Market data (`sync-market-data`, `sync-xrc-price`) | price, history and price table | copy in batches, read | rows are no older than they say, no hole |
| Buying, writing (forms, signed requests, lists) | form, listing, order | fill in, sign, send, poll, cancel | one trade per signature, none dearer than confirmed, what is shown is so |
| Term, strike, chart (`use-call-option-*`, price chart) | form, store, pickers | pick, correct, draw, review | what is shown is ordered; the review foretells the expiry |
| Account panel, onboarding, pending deposits | modals, runs, sockets | deposit, withdraw, rename, create account, watch | each tells of its own; accounts do not mix; nobody waits for ever |
| Trading history (`get-history`, table, cards) | rows, filters | compute, filter, page | results are what trades did to balances |
| Trading bot (`volumetric-bot`) | nonce, tick | accept, create, overlap | one trade per nonce and tick |
| Deposits in the canister, fee cache, configuration, API, generated code | - | - | not modelled, see below |

How they interact: a use case (accept, settle, withdraw) changes the balances,
writes a journal entry and a WAL row in one message, and starts
`execute_wal_entry_now`. The executor runs the payload, which awaits the ledger
or the minter, and writes the result into the row; the payload records its
progress in the phase of the journal entry, so that another attempt resumes
where the last one got to. Attempts come from the use case, from the
maintenance timer (accepts and settlements only) and from an operator
(`api/recovery.rs`). An accept and a settlement ask the oracle first. The web
application sends the users' signed requests, polls their operations and copies
events, logs and prices to its database; its pages read both.

## Modules

| Module | What it models |
|---|---|
| `Wal` | the log, executor, maintenance timer, cleanup, operator; payloads are a choice of three results |
| `CkbtcLedger` | what the canister relies on of the ckBTC ledger for one request; operators only |
| `OptionPayout`, `Sale` | abstract: what a settlement, and an accept, promise |
| `Settlement` | settlement of options against the ledger; implements `OptionPayout` |
| `Withdrawal` | withdrawals against ledger and minter |
| `Acceptance` | offers and their acceptance against the ledger; implements `Sale` |
| `Oracle`, `XrcArchive` | rate cache and its callers; the table the web application makes of it |
| `EventLog` | event log, its cleanup and its copy |
| `DepositTracking`, `WithdrawalTracking`, `LogShipping`, `MarketData` | the cron jobs, and the handlers that write the same rows |
| `OrderBook` | the book of one term and strike as lists and forms compute it; operators only |
| `Buying`, `Writing`, `TradingBot` | the three who trade, in front of a book that others change |
| `StrikeSelection`, `TermChart` | pickers, chart, review and expiry |
| `AccountPanel`, `Onboarding`, `PendingPanel` | modals, account creation, the watch over deposits |
| `TradeHistory` | history, table and cards |
| `Trading`, `Markets`, `CronJobs`, `Pages` | components side by side: both sides of the market with the pickers; oracle, history and bot; the jobs; the pages (see Runs) |
| `WalProofs`, `SettlementProofs`, `WithdrawalProofs`, `AcceptanceProofs` | theorems about the module of that name |
| `OracleProofs`, `EventLogProofs` | theorems about `Markets`, and about `CronJobs` |
| `BuyingProofs` | theorems about `Trading`, and about `Pages` |
| `SumProofs` | induction over finite sets, theorems about sums over them, and about places in sequences and orders; used by six of the others |
| `MC...` | the instances TLC checks |

Every definition that models code is listed in `PROJECT.json` ("map") with its
lines. Definitions marked *Fault* are variants of the definition below them with
a plausible bug; nothing uses them. Putting one in the place of its original
makes TLC report the property it is meant for ("mutants"), which shows that the
property can fail.

### Wal

`wal` is the stable map (`Blank` for no row). `runner[o]` says who awaits the
attempt of `o` - nobody, a caller, or an activation of the maintenance timer -
and so stands for `WAL_EXECUTION_IN_PROGRESS_OPERATION_IDS` and the future that
removes the mark. `local[o]` is the clone of the entry the attempt took before
its await and writes back afterwards; `pending[d]` the ids a timer's loop has
still to run. The three are heap: `Upgrade` clears them, `Trap` those of one
attempt. `MaintenanceTick` is the whole timer message: promote, collect, and the
first attempt up to its await. `Finish` is the resumed message: it writes the
result and, under a timer, takes the loop's next turn.

Only what the control depends on is kept of an entry: status, attempts,
`first_seen/created_at` as `created`, `last_update_seconds` as `last` and
`next_attempt_at_seconds` as `next`. Texts and results are left out.

### CkbtcLedger, Settlement

A request to the ledger is refused (fee differs from the ledger's, too old, or
not covered), recognised as a duplicate, or applied. The age of a request has
three values, divided where the code divides it: `Aged` at 23 hours (the WAL
stops retrying unattended), `Expired` at 24 hours (the ledger no longer
deduplicates and refuses).

`run_settlement_wal` is cut at its two awaits. The stages between them are
operators on a record `s` of what a run may change, composed in the order of the
code (`AfterBuyer`, `AfterFee`); `at` says whether the run goes on, sends a
transfer, is done or has failed for good. `Conclude` writes what a message leaves
behind. `Settle` is the message that brings a caller the price: any number of
timers and callers may be waiting for prices, so it may happen with any price,
as often as the option is still `Active`. The lock (`SettlementLock`) refuses
what the status check refuses too, and is not a variable.

Of the WAL only the status is kept. Retry budget, backoff and clock of `Wal`
become nondeterminism: a failed attempt may or may not be queued again, an
`InFlight` row may be promoted at any time. This allows everything `Wal` allows.

The ledger executes a request at any time after it was sent, also after the run
that sent it has given up or been interrupted; a request never executed is lost.
Two copies of a request are one element of `net`, since they are the same
request to the ledger.

`OptionPayout` says what all this amounts to: the collateral of an option is
agreed to be divided into four parts (buyer, platform, ledger fees, writer) that
add up to it; the buyer is paid; the rest is closed; or the settlement is
abandoned and no balance moves. `PayoutKeepsItsPromise` is the refinement, with
`stage` and `deal` computed from status and journal.

### Withdrawal

Two calls, approval and retrieval. The ledger deduplicates the first. The minter
deduplicates nothing: what keeps it from sending twice is that the allowance is
spent. A request that has not reached its callee by the deadline of the bounded
wait is dropped, and the minter refuses a second request for an account while it
works on a first, so `net` holds a call at most once. `unheard` and `approved`
are history: calls executed whose success the canister has not learnt of, and
withdrawals whose approval the ledger has executed.

The journal phases `RetrieveRequested` and `Completed`, like `Completed` of a
settlement, are written and removed within one message and never visible.

### Acceptance

`accept_offers` is two segments: the checks and the price, of which the first
are only a filter (`RefuseShort`, `RefuseTogether` are what the caller gets of
them), and the message that debits the buyer, holds the offers (`Processing`),
locks the collateral and writes entry and row (`Accept`). The payload asks for a
price again (`Priced`), then transfers to each writer and to the platform, one
after the other (`at`, `Answered`, `Unanswered`); the platform's may fail and is
waived. `Finalize` makes the options, `FailForGood` rolls everything back from
what the entry remembers (`was`). `Payees` is the list of transfers; what each
writer earns, pledges and loses of each offer (`Earns`, `Pledges`, `Taken`) is
computed once per request. `Withdraw` and `SettleWorthless` stand for whatever
else moves a user's money while accepts run.

`Sale` says what this amounts to: a request takes its part of all its offers at
once, nobody else has any of them meanwhile, and then all of it is sold or all
of it goes back.

### Oracle, EventLog, MarketData, XrcArchive, LogShipping

A rate is the median of a minute and is named by it, so the cache is a set of
moments. A call lasts at most `Wait` (bounded wait), and everything between two
answers is one step. `XrcArchive` extends `Oracle` by the job that copies the
latest rate to the price table. It asks with a query, which may be answered with any
rate that was the latest once (`latests`), and two jobs may pass between reading the
last row and inserting one. So the table need not advance (`RowsAdvance`, below):
`RowsStepBackForAReason` says which rows may be older than one before them.

Jobs take no lock, so there are always two; each await is an action, may fail,
and the worker may be killed at it. A job keeps the copies and cursors it read.
Rows are what the code distinguishes: an event is its id, a log entry its
priority and counter, a candle its hour.

### DepositTracking, WithdrawalTracking

Rows are whole records, written back from copies. Calls to block explorer,
canister and minter answer what is so when they are made, or fail. The writes
of the withdrawal's request handler include one that is not awaited (`late`) and may
arrive after everything else. The code reads one page of what the explorer lists of
an address (`mempool-client.ts:69`); the model assumes that the page is all of it.

### OrderBook, Buying, Writing, TradingBot

A book is a function from offers' ids to writer, premium in basis points and
quantity. Lists are two reads of the canister and age; forms compute from them. The
portfolio's read (`FetchCards`) is of the book as it is: the server's agent takes no
answer to a query that is older than a call it has seen answered. Answers of another
server, whose agent knows nothing of that call, are not modelled.
A signed request carries a nonce and may arrive late, twice or never; the
canister compares the nonce with the wallet's next. What the canister does with
an order is modelled from outside (an operation that is taken, fails or ends);
its inside is `Acceptance`.

### StrikeSelection, TermChart, AccountPanel, Onboarding, PendingPanel

A React effect runs after the render its dependencies changed in; an event may
come between only where React lets it. So an event and the effects it causes are
one step where they are synchronous (`StrikeSelection`), and two where a render
lies between (`PendingPanel`, `Onboarding`: `Effect`). A mutation that goes on
after its modal was closed writes the step of whichever modal is there.

### TradeHistory

Trades are known by what the canister keeps of them. What a trade did to the
balances of its two sides is kept beside it (`gain`) and the application's sums
are compared with that.

## Runs

Components that share no state are checked side by side in one run: a module
(`Trading`, `Markets`, `CronJobs`, `Pages`) instantiates several over variables
of its own, `part` (`onPage`) is chosen initially and says which of them moves, and
the others rest in their initial states. The state space is the sum of theirs, not
the product, and every behaviour of each of them is one of the whole.
Properties of the whole are conjunctions of theirs. Each has an MC module which
gives its constants values; `MCJobsEnd` and `MCPagesEnd` do the same for liveness.

| Run | Module | Checks | Bounds |
|---|---|---|---|
| `wal_safety` | `Wal` | `TypeOK`, `AttemptOwnsRow`, `WithdrawalsNeedACaller`, `SucceededIsFinal`, `EveryOperationComesToRest` | a retried operation and a withdrawal, two overlapping activations, 2 attempts, clock to 3 |
| `settlement_safety` | `MCSettlement` | `RecordsAgree`, `CollateralIsKept`, `BooksMatchLedger`, `PayoutKeepsItsPromise`; of an option alone `TheOneComesToRest` | two options of one writer, two buyers, two prices, two fees |
| `operations` | `MCOperations` | of two withdrawals `RecordsAgree`, `RefundsMatchLedger`, `SentAtMostOnce`, `EveryWithdrawalComesToRest`; of a stitched accept `EveryAcceptComesToRest` | one user, two amounts, two fees; two writers, one buyer |
| `acceptance_safety` | `MCAcceptance` | `RecordsAgree`, `EveryOptionIsCovered`, `BooksMatchLedger`, `AcceptKeepsItsPromise` | two buyers, two offers of a writer whose balance does not cover both |
| `trading` | `MCTrading` | `PremiumWithinAmount`, `OneSignatureOneTrade`, `SuccessIsTrue`, `TheFormFitsTheBook`, `WritersAreToldTheTruth`, `WhatIsShownIsOrdered` | two offers, two signatures, one move of others; five books of offers, three limits |
| `jobs_overlap` | `MCJobsOverlap` | `NothingBehindTheCursorIsMissing`, `NothingIsOverlooked`, `LeavesTheListForAReason`, `MarketRowsAreTrue`, `CreditSurvivesItsJob` | two jobs each (symmetric), one kill, three events or entries, one deposit, one withdrawal, two rows of prices |
| `jobs_end` | `MCJobsEnd` | `EveryJobGetsThere` | one job each, one kill |
| `web` | `MCWeb` | `AccountsDoNotMix`, `ModalsTellOfTheirOwn`, `OnboardedOnce`, `PagesForetellExpiry` | two users, three switches, one lost answer, two deposits |
| `markets` | `MCMarkets` | `AcceptsArePricedWell`, `LaterPricesAreNoWorse`, `HistoryIsTrue`, `BotsTradeOnce` | two settlements, or one and an accept, beside the snapshots; two trades; two ticks |
| `pages_end` | `MCPagesEnd` | `NobodyWaitsForEver` | one request each, two lost answers; three connections, two runs of account creation |
| `acceptance_offer_named_twice` | `MCAcceptance` | `NoMoreSoldThanOffered`, violated | one offer, one request |
| `withdrawal_available_is_spendable` | `MCWithdrawal` | `AvailableIsSpendable`, violated | one user, two withdrawals |

The bounds are small where nothing more can happen. Prices are chosen so that a
settlement pays nothing, pays a buyer but no profit fee, and pays both; two
options of one writer are what it takes for one to touch the other's collateral;
two fees, for a quoted fee to become wrong and right again; two withdrawals, for
the second to meet what the first left on the ledger (a user has one pending
withdrawal at a time); two jobs, since a third adds nothing to what one job can
do to another's copies; one kill, since a killed job only leaves its rows.
Amounts are a few sats and fees 25 or 50 % instead of 20 or 5 %, so that rounding
still occurs. `Horizon`, `MaxNow` and `MaxHour` bound clocks, `AttemptBound` the
operator's re-executions, `Max...` constants count what the environment may do.
The theorems need none of these bounds.

Deadlock checking is off where the system may stop: all operations done, waiting
for an operator, or the bounds used up.

## Fairness

Liveness is checked under weak fairness of

- replies: every call of the canister is a bounded wait, so a run always gets an
  answer or an error (`Finish`; `Resume \/ Fails`; `Approved \/ Retrieved \/ Refused
  \/ Fails`; `Priced \/ Unpriced \/ Answered \/ Unanswered`);
- the timers, which the system fires for ever (`MaintenanceTick`, `PromoteStale`,
  `Retry`, `GiveUp`, and `Settle` for the settlement timer, which also assumes that
  the oracle has a price in the end);
- the passing of time (`Tick`, `Grow`, `Expire`);
- the steps of a job, handler or page that nothing outside delays (`SyncStep`,
  `JobStep`, `HandlerStep`, `RunEffects`, `Effect`, a socket's own timers).

Strong fairness is assumed where a job's call may fail any number of times but is
made again by the next run of its trigger, every minute: that it succeeds in the
end (`CaughtUp`, `FetchAll`, `Tip`, `Ask`, `Store`; the queries of the onboarding,
which are retried and refetched). Nothing is assumed of the ledger, the minter,
operators, traps, upgrades, wallets and other users: a run may be interrupted for
ever, and `AttemptBound`, or the age of the row, ends it. A wallet may never answer,
and no timeout of the application's ends that wait: `NobodyWaitsForEver` is about
whoever waits for something else.

"Comes to rest" excepts what the code leaves to an operator: rows in
`RecoveryRequired`, and rows which the timers may only touch after `Horizon`.

## Proofs

All proofs are checked by TLAPS with Z3, Zenon and LS4, for every value of the
constants that satisfies the module's assumption.

| Module | Theorem | Says |
|---|---|---|
| `WalProofs` | `TypeCorrect`, `AttemptsOwnTheirRows`, `WithdrawalsStayWithCallers`, `SuccessIsFinal` | `TypeOK`, `AttemptOwnsRow`, `WithdrawalsNeedACaller`, `SucceededIsFinal` |
| `SettlementProofs` | `TypeCorrect`, `RecordsAlwaysAgree`, `CollateralIsAlwaysKept`, `BooksAlwaysMatch`, `TermsStayFixed`, `PromiseIsKept` | `TypeOK`, `RecordsAgree`, `CollateralIsKept`, `BooksMatchLedger`, `TermsFixed`, and that `Settlement` implements `OptionPayout` |
| `WithdrawalProofs` | `TypeCorrect`, `RecordsNeverDisagree`, `NothingIsSentTwice`, `RefundsAreMatched` | `TypeOK`, `RecordsAgree`, `SentAtMostOnce`, `RefundsMatchLedger` |
| `AcceptanceProofs` | `TypeCorrect`, `RecordsAlwaysAgree`, `EveryOptionStaysCovered`, `BooksAlwaysMatch`, `PromiseIsKept` | `TypeOK`, `RecordsAgree`, `EveryOptionIsCovered`, `BooksMatchLedger`, and that `Acceptance` implements `Sale` |
| `OracleProofs` | `TypeCorrect`, `AcceptsAreAlwaysPricedWell`, `LaterPricesAreNeverWorse` | `TypeOK`, `AcceptsArePricedWell`, `LaterPricesAreNoWorse` |
| | `BotsAlwaysTradeOnce`, `HistoryAlwaysTrue` | `BotsTradeOnce`, `HistoryIsTrue` |
| `BuyingProofs` | `TypeCorrect`, `NeverDearerThanConfirmed`, `OnePurchaseAndItIsTrue`, `FormFitsTheBook` | `TypeOK`, `PremiumWithinAmount`, `OneSignatureOnePurchase` and `SuccessIsBought`, `TheFormFitsTheBook` |
| | `OneTradePerSignature`, `SuccessTellsTheTruth`, `WhatWritersAreTold`, `ShownAsOrdered` | `OneSignatureOneTrade`, `SuccessIsTrue`, `WritersAreToldTheTruth`, `WhatIsShownIsOrdered` |
| | `AccountsNeverMix`, `ModalsTellTheirOwnStory`, `OnboardingHappensOnce`, `ForetoldExpiriesComeTrue` | `AccountsDoNotMix`, `ModalsTellOfTheirOwn`, `OnboardedOnce`, `PagesForetellExpiry` |
| `EventLogProofs` | `TypeCorrect`, `NothingIsSkipped` | `TypeOK`, `NothingBehindTheCursorIsMissing` |
| | `NobodyIsDroppedEarly`, `MarketRowsAlwaysTrue`, `CreditsAreKept`, `NothingIsEverOverlooked` | `LeavesTheListForAReason`, `MarketRowsAreTrue`, `CreditSurvivesItsJob`, `NothingIsOverlooked` |

Each of the modules also proves its inductive invariants, most of them as a theorem
(`Inductive`, `TradingInductive`, `PagesInductive`). With them every invariant,
every action property and every refinement that a passing run checks is proved.

### Assumptions

Each is an `ASSUME` of the module it is about, which TLC evaluates in its runs.

- `WalAssumption`: ids are numbers (they are ordered), the parameters are
  naturals, and no timer is called "idle" or "caller".
- `SettlementAssumption`: prices are positive, the profit fee is at most 100 %,
  there are finitely many options, and what a payout leaves of the quantity
  covers two transfer fees whenever there is a payout. The last one holds of the
  real amounts: the smallest quantity is 40000 sats and the transfer fee 10, so
  only a price 2000 times the strike would leave less. Without it the writer's
  part would saturate at zero (`settle_option.rs`) and the books could be off by
  the missing fees.
- `WithdrawalAssumption`: only types.
- `AcceptanceAssumption`: requests are not empty (refused,
  `accept_offers.rs:325`), quantities are positive, the premium fee is at most
  100 %, there are finitely many requests, and no user is called "platform", "idle"
  or "price".
- `OracleAssumption`: the attempts together last no longer than the window, a week
  is longer than the window, and accepts, settlements and snapshots are different
  calls.
- `BuyingAssumption`, `OrderBookAssumption`: types, finitely many offers, ids and
  premiums above zero (a premium is a multiple of a basis point), and that nobody
  may buy less than some quantity above zero. The bounds `MaxSigned` and `MaxMoves`
  may be any numbers.
- `EventLogAssumption`, and those of the other jobs: types, and limits, batches,
  windows and capacities above zero; the two ends of a window of candles are fewer
  than what the exchange returns at once (251 of 300). `LogShippingAssumption` also
  says that all buffers together are shorter than one answer may be (4 buffers of
  1000 entries, a limit of 5000): otherwise the oldest entries of the lookback could
  fill an answer.
- `WritingAssumption`, `StrikeSelectionAssumption`: types, an initial book that is
  one, finitely many options on a list, and limits that leave at least one term.
- `TradingBotAssumption`, `TradeHistoryAssumption`: types, deals of naturals, fees
  of at most 100 %, and that bots and writers are different users.
- `PendingPanelAssumption`, `AccountPanelAssumption`, `OnboardingAssumption`: types,
  a fee reserve that is even (a whole rate times 200 vbytes), and that what stands
  for nobody and for no code is no user and no code.
- `TermChartAssumption`: terms and strikes are finitely many naturals, the clock
  starts after the longest history, and a day on the chart is at least one unit of
  width. The code divides without rounding; a unit may be as small as one likes.
- `PromiseIsKept` of `AcceptanceProofs` also assumes `NamedOnce`, that no request
  names an offer twice. The code does not refuse such requests, and for them the
  statement is false: run `acceptance_offer_named_twice`. The invariants of
  `Acceptance`, also `EveryOptionIsCovered` and `BooksMatchLedger`, are proved
  without it.

### How they go

None of the invariants is inductive as it stands. The strengthenings:

- `Wal`: `TypeOK`, `FreshHasNoRow`, `AttemptOwnsRow`, `WithdrawalsNeedACaller`.
  `Enqueue` overwrites a row, which is harmless because an id not yet used has no
  row and no attempt. That withdrawals need a caller needs that a timer's list
  holds only ids whose row was `RetryRequired` when they were collected.
  `SucceededIsFinal` follows for each step from `AttemptOwnsRow` of the state
  before.
- `Settlement`: `TypeOK`, `RecordsAgree`, `EntriesDivide` (the journal divides the
  collateral and leaves the writer enough for the transfer fees), `CallsFitPhase`
  (only the transfer of the current phase can be under way), `EffectsFitPhase`
  (what the ledger has executed is what the phase tells, but for the transfer of
  that phase, which may not have been heard of), `ClaimsCovered` and `BooksMatch`
  (the two properties as sums over all options). A step changes one option, so it
  changes one term of each sum. The code's stages are proved once as facts about
  the record `s` (what `AfterBuyer` and `AfterFee` do to each field); each action
  is then a composition of them. The refinement takes a step to the step of
  `OptionPayout` its change of status and journal says, or to a stutter.
- `Withdrawal`: `TypeOK`, `RecordsAgree`, `SentAtMostOnce`, `OrdersAreSound`,
  `OnePending`, `CallsFitPhase`, `EffectsFitPhase`, `AllowancePaysOnce` (while a
  withdrawal is pending the allowance pays for it and for nothing else),
  `BooksMatch`. A refund is right because at most one withdrawal of a user is
  pending, so the sums of `RefundsMatchLedger` have at most one term.
- `Acceptance`: `TypeOK`, `RecordsAgree`, `HeldOnce` (an offer is held by one
  accept), `OffersFit` (which remembers it as it was), `CallsFit` (transfers are
  made in order, and a sale has made all but the waived one), `Covers` and
  `BooksMatch` (sums over all accepts of what each needs locked, and of what
  each still adds to or takes from a balance). The payments of an accept add up to
  the premium (`PaymentsAddUp`: sums per writer of sums per item), so the debit
  is what the transfers and fees cost; a step changes the term of one accept for
  each user. For the refinement `Stock` is added: what an accept holds of an offer
  is what the offer lacks of what is put back.
- `Oracle`: `TypeOK`, `CallsInTime`, `WaitsAreShort` (an accept has waited no
  longer than its attempts so far), `PricesAreKept` (the rate that priced an
  option is still in the cache) and `AcceptIsRecent`. The nearest rate exists
  because every set of numbers has a least one, twice: the least distance, and of
  the rates at it the earliest.
- `Buying`: `TypeOK`, `OrdersAreGood` (from the slide to the last copy of the request
  an order is an offer of the book for no more premium than was confirmed, for a
  nonce the wallet has reached), `NoncesAreUsedUp` (the nonces of operations lie
  before the wallet's and differ) and `ScreenFollowsOrder` (the polled operation is
  the one of the order on the screen). The premium fits because dividing twice
  rounds down twice (`QuantityIsWithinAmount`). That nobody is passed over is a fact
  about books: `Before` is a total order, so a finite book has a first offer among
  those that have the size (`BestIsFirst`), and fewer come before it.
- `EventLog`: `TypeOK`, `NothingBehindTheCursorIsMissing`, `GoesOnFrom` (nothing is
  missing behind the id a sync goes on from) and `RowsLeaveNoGap` (an event up to a
  row still to be stored is stored, or is that row or one before it). A batch keeps
  the promise since the latest id stored afterwards is the one it was or a row of
  the batch. That rows come in order is `AscendingOrder`: the number of ids up to one
  of them is its place. `Ascending` is written so, and not with `SetToSortSeq`,
  because the prover has no definition of `SortSeq`.

- `WithdrawalTracking`: `RowIsTrue`, of the row and of every copy that a job or the
  handler may still write: it claims no end without a reason. Reasons do not go away
  (a confirmation, a refusal, an age counted from a time of creation that nothing
  changes), so it does not matter who writes last.
- `DepositTracking`: what a job knows of a deposit (`Told`): while the deposit is in a
  block up to the job's tip and has no row, the job will still look at it or has
  failed, and then does not move the cursor (`Covered`); and a deposit the job has
  credited is on none of its lists (`Untouched`).
- `LogShipping`: nothing that is kept was left out up to the cursor, up to what a job
  goes on from, and up to each entry it has still to ship but for those before it
  (`Passed`, `LeavesNoGap`). Entries kept are of one start of the canister, so ids,
  seconds and counters rise together (`EntriesInOrder`); but for seconds with an
  upgrade, what is logged later is behind every place reached so far (`Reached`).
- `MarketData`: a job has all candles of its windows so far and none quoted before
  it began (`JobFits`), and below an hour of the history there is every hour a reader
  asks for (`HistoryIsFilled`), although it is saved in batches.
- `XrcArchive`: until a week after the expiry the cache holds a rate as late as any
  it has had, unless the cleanup emptied it (`SeenIn`), so a job that is told the
  latest rate is told one no older than the rows it finds (`RowsAhead`, `JobAhead`).
- `Writing`: like `Buying`, with `AttemptsDiffer` (the number of requests tells one
  attempt from another), `OffersAreMadeOnce` and `GoneIsGone` (a cancelled offer is
  neither in the book nor in a list read of it). That the largest offer is matched
  rests on how much a premium loses when it is computed from a quantity and back
  (`RoundTrip`).
- `StrikeSelection`: `FormsAreSettled` (once its effects have run, a form and the
  chart have the same term and strike, which are on the lists). The position of a
  strike is its rank in a finite set of numbers (`Place` of `SumProofs`).
- `TradingBot`: `OneRequestPerTick` (the number of a slot's requests tells its ticks
  apart) and `NonceForEachTrade`.
- `TradeHistory`: `TradesAreKept` (what a trade did to the balances of its sides, so
  far), `EntriesAreOfTrades` (one entry of a settled trade) and `FiltersAgree`.
- `PendingPanel`: `WindowIsOneUsers` (what is stored, cached and last seen belongs to
  one user) and `OneTracker`: all trackers but the last are quiet.
- `AccountPanel`: `AcceptedInOrder` (a request that may still be carried out was
  signed after all that were) and `ModalsFollow` (a request of this panel that is not
  over is the one its modal waits for).
- `Onboarding`: `AttemptsAreRemembered` (a wallet with a run on this connection is the
  one attempted, or has an account) and `CodesAreKept`.
- `TermChart`: `HistoryIsFetched` (what there is are the hours of the last days before
  the moment it was asked for, since the windows of the requests meet:
  `WindowsCover`), `ContainerIsWatched`, `ReviewIsOfTheChart` and
  `OrderIsOfTheReview`. Marks stay in order since lengths that differ by a unit or
  more stay apart when they are scaled (`ScaledApart`).

Two statements had been wrong, though TLC found nothing against them in the small
instance, and attempts to prove them showed it: the card of the largest offer
(`LargestIsMatched`) had left out what rounding a premium may lose, and the card of
an open option (`CardForetellsHistory`) a writer whose collateral does not cover the
transfers, and rounding. Both now say what the code does.

### What only TLC checks

Liveness, because fairness and `ENABLED` are beyond the prover:
`EveryOperationComesToRest`, `TheOneComesToRest`, `EveryWithdrawalComesToRest`,
`EveryAcceptComesToRest`, `EveryJobGetsThere`, `NobodyWaitsForEver`.

## Findings

Two disagreements between the code and what the repository says of it are runs
that end in a counterexample.

* **An offer named twice is sold twice** (`NoMoreSoldThanOffered`). Each item is
  checked against the stored remaining quantity before any is reserved, and the
  reservation saturates.
* **A refund may exceed what the ledger holds** (`AvailableIsSpendable`). An
  approval or retrieval whose answer was lost, followed by an operator's
  re-execution that is refused, is refunded as though it had not happened.
  `RefundsMatchLedger` states what does hold: as long as no failed withdrawal of a
  user had an effect the canister never heard of, his balance is exact.

Others were met while modelling. They are stated as definitions that no run
checks; TLC finds each violated when it is given to the module's instance.

| Module | Statement | What the code does |
|---|---|---|
| `Wal` | `RecoveryNeedsOperator` | `executor.rs:54`: only `Succeeded` is refused, so a timer runs ids it collected that meanwhile require an operator |
| `Settlement` | `SettlingEndsInPayout` | `settle_option.rs:628`: a refused transfer (the fee changed) leaves the option `Expired` with its collateral locked |
| `Withdrawal` | `GrossIsRefunded` | `withdraw_ckbtc.rs:366`: the gross amount is not refunded once the approval was recorded |
| `Acceptance` | `PremiumComesWithTheOption` | `accept_offers_wal.rs:165`: a later refusal gives the buyer everything back while an earlier writer keeps his premium |
| `Acceptance` | `WaivedFeeIsNotTaken` | `accept_offers_wal.rs:205`: a transfer without an answer counts as failed, though it may have been executed |
| `Acceptance` | `SucceededHasOptions` | `accept_offers_wal.rs:87`: re-executing a failed accept makes its row `Succeeded` without options |
| `Acceptance` | `OfferLimitIsKept` | `create_offer.rs:114`: `Processing` offers are not counted |
| `EventLog` | `YoungEventsAreKept` | `cleanup_events.rs:13`: a cutoff in nanoseconds is compared with seconds |
| `EventLog` | `HistoryShowsEveryTrade` | `drizzle-events.repository.ts:87`: the oldest thousand events are read |
| `Buying` | `AmountIsMaxLoss` | `accept_offers.rs:455`: the debit is the premium and a ledger fee for every transfer |
| `Writing` | `CancelAtAnyTime` | `cancel_offer.rs:25`: a `Processing` offer is not cancelled |
| `TradeHistory` | `WriterPnlIsPremiumPlusRest` | `get-history/usecase.ts:36`: the premium fee is taken off although it was waived |
| `TradeHistory` | `FinalResultStays` | `get-history/usecase.ts:24`: with the fee of today's configuration |
| `TradeHistory` | `NoFeesOnLosses` | `settle_option.rs:194`: the profit fee is taken of the whole payout |
| `TradeHistory` | `DayHoldsItsTrades` | `HistoryTable.tsx:67`: a day of 25 hours loses its last |
| `TradingBot` | `OpenOffersAtMostTheCap` | `create-offer.ts:102`: offers in progress are not listed, ticks overlap |
| `PendingPanel` | `OneCountPerDeposit`, `CountWhileWaiting` | `use-pending-deposits.ts:49, 163`: a deposit may be listed twice, and not at all |
| `Onboarding` | `AskedOnlyWithoutAccount` | `use-ensure-account.ts:56`: a failed query counts as no account |
| `Onboarding` | `AskedOnReturn` | `use-ensure-account.ts:116`: a user who takes back the place of another, whose account was not known yet, is not asked again (`messages/en.json:83`: "try again by reconnecting") |
| `Onboarding` | `NoneWhilePaused` | `create-account/usecase.ts:14`: the flag is read before the call |
| `Oracle` | `AcceptIsFresh` | `client.rs:525`: the time is read before the attempts (`AcceptIsRecent` is what holds) |
| `XrcArchive` | `RowsAdvance` | `sync-xrc-price/usecase.ts:64`: no lock between two jobs, and only a row of the same timestamp is left out |
| `Oracle` | `PriceIsAtExpiry` | `client.rs:463`: the nearest rate of the hour stands in |
| `MarketData` | `SkippedOnlyIfFresh` | `drizzle-market-data.repository.ts:107`: a refresh that failed half-way counts as fresh |
| `DepositTracking` | `PendingUntilConfirmed` | `reconciliation.ts:70`: a rise of the balance credits the oldest rows, whatever it came from |

Smaller ones, not stated as formulas: without a price all strikes are worth 0,
"next" selects the first, and the chart draws a strike of $0; the price line may
lie outside the plotted range; the default term of the list of options is not
corrected when the limits arrive; the headline's day is a day early for accepts in the last hour
of a UTC day; the estimated expiry is off by half an hour in half-hour time zones
and by an hour over a change of the clocks; the terms dialog shows the expiry as
of its opening; while a wallet does not answer, the modals of deposit and withdrawal
cannot be closed (`DepositModal.tsx:123`, `WithdrawModal.tsx:67`), and nothing times
it out.

## Not modelled

- Deposits in the canister (`update_ckbtc_balance`, one call and one credit, and
  `sync_balance_from_ledger`, which only the testing API reaches), and the cache of
  the transfer fee: the quoted fee may be any fee, also an old one.
- Signature verification is cryptography; the nonces it protects are modelled.
- Accounts, profiles, whitelist, configuration: single-message map updates.
- The canister API, observability, generated types, infrastructure, and the
  pages and components without state the protocol depends on.
- Texts, layout, formatting, and conversions no property is about.
- Overflow: 21 million bitcoins fit 64 bits of satoshis, so amounts are naturals;
  where the code saturates, the guards before it keep it from doing so, which
  the proofs of `TypeOK` show (a balance would leave the naturals).

## Plan

Done: the canister's core (`Wal`, `Settlement`, `Withdrawal`, `Acceptance`,
`Oracle`), the web application's jobs, forms and pages, and the bot: modelled,
model-checked, and their safety proved.

Left: deposits in the canister, whose one call and one credit need the ledger of
`Withdrawal` and a minter that mints; and the cache of the transfer fee, which now
is any fee.
