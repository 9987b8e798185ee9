# Formal models of the AI-trader API

TLA+ models, TLC runs and TLAPS proofs for the NestJS API in `src/`: a
paper-trading account with a fill engine and a risk gate, chat turns streamed
from an agent within a daily budget, live-tick subscriptions, stored signals and
what is reported of them, saved charts and a watchlist. Paths below are relative
to `src/src/`.

The API keeps its state in MongoDB, one document per write, and uses no
transaction anywhere. Node runs a handler without interruption between two
`await`s and interleaves it with all other handlers at each of them. Nearly
everything that can go wrong follows from those two facts, and all models here
share them: **one action per await** (or per callback), what a handler has read
stays in its own record until it is used, a single-document update is atomic,
and any await may fail or be the last before the process dies.

## 1. Inventory

### Components, their state and operations

| Component | State | Operations | Talks to |
|---|---|---|---|
| **Fill engine** `portfolio/order-execution.service.ts` | `PaperPortfolio` (cashBalance, realisedPnl), `PaperPosition` (unique per user, exchange, symbol), `PaperOrder.status`, `PaperTrade` | `executeOrder` (eleven awaits), `compensateCash`, `upsertPosition`, `reducePosition` | market service for the price (HTTP, 5 s); event emitter |
| **Placement, idempotency** `portfolio/paper-trading.service.ts` | `PaperOrder` with `clientOrderId` (unique, sparse) | `placeOrder`, `findByClientOrderId`, `resolveDuplicateKey`, `PUT order/:id/execute` | risk limits, then the engine |
| **Risk limits** `portfolio/risk-limits.service.ts` | none of its own | `guardBuyOrder`, `positionRisk`, `stateFrom`, `rejectOrder` | reads portfolio, positions, trades |
| **Square-off** `squareOffAll` of the same service | local loop | snapshot, then close one position after the other | the engine; called by the signals worker |
| **Account upkeep** `portfolio/portfolio-accounts.service.ts` | writes all four collections | `ensurePortfolio`, `resetPortfolio`, `refreshPositionPrices`, read models | market service |
| **Chat turn streaming** `signals/chat-stream.controller.ts` | the handler's locals and two streams | budget check, upstream call, `data` / `end` / `error` / `close` callbacks, `finish`, `recordCancelled` | agent (HTTP stream), chat sessions |
| **Chat sessions, budget** `chat/*.service.ts` | `ChatTurn` documents; the cap of a user | `recordTurn`, `resolveSessionId`, `spentToday`, `assertWithinBudget`, `setCap` | the stream controller, admin |
| **Live-tick gateway** `signals/signals.gateway.ts` | `clientWatching`, `watcherCounts`, Socket.IO rooms (all in memory) | connect, subscribe, unsubscribe, disconnect, `getActiveSymbols`, broadcasts | signals service (un-awaited HTTP, one retry) |
| **Signals** `signals/signals.service.ts`, `signals/eval.ts` | `Signal` documents (unique fingerprint) | `persistSignal`, `isDuplicateSetup`, `evaluatePerformance` with `indexOutcomes` and `performanceStats` | gateway broadcast; signals service for the outcomes |
| **Chart layouts** `chart-layouts/` | `ChartLayout` with a version | `get`, `save` (compare-and-swap or upsert), `clear` | browser tabs |
| **Watchlist** `watchlist/` | one document per item | `add` (count, insert), `remove`, lists | |
| **Administration** `admin/admin.service.ts` | `dailyTokenCapOverride` of a user | `setCap`, `usageToday`, `recentTurns` | the turns and the budget's figures, in code of its own |
| **Stream reading** `common/http/sse.ts` | the decoder's buffer | `push`; `capEvents` when a turn is recorded | the stream controller |
| **Indicators** | default indicators, and the user's own | seed at start-up, edit | |
| **Authentication, users** `auth/` | `User` (unique e-mail) | register, login, `findOrCreateGoogleUser`, JWT and role guards | |
| **Upstream client** `common/http/upstream-http.client.ts` | none | `request` (timeout, single retry), `stream` | signals service |
| **Market session** `common/market-session.ts` | none | start of trading day and session | |
| **Market, Pine, broker proxies; alerts, news, brief; portfolio context; bootstrap** | single upserts, one stored token | forwarding, reads, reports | |

### What is hard here, and what makes each part correct

* **Fill engine.** Cash moves first, by an atomic `$inc`; position, trade and the
  order's status follow in separate writes computed from copies read earlier. Calls
  on the same order, the same symbol or the same cash interleave; any write may
  fail after the money moved; the process may die anywhere. Correct means: the
  balance is what the trades account for; no position is short; an order that says
  EXECUTED has a trade at the price it reports; EXECUTED is never left; a fill
  looks atomic to whoever does not overlap it.
* **Placement.** A client may retry a key while its first request is between
  pre-check, insert and fill; a PUT may run an order the placement is still gating.
  Correct means: one fill per key, true answers, no BUY past the gate, no order
  shown REJECTED that has traded.
* **Risk limits.** Read, verdict and execution are separate awaits; the figures are
  reckoned of a price and a stop that the fill need not have. Correct means: the
  limits hold after the fill, at least for orders sent one at a time.
* **Square-off.** Works off a snapshot while the user trades. Correct means: every
  position is tried and counted, an order of the job is refused only because the
  units are gone, the job ends.
* **Upkeep.** Reset and refresh overwrite documents the engine is using. Correct
  means: afterwards balance and units are explained by the trades since; marks
  belong to the quantity they are shown with.
* **Chat turn.** Five event sources in any order. Correct means: an answered turn is
  never on record as stopped; every turn that cost something is recorded and
  counted; nobody's agent runs without a reader; the response is always closed.
* **Live ticks.** Counts decide which calls are made, calls overtake each other,
  either side restarts. Correct means: counts and rooms agree with what the sockets
  watch; what is streamed is what is watched once calls have settled.
* **Signals.** A retrying worker posts what it may have posted before; look, insert
  and broadcast are three steps. Correct means: one idea is stored and broadcast
  once, and a report pairs each signal with what was said of it.
* **Chart layouts.** Several tabs write back what they once read, and `clear` forgets
  the version. Correct means: a save replaces only what its tab shows.
* **Budget and caps.** Spend and cap are read side by side while turns are recorded,
  caps change and midnight passes. Correct means: the check and the admin's page
  agree, and 0 is a cap.
* **Watchlist, stream reading.** Count-then-insert against a limit; bytes cut
  anywhere. Correct means: the limit is passed by no more than those that raced; no
  event is lost, joined or made up.

`PROJECT.json` lists each hazard at its line, with the properties that cover it.

## 2. Modules

```
FillLedger  (abstract: one-step fill; refined by OrderLedger)
OrderExecution ── OrderLedger ── OrderExecutionProofs
  ├─ OrderPlacement ───── OrderPlacementProofs  ┐ each extends its component
  ├─ SquareOff ────────── SquareOffProofs       │ and OrderExecutionProofs
  └─ AccountUpkeep ────── AccountUpkeepProofs   ┘
ChatTurn ──────────────── ChatTurnProofs
LiveTicks ─────────────── LiveTicksProofs
ChartLayout, SignalStore, SignalStats, RiskLimits,
  Watchlist, SpendCaps, SseRelay ── MCStores ── StoresProofs
SumProofs  (sums over finite sets: for the engine's, the chat's and the stores' proofs)
MCStores = ChartLayout + SignalStore + SignalStats + RiskLimits + Watchlist + SpendCaps + SseRelay
```

`OrderPlacement`, `SquareOff` and `AccountUpkeep` EXTEND the engine: their own
handlers and the engine's calls are steps of one specification on the same
documents, so that every interleaving of the two is explored. `MC*` modules give the
constants values and state the bounds. `MCStores` puts the seven smaller components in
one instance: they share no state, and each initial state picks the one that will move
(`part`), so that their state spaces add up instead of multiplying.

### OrderExecution

One account. `cash` and `realised` are the portfolio document, `positions`,
`orders`, `trades` the collections; `call[c]` is the local state of one
`executeOrder` (`pc` names the await it is at). The actions follow the function:

| Action | Code (`order-execution.service.ts`) |
|---|---|
| `Start`, `Quote` | findById and status check; `fetchLtp` and the limit test |
| `Debit`, `ReadHolding`, `Credit` | the conditional `$inc` of a BUY; a SELL's position check and its `$inc` |
| `FindPosition`, `Upsert`, `Reduce` | `upsertPosition`, `reducePosition`, with a stale copy, a row that is gone, or a duplicate key |
| `RecordTrade`, `Commit` | `tradeModel.create`; `order.save()` as EXECUTED |
| `Reject`, `Undo` | `order.save()` as REJECTED; `compensateCash` |
| `Fault`, `Crash` | the await throws (what follows depends on which: `AfterFailure`); the process dies with all its calls |

A Mongoose `save()` writes the fields whose new value differs from the one read and
throws if the document is gone: operators `Saved` and `StillStored`. `overlapped` is
history: symbols on which two calls were once under way together.

`FillLedger` is the promise: an order is placed, and then filled or rejected, in one
step that moves cash, units and status together. `OrderLedger` maps the engine
to it (`Ledger`): a call that has moved its cash counts as filled.

### OrderPlacement, SquareOff, AccountUpkeep

`OrderPlacement` adds `req[r]`, one `placeOrder` with its pre-check, create,
duplicate-key answer, the gate step by step (trade read, price, cash, positions,
refusal) and the reply; `keyOf` is the unique index on `clientOrderId`. Calls outside
`Requests` are PUTs. `SquareOff` adds `job`, the loop of `squareOffAll`.
`AccountUpkeep` adds `reset` (three deletions issued together, then a save of the
document read before) and `refresh` (a copy of all positions, then a price and a save
for each).

### ChatTurn

`turn[t]` holds a handler's locals: where it is, whether the reader is connected,
whether the response is ended, what the upstream stream is doing, which of the two
events were seen, and how far each of the two records (`full` from `finish`,
`cancelled` from `recordCancelled`) has got: session lookup, then the upsert with
`$setOnInsert`. `log` is the collection in order of creation. `Started`, `Result`,
`Ended`, `Broken`, `HangUp` are the callbacks.

### LiveTicks

`watching`, `counts`, `rooms` are the gateway's maps; each handler is synchronous and
so one action. `calls` holds the un-awaited calls with the attempts they have left;
`live` is the signals service's set of streamed pairs. A call is `clean` as long as no
other on its pair is in flight with it. `Lose` is a failed attempt, applied or not,
retried once; `UpstreamRestart` asks `getActiveSymbols`; `ApiRestart` forgets everything.

### RiskLimits

The arithmetic of the gate, which `OrderPlacement` leaves open: `PositionRisk` is
`positionRisk`, `LossStops`, `CountStops` and `RiskStops` are the three limits of
`stateFrom`, `SessionStart` is `sessionStart`. One account sends one order at a time:
`PassGate` lets a BUY through, `Fill` executes it at the market price of then,
`Sell`, `Mark` and `MarketTick` change the account meanwhile. `sinceBell` counts what was
realised since the last opening on its own, as a reference for `SessionStart`.

### ChartLayout, SignalStore, SignalStats

`ChartLayout`: `layout` is the document, `tab[t]` what a tab read last. `Save` is the one
`findOneAndUpdate`, whose answer may be lost; `Clear` deletes document and version.
`SignalStore`: a request is `Look` (window check), `Insert` or `Refused` (unique index),
`Announce` (broadcast), and may be dropped between any two. `SignalStats`: a report asks
about the newest signals (`Ask`), gets rows in any order, some missing or twice
(`Evaluated`), or none (`EvaluationFailed`), and draws its statistics from them.

### Watchlist, SpendCaps, SseRelay

`Watchlist`: `Count`, then `InsertItem`; `RemoveItem`. `SpendCaps`: a check issues its two
reads together (`Begin`, `ReadSpend`, `ReadCap`, each of which may fail) and then admits or
refuses; `RecordTurn`, `SetCap` and `Midnight` change what it read; `UsageRow` is the row the
admin sees. `SseRelay`: `Chunk` is the `data` handler on a chunk of any length, with
`Decoded` for `toString('utf8')` and `Pushed` for `SseFrames.push`; `CapEvents` is `capEvents`.

### Abstractions

* Prices and costs are integers. The blended average is cut to a whole price tick, so
  no property speaks of its exact value.
* One account, one user; the exchange is part of the account. The three deletions of
  a reset each remove their whole collection in one step.
* In `OrderPlacement` the daily-loss and aggregate-risk limits may refuse any order (a free
  choice in the gate); `RiskLimits` reckons them, for orders one at a time. DTO validation
  is done.
* `RiskLimits` keeps a position's total cost, so that a BUY blends exactly; a SELL of a part
  cuts it to a whole number. Percentages are compared multiplied out (the code rounds only
  what it shows). `SignalStats` keeps quotients as pairs, without the rounding
  they are shown with, and leaves out the confidence interval and the buckets.
* `SignalStore`, `ChartLayout` and `SignalStats` name a document by a number and keep only
  the fields their properties tell apart. A setup is a symbol and a direction.
* A failing database call had no effect. A failing call to the signals service may or
  may not have been applied, but not later than its timeout.
* `ChatTurn` lives within one day of the budget (`SpendCaps` has the midnight) and its clock
  counts gaps of `SESSION_GAP_MS`. Turn ids are minted upstream and unique.
* A socket is authenticated before its first message. The signals service's restart
  and its read of the active symbols are one step.
* Events emitted to sockets after a commit change no stored state and are left out.

## 3. Runs

`CHECK_DEADLOCK FALSE` is set everywhere: requests, turns and messages are bounded,
and a system that has served all of them may stop.

| Run | Bounds | What it shows |
|---|---|---|
| `engine` | 3 calls, 2 orders, 2 symbols, prices 1-2, cash 2, one failure, one crash | Money, units, trades and status agree in every interleaving, or the property says when not |
| `atomic` | 3 calls, 2 orders, 2 symbols with one unit held of each, prices 1-2, cash 2; one execution at a time per symbol, nothing fails | `executeOrder` implements `FillLedger` |
| `crash_cash` | 2 calls, one crash | *violated*: cash is not restored by a crash |
| `placement` | 2 requests, a PUT, 1 key or none, 2 symbols, price 1, limit of 1 position, one failure, one crash | Keys fill once, answers are true, a retry sees the fill, BUYs are gated, a REJECTED order has not traded |
| `cap_race` | 2 BUYs of two symbols, nothing fails | *violated*: two BUYs pass the position limit together |
| `square_off` | 2 positions to close, of 3 units and 1; 2 user orders on the first, which may overlap; cash 3, one failure, one crash | Every position tried; refused or left open only through the user's trades; the job ends |
| `upkeep` | 2 executions of one symbol (not overlapping), a reset, a refresh | Balance, units and marks after a reset and a refresh |
| `chat` | 3 turns, two overlapping, cost 2, cap 2, one pause, one fault or crash | What is recorded, counted, grouped and closed |
| `abandoned` | 2 turns, nothing fails | *violated*: an abandoned turn may leave no record |
| `free_turns` | 2 turns, nothing fails | *violated*: abandoned turns never use up the budget |
| `ticks` | 2 sockets, 1 symbol on 2 exchanges, 4 messages, one lost attempt, one restart | Counts, rooms and streamed pairs agree; a watched pair goes live |
| `stores` | three tabs / posts / symbols / adds; 4 saves; clock 2, window 1; 3 signals, samples of 2, up to 3 rows; watchlist of 2 of 4 items; 1 user, 2 checks, caps none / 0 / 2 (default 1), 2 turns a day, 1 midnight; capital 500, prices 90 and 100, stops 91 and 99, 2 positions, 3 % limits, days of 2 ticks, time 2, 3 fills; streams of 7 characters | The seven smaller components, each on its own |

**Why these bounds are enough.** A race needs two calls on one document and, for the
overdraft and the double fill, a third call that uses what the race left; two symbols
separate "shares the cash" from "shares the position"; quantity 2 lets a position be
reduced, closed and overrun; two prices make a limit order reachable or not and a P&L
positive or negative; one failure plus one crash reach every branch of `AfterFailure` and
every recovery the code has, since it has none that spans two. In `chat`, cost equal to cap
puts one answer at the budget's boundary, a turn before the overlapping two gives them a
session to join and tokens already spent. In `square_off`, three units are what lets a
user's SELL of two leave one, and two overlapping orders of two and of one unit what lets
the second write over more than it did itself. In `ticks`, four messages are a first
watcher, a switch, a stale unsubscribe and a disconnect, on two exchanges so that a switch
exists.

In `stores`, four saves by three tabs let a version recur after a clear; a window of one
tick in a clock of two lets a restatement fall inside it, on its edge and outside it, with
prices 199 and 200 on either side of the tolerance (1/200 is 5 in a thousand, 1/199 is
more); a report has more signals than its sample and more rows than signals; the account's
capital and limits put one BUY inside the risk limit and a second, or one of two units above
its stop, outside it, and three fills let a loss reach the loss limit on either side of a
bell; caps of 0, 1 (the default) and 2 fall below, at and above one turn; streams of seven
characters hold two separators with something before, between and after them.

`MCChatTurn!BoundedSpec`, `MCSquareOff!BoundedSpec` and the two `IsolatedSpec`s cut the state
space as their comments say; what they leave out (overlapping executions during a reset, a
failing first turn, a failure under two overlapping user orders) is covered by `engine`, by
the later turns, and for `upkeep`, `chat` and `square_off` by the theorems, which have no
bounds.

**Qualified properties.** Several properties hold only up to a race, and name it in a
history variable or a condition:

* engine and account: `overlapped` (two executions of a symbol), `raced` (a PUT during
  placement), `BrokenOff` (a placement that ended in an error or a crash), `entangled` and
  `stirred` (an execution during a reset or refresh), `Moved` and `Overwritten` (the user traded
  the symbol during a square-off, or his own orders wrote over each other);
* chat: `unchecked` (asked for while another turn was under way, or with the budget unread),
  `crossed` with `InOrder` (recorded between another's session lookup and its write), `unheard`
  (the reader left before a listener was there), `torn` (a character cut in two);
* ticks: `misled` (a stale unsubscribe), `disturbed` (calls that overlapped, failed or were cut
  off);
* stores: `outlived` (a tab that has not read since a clear), `knew` and `asked` (what a request
  could have found), `crowd` (adds that counted together), `steady` (nothing changed between
  read and verdict, in `RiskLimits` and `SpendCaps`), `AsReckoned` (the fill was what the gate
  reckoned with).

These histories are what the code really permits; each property shows that nothing *else*
breaks it. A failed `tradeModel.create` leaves the position changed while the cash is
restored, so `HoldingsMatchTrades` is claimed only if no call fails.

**Mutants.** Every property of a passing run has a mutant in the module it is about (an
operator just before the one it replaces, commented `Mutant (Property)`): a plausible
slip in the code under which TLC finds the property violated.

### Fairness

* `SquareOffFair` (in `square_off`, with its bounds, `MCSquareOff!BoundedSpec`): weak
  fairness of the job's own steps and of each engine call. Every await is answered or fails
  (driver timeouts; the price request has one of 5 s), and the loop is plain sequential
  code.
* `ChatTurn!FairSpec` (in `chat`, with its bounds, `MCChatTurn!BoundedSpec`): only the
  awaits of `recordTurn`. The agent's stream has no timeout, so nothing is promised about
  when it ends; nobody makes the user act.
* `LiveTicks!FairSpec`: calls settle, because every attempt has a timeout. Nobody makes
  a socket send a message or a process restart.

### Findings

1. `crash_cash`: the comment above the try block of `executeOrder` (145-146) says a crash
   leaves the order PENDING "with its cash restored". Nothing restores it.
2. `cap_race`: `MAX_CONCURRENT_POSITIONS`, "most positions that may be open at once", is
   passed by two BUYs of different symbols sent together.
3. `abandoned`: an abandoned turn "still leaves a record", except when the reader leaves
   between the result and the end of the stream: it was answered, paid for, and is not
   stored.
4. `free_turns`: a test says an abandoned turn "has to count against the daily budget";
   it is stored with an empty usage and counts nothing.

### Observations

Behaviour that the models contain and the properties except, without a run of its own:

* After a `clear` a layout's versions start again, so that a tab that has not read since may
  overwrite drawings it never showed, without a conflict (contrary to the comment at
  `chart-layouts.service.ts:52-58`).
* The gate's prospective risk (`risk-limits.service.ts:69-74`) is not that of the fill when
  the order adds to a position and has a stop, its own or the position's (the newest stop
  becomes that of all units), when it fills at or below its stop, and when a MARKET order
  carries a `limitPrice` or the market moves.
* When the cap lookup fails, a user who was cut off falls back to the default cap.
* A signal stored before a crash is never broadcast: every retry is a duplicate.
* `capEvents` keeps one event more than its maximum (the marker).
* Stops that ended in profit make the break-even rate, which takes their magnitude for a loss,
  say the opposite of the expectancy.
* A square-off SELL may be refused although nobody sold (two overlapping BUYs of the user lost
  units), and may leave units open although nobody bought (two overlapping SELLs of the user
  brought some back).
* A session may be split across a turn that another was recorded within.
* A failed `tradeModel.create` leaves the position although the cash is restored.

## 4. Proofs

All theorems hold for every value of the constants under the modules' named
assumptions, and are checked by TLAPS to the last leaf.

**OrderExecutionProofs** (any number of calls, orders, symbols, failures, crashes):

| Theorem | States |
|---|---|
| `TypeCorrect` | `Spec => []TypeOK` |
| `PositionsNeverShort` | `Spec => []NeverShort` |
| `TradesArePaidFor` | `Spec => []TradeMeansPaid` |
| `ExecutedOrdersHaveTrades` | `Spec => []ExecutedHasTrade` |
| `SpendingNeverOverdraws` | `Spec => OverdraftOnlyByReversal` |
| `SecondTradesExplained` | `Spec => []SecondTradeExplained` |
| `FillsStand` | `Spec => FilledForGood` |
| `BooksAlwaysBalance` | `Spec => []BooksBalance` |
| `HoldingsAlwaysMatch` | `Spec => []HoldingsMatchTrades` |
| `FillingIsAtomic` | `IsolatedSpec => FillsAtomically` (the refinement of `FillLedger`) |

`NeverShort` is not inductive: that `Reduce` leaves a row of at least one unit needs to know
that the copy the call holds had enough. The inductive invariant is `Inv == TypeOK /\
NeverShort /\ \A c : CallOK(c)`, where `CallOK` says what a call at each await has in hand
(its order and ticket, a price once quoted, the side that led it there, and for a SELL a
copy of the position that covers the quantity). `InvInit` and `InvNext` prove it, one step
per action; `PaidNext` and `ExecutedNext` use it for the other two invariants,
`ExecutedHasTrade` on top of `TradeMeansPaid`. `SecondTradesExplained` and `FillsStand` rest on
`OnceInv`: on a symbol without overlaps a call under way is alone and finds its order PENDING
(`RunsAlone`), and the call of a trade has marked its order, is about to, or broke off
(`TradesMarked`).

*The books.* `BooksBalance` is two sums, over the trades and over the calls whose money has
moved and whose trade is not there. `BookInv` adds to `Inv` what decides which sum a movement is
in: the calls with a trade are past `RecordTrade` (`TradersPast`), a call that has moved money
without a trade still knows the amount and the P&L (`MovedOK`), and both sets are finite (`CountsFinite`,
although the calls need not be). Each action then changes one term, adds or removes one, or
moves one from the one sum to the other. *The units.* `HandsInv` adds that a call is alone on a
symbol without overlaps (`Solo`) and that the copy it read is then the stored position
(`CopiesFresh`), so that what it writes is the stored quantity and its own (`UnitsTally`).

*The refinement.* `IsoInv` joins `HandsInv` and `OnceInv` for executions that do not overlap and
are answered: no call undoes, and the price in hand is one the limit allows. `SeenFacts` reads
off it what the mapping shows of an order and a symbol, from the await its call is at. The step
that moves the cash is then `FillLedger`'s `Fill`, the one that finds it wanting its rejection,
and all others stutter.

**SumProofs.** The sums are `SumFunctionOnSet` of the community modules, a recursive function
that takes an arbitrary element out of the set. The library's induction theorems cannot be
instantiated here, so each fact is by smallest counterexample: had it a set for which it fails,
it would have one of least cardinality, and fail for one of an element less. `SmallestBad`
states that once; from it follow that the function exists, that the sum does not depend on the
order, and what a sum becomes when one term is added, removed or changed (`SumChanged`).

**OrderPlacementProofs** (any requests, keys, PUTs): `PlacementTypeCorrect`, `KeysFillOnce`
(`OneFillPerKey`), `BuysAreGated` (`GatedBuys`). Every step of placement is an engine step
or leaves the engine alone, so `Inv` carries over. `PlaceInv` adds `ReqOK` (what a request
has in hand), `KeysUnique` and `OwnersApart` (a key is stored once, an order belongs to one
request), `Watched` (a stored BUY is before the gate, past it, or given up), `Cleared` and
`TradesTraced` (which carry that on to the call that executes it and to the trade it
leaves). `RejectedOrdersNeverTraded` (`RejectedNeverTrades`) and `RetriesSeeTheFill`
(`RetrySeesFill`) are about orders on which no PUT raced. For these `SettledInv` adds that
nobody runs an order before its request hands it over (`HandsOff`), that one call at most is
at work on it and finds it PENDING (`AtWork`), and that what has traded reads EXECUTED, is
about to, or broke off (`Settled`). `AnswersAreTrue` (`RepliesAreTrue`) follows from
`RepliesInv`, in which `Told` says that what a request has looked up or answered is still
so: `OrdersStand` shows that an EXECUTED order is not touched again.

**SquareOffProofs** (any positions and quantities, any trading by the user, failures, crashes):
`SquareOffTypeCorrect`, `EveryPositionIsTried` (`EveryPositionTried`), `FlattenNotRefused`
(`RefusedOnlyIfSold`), `ClosersFlatten` (`ClosingSellFlattens`). They assume `Closable`: any
quantity may be ordered to be sold, as in the program; TLC's instance gives `Tickets` the
quantities it can reach. `SquareOffInv` is `JobInv` (where the loop is, what it has
accounted for, and that calls, orders and trades name one another truly), `Undisturbed` (what is
still open if nobody else trades), and for each symbol `InStock` (until units were sold, the
snapshot's are there), `OneRow` and `Scarce` (until the user bought, no row and no copy that
can still be saved has more). The last two need to know which copies are stale: `Beaten`.

**AccountUpkeepProofs**: `UpkeepTypeCorrect`, `MarksStayTrue` (`MarksAgree`), and the engine's
`NeverShort` under both operations. `UpkeepInv` adds to `Inv` that on a symbol without
overlaps whoever is about to write a position holds a true copy of it, unless it was wiped.
`ResetLeavesBooksBalanced` (`ResetKeepsBooks`) uses the engine's sums: in `ResetInv` the accounting
holds before a reset and after it, and between its steps nothing moves but what it deletes, and
it still has the balances that it will compare with those it saves (`Quiet`).

**ChatTurnProofs** (any turns, symbols, costs, faults, crashes): `ChatTypeCorrect`,
`ReadersAreServed` (`NoReaderNoTurn`), `AnswersStand` (`AnswerNotShadowed`),
`StartedTurnsLeaveRecords` (`StartedTurnsAreRecorded`), `SessionsAreConversations`
(`SessionsContiguous`), `BudgetHolds` (`CheckedTurnsBounded`). The two records of a turn exclude each other because the callbacks
that start them do: `ChatInv` says, by `HandlerOK`, which combinations of a handler's locals
occur. `SessionInv` says what a turn between lookup and write knows: its session is a known
one, and the last of its symbol unless another was recorded meanwhile. `BudgetInv` says that
until a turn that was held to the budget is answered, the answers counted so far are under
the cap (`RoomForAnswer`): such a turn is alone (`CheckedAreAlone`), and nothing of a dead process
is still to be saved (`LostAreQuiet`).

**LiveTicksProofs** (finitely many sockets; any symbols, exchanges, messages, losses and
restarts): `TicksTypeCorrect`, `CountsAreExact` (`CountsExact`), `RoomsFollowWatches`
(`RoomFollowsWatch`), `StreamedIfWatched` (`LiveFollowsCounts`). For the counts the
invariant is `GatewayType /\ CountsExact`, and the work is in the cardinalities:
`GainedWatcher` and `LostWatcher` follow the set of watchers of a pair, `DecrementExact` the
decrement that deletes an entry at one, and `SwitchExact` a subscribe that takes one pair's
count down and another's up. `LiveInv` adds what a clean call says: it is alone on its pair,
and asks for what the count says.

**StoresProofs** (any constants; the seven smaller components):

| Theorem | States | By the invariant |
|---|---|---|
| `SavesReplaceTheShown` | `SavesReplaceWhatTheyShow` | `LayoutInv`: a tab that has read since the last clear is not ahead of the document, and shows it if its version is the same |
| `WatchlistStaysBounded` | `WatchlistBounded` | `WatchlistInv`: items and adds that have counted are together fewer than limit and crowd |
| `CheckAgreesWithPage` | `GateAgreesWithAdmin` | `SpendInv`: a steady check holds figures that are still true |
| `RestatedByOverlapOnly`, `BroadcastByItsRequest` | `RestatementsOverlap`, `AnnouncedOnce` | `SignalInv`: of every document, stored or about to be, what its request found out when it looked (`KnewNoRestatement`) stays true while documents are added and time passes; the requests that hold a stored document hold different ones |
| `ReportsAreTrue` | `ReportIsTrue` | `StatsInv`: a report is what the rows say of each signal of its sample. That break-even and expectancy agree is arithmetic on the sums of wins and of stops |
| `GateKeepsTheLimits` | `GateKeepsLimits` | `RiskInv`: what was reckoned of the order that passed still stands while nothing else happens (`Reckoned`), and the session's P&L is what was realised since the bell (`BellRung`) |
| `FramesAreWhole` | `FramesSurviveCuts` | `RelayInv`: frames and buffer are those of the text that arrived, or of one alike it (`Alike`) if a character was cut |
| `StoresTypeCorrect` | `StoresTypeOK` | `StoresInv`: all of them, each untouched while another moves |

`RiskInv` asks for no finite set of symbols: an account holds finitely many at any time. For
`GateKeepsLimits` the sums over the holdings change in the one that was bought.

`Decoded`, `Split` and `Filled` are recursive functions over texts. That they exist is
`PiecewiseExists` (a function defined by what it is on shorter texts), and what they do to
two texts joined is shown by shortest counterexample (`Smallest`): decoding in pieces is
decoding at once unless a character is cut (`DecodedInPieces`), and splitting what was left over
with what comes next is splitting the whole (`SplitInPieces`, `FilledInPieces`). For a cut
character the damaged text and the true one are followed character by character: the same
number of complete frames, the same blankness of what is left over, and the same last character
as far as a separator is concerned (`Alike`, kept by `OneMore` and `ChunkAlike`).

**Only model-checked:** the liveness properties `SquareOffEnds`, `AnswersClose` and
`TicksComeLive`, which are out of the prover's reach; and the four violations of section 3, which are
counterexamples.

## 5. Not modelled, and what is left

* **Portfolio context, market data, Pine and broker proxies:** they read or forward, and keep
  nothing but one stored token. The price they answer with is any value of `Prices`.
* **Indicators, alerts, news, brief:** one document per write, that nothing else depends on. An
  alert's store-then-broadcast has the shape of `persistSignal`.
* **Authentication and users:** register and `findOrCreateGoogleUser` find, then insert under a
  unique e-mail: the loser of a race gets an error and nothing is stored. `ensurePortfolio` is
  the same. Tokens and passwords are library code.
* **Events to sockets:** `chart_state`, and the positions and orders sent after a fill
  (`order-execution.service.ts:184`), carry no sequence number; the older of two lists may come
  last, and the page reads again at its next poll. The models keep the stored state.
* **Reports and lists:** the signal list, the confidence interval and buckets of the
  statistics, session lists, `recentTurns`, the risk report. Reads without a later use.
* **Bootstrap, configuration, guards:** wiring, no behaviour over time.

What could be added next: the risk gate's figures on top of several concurrent requests,
where `PositionCap` shows already that the count is passed; a composition of `ChatTurn` with
`SpendCaps` over a midnight.
