----------------------------- MODULE RiskLimits -----------------------------
(***************************************************************************)
(* What the risk gate computes, against what the account then holds:       *)
(* positionRisk, stateFrom and the verdict of guardBuyOrder                *)
(* (src/src/portfolio/risk-limits.service.ts), the start of a session      *)
(* (src/src/common/market-session.ts), and the figures an execution leaves *)
(* behind (upsertPosition and reducePosition of order-execution.service).  *)
(*                                                                         *)
(* One account that sends one order at a time: OrderPlacement models what  *)
(* requests do to each other.  Between the gate and the fill of an order   *)
(* prices move, and for a LIMIT order anything may happen.                 *)
(*                                                                         *)
(* A position keeps its total cost, quantity times averageCost, so that a  *)
(* BUY blends exactly; a SELL of a part cuts it to a whole number.         *)
(* Percentages are compared multiplied out.                                *)
(***************************************************************************)
EXTENDS Integers, FiniteSets, Functions

CONSTANTS
  Names,          \* symbols
  Quantities,     \* quantities of an order
  Levels,         \* prices
  Stops,          \* stops an order may declare
  NoStop,         \* an order, or a position, without one
  NoHolding,      \* a symbol that is not held
  NoOrderYet,     \* no order has passed the gate
  Capital,        \* initial cash
  MaxPositions,   \* MAX_CONCURRENT_POSITIONS
  MaxRiskPct,     \* MAX_AGGREGATE_RISK_PCT
  MaxLossPct,     \* MAX_DAILY_LOSS_PCT
  AssumedPct,     \* ASSUMED_STOP_PCT_WHEN_UNSET
  DayLength,      \* MS_PER_DAY, in ticks
  SessionOpen,    \* SESSION_OPEN_MINUTES, in ticks after midnight
  MaxTime,        \* bound: ticks
  MaxFills        \* bound: executions

ASSUME RiskLimitsAssumption ==
  /\ Quantities \subseteq Nat \ {0} /\ Levels \subseteq Nat \ {0} /\ Stops \subseteq Nat
  /\ NoStop \notin Nat /\ Capital \in Nat /\ MaxPositions \in Nat
  /\ {MaxRiskPct, MaxLossPct, AssumedPct} \subseteq Nat
  /\ DayLength \in Nat \ {0} /\ SessionOpen \in 0..(DayLength - 1)
  /\ MaxTime \in Nat /\ MaxFills \in Nat

VARIABLES
  funds,       \* cashBalance
  holding,     \* the PaperPosition of each symbol
  realised,    \* PaperTrade: the realisedPnl of the trades of each tick
  now,         \* the time, in ticks
  gated,       \* the order that passed the gate last, and its price there
  sinceBell,   \* history: realised since the last opening bell
  fills        \* executions so far (bounded by MaxFills)

rvars == <<funds, holding, realised, now, gated, sinceBell, fills>>

RiskInit ==
  /\ funds = Capital /\ holding = [n \in Names |-> NoHolding]
  /\ realised = [t \in 0..MaxTime |-> 0] /\ now = 0
  /\ gated = NoOrderYet /\ sinceBell = 0 /\ fills = 0

-----------------------------------------------------------------------------
(* The read model.                                                         *)

HeldNames == {n \in Names : holding[n] # NoHolding}

\* getPortfolio: totalValue.
Value ==
  funds + SumFunction([n \in HeldNames |-> holding[n].quantity * holding[n].mark])

(* positionRisk, times 100.  A stop that is not below the average cost is  *)
(* a typo, and 0 is no stop.                                               *)
PositionRisk(quantity, cost, stop) ==
  IF stop # NoStop /\ stop > 0 /\ stop * quantity < cost
  THEN (cost - stop * quantity) * 100
  ELSE cost * AssumedPct

OpenRisk ==
  SumFunction([n \in HeldNames |->
    PositionRisk(holding[n].quantity, holding[n].cost, holding[n].stop)])

\* Mutant (GateKeepsLimits): the session is always the one that opens today.
SessionStartToday(t) == (t \div DayLength) * DayLength + SessionOpen
(* sessionStart: the last opening at or before t.                          *)
SessionStart(t) ==
  LET open == (t \div DayLength) * DayLength + SessionOpen
  IN  IF open > t THEN open - DayLength ELSE open

SessionPnl ==
  SumFunctionOnSet(realised, {t \in 0..now : t >= SessionStart(now)})

-----------------------------------------------------------------------------
(* stateFrom, with the order as prospective.  No percentage is computed of *)
(* a value that is not positive.                                           *)

LossStops == Value > 0 /\ SessionPnl * 100 <= -MaxLossPct * Value

CountStops(o) == Cardinality(HeldNames \cup {o.name}) > MaxPositions

RiskStops(o, price) ==
  /\ Value > 0
  /\ OpenRisk + PositionRisk(o.quantity, o.quantity * price, o.stop) > MaxRiskPct * Value

Blocked(o, price) == LossStops \/ CountStops(o) \/ RiskStops(o, price)

BuyOrders == [name : Names, quantity : Quantities, stop : Stops \cup {NoStop}]

(* guardBuyOrder lets the order through, reckoning at its limitPrice if it *)
(* has one (a MARKET order may) and at the market price otherwise.  An     *)
(* order refused leaves the account as it was; one that passed and is      *)
(* never executed is forgotten here when the next one passes.              *)
PassGate ==
  /\ \E o \in BuyOrders, price \in Levels :
       /\ o.quantity * price <= funds
       /\ ~Blocked(o, price)
       /\ gated' = [order |-> o, price |-> price, steady |-> TRUE]
  /\ UNCHANGED <<funds, holding, realised, now, sinceBell, fills>>

-----------------------------------------------------------------------------
\* upsertPosition: the newest stop declared is that of all the units.
AfterBuy(h, o, price) ==
  IF h = NoHolding
  THEN [quantity |-> o.quantity, cost |-> o.quantity * price, stop |-> o.stop, mark |-> price]
  ELSE [quantity |-> h.quantity + o.quantity, cost |-> h.cost + o.quantity * price,
        stop |-> IF o.stop = NoStop THEN h.stop ELSE o.stop, mark |-> price]

Unsteadied == IF gated = NoOrderYet THEN gated ELSE [gated EXCEPT !.steady = FALSE]

(* executeOrder of the order that passed, at the market price of then: any *)
(* level for a MARKET order, and among them what a LIMIT order waits for.  *)
Fill ==
  /\ gated # NoOrderYet /\ fills < MaxFills
  /\ \E price \in Levels :
       LET o == gated.order IN
       /\ o.quantity * price <= funds
       /\ funds' = funds - o.quantity * price
       /\ holding' = [holding EXCEPT ![o.name] = AfterBuy(@, o, price)]
  /\ gated' = NoOrderYet /\ fills' = fills + 1
  /\ UNCHANGED <<realised, now, sinceBell>>

\* Mutant (StoresTypeOK): a position sold out is saved like any other.
AfterSellKept(h, quantity, price) ==
  [h EXCEPT !.quantity = @ - quantity, !.mark = price,
            !.cost = (@ * (h.quantity - quantity)) \div h.quantity]
\* reducePosition.
AfterSell(h, quantity, price) ==
  IF h.quantity = quantity THEN NoHolding
  ELSE [h EXCEPT !.quantity = @ - quantity, !.mark = price,
                 !.cost = (@ * (h.quantity - quantity)) \div h.quantity]

(* A SELL is never gated; its trade carries what it realised.              *)
Sell ==
  /\ fills < MaxFills
  /\ \E n \in HeldNames, quantity \in Quantities, price \in Levels :
       LET h == holding[n]
           pnl == price * quantity - (h.cost * quantity) \div h.quantity
       IN  /\ h.quantity >= quantity
           /\ funds' = funds + price * quantity
           /\ holding' = [holding EXCEPT ![n] = AfterSell(h, quantity, price)]
           /\ realised' = [realised EXCEPT ![now] = @ + pnl]
           /\ sinceBell' = sinceBell + pnl
  /\ gated' = Unsteadied /\ fills' = fills + 1
  /\ UNCHANGED now

\* refreshPositionPrices, of one position.
Mark ==
  /\ \E n \in HeldNames, price \in Levels :
       holding' = [holding EXCEPT ![n] = [@ EXCEPT !.mark = price]]
  /\ gated' = Unsteadied
  /\ UNCHANGED <<funds, realised, now, sinceBell, fills>>

MarketTick ==
  /\ now < MaxTime /\ now' = now + 1
  /\ sinceBell' = IF now' % DayLength = SessionOpen THEN 0 ELSE sinceBell
  /\ UNCHANGED <<funds, holding, realised, gated, fills>>

RiskNext == PassGate \/ Fill \/ Sell \/ Mark \/ MarketTick

RiskSpec == RiskInit /\ [][RiskNext]_rvars

-----------------------------------------------------------------------------
Holding == [quantity : Nat \ {0}, cost : Nat, stop : Nat \cup {NoStop}, mark : Levels]
ASSUME NoHoldingAssumption == NoHolding \notin Holding

(* The account and the order that passed have their types.                 *)
RiskTypeOK ==
  /\ funds \in Nat /\ \A n \in HeldNames : holding[n] \in Holding
  /\ DOMAIN realised = 0..MaxTime /\ now \in 0..MaxTime /\ fills \in 0..MaxFills
  /\ gated # NoOrderYet =>
       gated \in [order : BuyOrders, price : Levels, steady : BOOLEAN]

\* The gate reckoned with what the order then did: nothing else changed since,
\* it was filled no dearer, above its own stop, and no stop of one part of a
\* position became that of all of it.
AsReckoned ==
  LET o == gated.order
      price == (funds - funds') \div o.quantity
  IN  /\ gated.steady /\ price <= gated.price
      /\ o.stop = NoStop \/ o.stop = 0 \/ price > o.stop
      /\ \/ holding[o.name] = NoHolding
         \/ holding[o.name].stop = NoStop /\ o.stop = NoStop

(* The three limits of the class (25-47), seen from outside the gate.  No  *)
(* order passes when the account has lost the percentage since the last    *)
(* opening bell; and an order that passed, filled as it was reckoned,      *)
(* leaves no more open positions and no more open risk than the limits     *)
(* say, of the account's value then.  "Would this order push me past the   *)
(* line" (69-74) is answered right only to that extent: see AsReckoned for *)
(* when the fill may push past it all the same.                            *)
GateKeepsLimits ==
  [][ /\ gated' # gated /\ gated' # NoOrderYet /\ gated'.steady =>
           sinceBell * 100 > -MaxLossPct * Value
      /\ Fill /\ AsReckoned =>
           /\ Cardinality(HeldNames') <= MaxPositions
           /\ OpenRisk' <= MaxRiskPct * Value ]_rvars

=============================================================================
