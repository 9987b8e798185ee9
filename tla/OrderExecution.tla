--------------------------- MODULE OrderExecution ---------------------------
(***************************************************************************)
(* The fill engine of the paper account: OrderExecutionService in          *)
(* src/src/portfolio/order-execution.service.ts, for one account (one user *)
(* on one exchange).                                                       *)
(*                                                                         *)
(* executeOrder is one async function.  Node runs it without interruption  *)
(* between two awaits and interleaves it with every other request at each  *)
(* await, so each database or network call is one action here, and what a  *)
(* call read earlier stays in its own record (call[c]) until it is used.   *)
(* Mongo makes a single-document update atomic and nothing else: there is  *)
(* no transaction around the sequence.                                     *)
(*                                                                         *)
(* A definition marked "Mutant" is the one after it with a plausible bug;  *)
(* no specification uses it.  It is there to be put in place of the right  *)
(* one, to see that the property named is then violated.                   *)
(*                                                                         *)
(* A document saved with Mongoose writes the fields whose value differs    *)
(* from the one read, addressed by _id; if no document has that _id any    *)
(* more, save() throws.                                                    *)
(***************************************************************************)
EXTENDS Integers, FiniteSets, Functions

CONSTANTS
  Calls,         \* invocations of executeOrder, each made at most once
  Orders,        \* order ids
  Symbols,       \* instruments the account may trade
  Tickets,       \* what an order may ask for; limit 0 is no limitPrice
  Prices,        \* last traded prices the market service may answer with
  InitialCash,   \* the account's cash balance at the start
  InitialQty,    \* units of each symbol held at the start
  MaxFaults,     \* bound: database or network calls that fail
  MaxCrashes,    \* bound: crashes of the API process
  NoCall, NoOrder, NoRow

ASSUME OrderExecutionAssumption ==
  /\ Prices \subseteq Nat \ {0} /\ Prices # {}
  /\ Tickets \subseteq [side : {"BUY", "SELL"}, type : {"MARKET", "LIMIT"},
                        symbol : Symbols, qty : Nat \ {0}, limit : Prices \cup {0}]
  /\ InitialCash \in Nat
  /\ InitialQty \in [Symbols -> Nat]
  /\ MaxFaults \in Nat /\ MaxCrashes \in Nat
  /\ NoCall \notin Calls
  /\ NoOrder \notin Orders

VARIABLES
  cash,        \* PaperPortfolio.cashBalance
  realised,    \* PaperPortfolio.realisedPnl
  positions,   \* PaperPosition documents, by symbol (the unique index)
  orders,      \* PaperOrder documents
  trades,      \* PaperTrade documents
  call,        \* the local variables of each executeOrder call
  faults,      \* failures used so far (bounded by MaxFaults)
  crashes,     \* crashes so far (bounded by MaxCrashes)
  overlapped   \* history: symbols on which two calls were under way at once

db == <<cash, realised, positions, orders, trades>>
env == <<faults, crashes, overlapped>>
vars == <<db, call, env>>

-----------------------------------------------------------------------------
(* Documents.  A position row carries the identity of the call that        *)
(* created it (NoCall for the rows present at the start), because save()   *)
(* and deleteOne() address the row they read, not the symbol.              *)

Row == [id : Calls \cup {NoCall}, qty : Int, avg : Int, mark : Int, upnl : Int]
ASSUME NoRowAssumption == NoRow \notin Row

\* PaperOrder as stored; price is executedPrice, 0 while undefined.
OrderDoc == [ticket : Tickets, status : {"PENDING", "EXECUTED", "REJECTED"},
             price : Prices \cup {0}]
ASSUME NoOrderAssumption == NoOrder \notin OrderDoc
Trade == [id : Calls, order : Orders, ticket : Tickets, price : Prices, pnl : Int]

Waiting == {"quote", "debit", "holding", "credit", "find", "upsert", "reduce",
            "trade", "commit", "undo", "reject"}
(* How a call ended: "done" marked the order EXECUTED; "refused" threw     *)
(* before any money moved; "reversed" and "stranded" threw after it, with  *)
(* the movement reversed or not; "unmarked" recorded the trade but could   *)
(* not save the order; "crashed" lost its process.                         *)
Ended == {"done", "refused", "reversed", "stranded", "unmarked", "crashed"}

CallState == [pc : {"idle"} \cup Waiting \cup Ended,
              order : Orders \cup {NoOrder},
              ticket : Tickets \cup {NoOrder},
              price : Prices \cup {0},
              row : Row \cup {NoRow}]

IdleCall == [pc |-> "idle", order |-> NoOrder, ticket |-> NoOrder,
             price |-> 0, row |-> NoRow]

Ticket(c) == call[c].ticket
Sym(c) == Ticket(c).symbol
Cost(c) == call[c].price * Ticket(c).qty
\* (executedPrice - averageCost) * quantity, from the average cost captured
\* with the position; 0 for a BUY.
Pnl(c) == IF Ticket(c).side = "SELL"
          THEN (call[c].price - call[c].row.avg) * Ticket(c).qty ELSE 0

Active(c) == call[c].pc \in Waiting

\* Document.save(): overwrite, in the stored document, the fields in which the
\* new value differs from the one read.
Saved(stored, read, new) ==
  [f \in DOMAIN stored |-> IF new[f] # read[f] THEN new[f] ELSE stored[f]]

\* The row a call read is still stored (same _id).
StillStored(s, row) == positions[s] # NoRow /\ positions[s].id = row.id

-----------------------------------------------------------------------------
SeedRow(s) ==
  IF InitialQty[s] = 0 THEN NoRow
  ELSE LET p == CHOOSE p \in Prices : TRUE
       IN [id |-> NoCall, qty |-> InitialQty[s], avg |-> p, mark |-> p, upnl |-> 0]

Init ==
  /\ cash = InitialCash /\ realised = 0
  /\ positions = [s \in Symbols |-> SeedRow(s)]
  /\ orders = [o \in Orders |-> NoOrder]
  /\ trades = {}
  /\ call = [c \in Calls |-> IdleCall]
  /\ faults = 0 /\ crashes = 0 /\ overlapped = {}

Goto(c, pc) == call' = [call EXCEPT ![c].pc = pc]

(* An order document is created PENDING (by placeOrder or the square-off). *)
NewOrder(o, t) ==
  /\ orders[o] = NoOrder
  /\ orders' = [orders EXCEPT ![o] = [ticket |-> t, status |-> "PENDING", price |-> 0]]

Place(o, t) ==
  /\ NewOrder(o, t)
  /\ UNCHANGED <<cash, realised, positions, trades, call, env>>

-----------------------------------------------------------------------------
(* executeOrder, await by await.                                           *)

\* Mutant (SecondTradeExplained, FilledForGood, RejectedNeverTrades): any stored
\* order is run, whatever its status.
StartableAlways(o) == orders[o] # NoOrder
Startable(o) == orders[o] # NoOrder /\ orders[o].status = "PENDING"

(* findById and the status check; an order that is missing or no longer    *)
(* PENDING makes the call throw before anything moved.                     *)
Start(c, o) ==
  /\ call[c].pc = "idle"
  /\ IF Startable(o)
     THEN /\ call' = [call EXCEPT ![c].pc = "quote", ![c].order = o,
                                  ![c].ticket = orders[o].ticket]
          /\ overlapped' = overlapped \cup
               {s \in {orders[o].ticket.symbol} :
                  \E d \in Calls \ {c} : Active(d) /\ Sym(d) = s}
     ELSE Goto(c, "refused") /\ UNCHANGED overlapped
  /\ UNCHANGED <<db, faults, crashes>>

\* Mutant (FillsAtomically): a SELL limit read as an upper bound.
ReachableFromBelow(t, ltp) == (t.type = "LIMIT" /\ t.limit # 0) => ltp <= t.limit
Reachable(t, ltp) ==
  (t.type = "LIMIT" /\ t.limit # 0) =>
    IF t.side = "BUY" THEN ltp <= t.limit ELSE ltp >= t.limit

(* fetchLtp answers.  The fill is at the price just read; a LIMIT order    *)
(* the market has not reached stays PENDING and the call throws.           *)
Quote(c) ==
  /\ call[c].pc = "quote"
  /\ \E ltp \in Prices :
       IF Reachable(Ticket(c), ltp)
       THEN call' = [call EXCEPT ![c].price = ltp,
              ![c].pc = IF Ticket(c).side = "BUY" THEN "debit" ELSE "holding"]
       ELSE Goto(c, "refused")
  /\ UNCHANGED <<db, env>>

\* Mutant (OverdraftOnlyByReversal): the price of one unit.
AffordableUnit(c) == cash >= call[c].price
Affordable(c) == cash >= Cost(c)

(* findOneAndUpdate({cashBalance >= cost}, {$inc: -cost}): one atomic step. *)
Debit(c) ==
  /\ call[c].pc = "debit"
  /\ IF Affordable(c)
     THEN cash' = cash - Cost(c) /\ Goto(c, "find")
     ELSE Goto(c, "reject") /\ UNCHANGED cash
  /\ UNCHANGED <<realised, positions, orders, trades, env>>

\* Mutant (NeverShort): any holding will do.
SellableIfHeld(c) == positions[Sym(c)] # NoRow
\* Mutant (RefusedOnlyIfSold): a holding may not be sold out.
SellableInPart(c) == positions[Sym(c)] # NoRow /\ positions[Sym(c)].qty > Ticket(c).qty
Sellable(c) == positions[Sym(c)] # NoRow /\ positions[Sym(c)].qty >= Ticket(c).qty

(* A SELL reads its position and keeps the document it read.               *)
ReadHolding(c) ==
  /\ call[c].pc = "holding"
  /\ IF Sellable(c)
     THEN call' = [call EXCEPT ![c].pc = "credit", ![c].row = positions[Sym(c)]]
     ELSE Goto(c, "reject")
  /\ UNCHANGED <<db, env>>

(* The unconditional $inc of a SELL's proceeds and realised P&L.           *)
Credit(c) ==
  /\ call[c].pc = "credit"
  /\ cash' = cash + Cost(c)
  /\ realised' = realised + Pnl(c)
  /\ Goto(c, "reduce")
  /\ UNCHANGED <<positions, orders, trades, env>>

(* order.save() with status REJECTED, from the document read at Start.     *)
Reject(c) ==
  /\ call[c].pc = "reject"
  /\ IF orders[call[c].order] = NoOrder THEN UNCHANGED orders
     ELSE orders' = [orders EXCEPT ![call[c].order].status = "REJECTED"]
  /\ Goto(c, "refused")
  /\ UNCHANGED <<cash, realised, positions, trades, env>>

(* upsertPosition, first await: the existing position, if any.             *)
FindPosition(c) ==
  /\ call[c].pc = "find"
  /\ call' = [call EXCEPT ![c].pc = "upsert", ![c].row = positions[Sym(c)]]
  /\ UNCHANGED <<db, env>>

\* Mutant (TypeOK): the marks are left to be filled in by a later refresh.
FreshRowUnmarked(c) == [id |-> c, qty |-> Ticket(c).qty, avg |-> call[c].price]
FreshRow(c) ==
  [id |-> c, qty |-> Ticket(c).qty, avg |-> call[c].price,
   mark |-> call[c].price, upnl |-> 0]

\* Mutant (HoldingsMatchTrades): the order's quantity replaces the one held.
BlendedOverwriting(c) ==
  [call[c].row EXCEPT !.qty = Ticket(c).qty, !.mark = call[c].price]
\* The blended position of a BUY (the mean is cut to a whole tick).
Blended(c) ==
  LET old == call[c].row
      qty == old.qty + Ticket(c).qty
      avg == (old.avg * old.qty + Cost(c)) \div qty
  IN [id |-> old.id, qty |-> qty, avg |-> avg, mark |-> call[c].price,
      upnl |-> (call[c].price - avg) * qty]

(* upsertPosition, second await.  The copy read before is written back,    *)
(* or a position created; either may find that another call came first:    *)
(* the row is gone (DocumentNotFoundError) or already there (E11000).      *)
Upsert(c) ==
  /\ call[c].pc = "upsert"
  /\ LET s == Sym(c)
         old == call[c].row
     IN \/ /\ old = NoRow /\ positions[s] = NoRow
           /\ positions' = [positions EXCEPT ![s] = FreshRow(c)]
           /\ Goto(c, "trade")
        \/ /\ old # NoRow /\ StillStored(s, old)
           /\ positions' = [positions EXCEPT ![s] = Saved(positions[s], old, Blended(c))]
           /\ Goto(c, "trade")
        \/ /\ IF old = NoRow THEN positions[s] # NoRow ELSE ~StillStored(s, old)
           /\ Goto(c, "undo") /\ UNCHANGED positions
  /\ UNCHANGED <<cash, realised, orders, trades, env>>

\* The position left after a SELL, computed from the copy read at "holding".
Reduced(c) ==
  LET old == call[c].row
      qty == old.qty - Ticket(c).qty
  IN [old EXCEPT !.qty = qty, !.mark = call[c].price,
                 !.upnl = (call[c].price - old.avg) * qty]

(* reducePosition: delete the row when nothing is left (no error if it is  *)
(* gone already), else save it.                                            *)
Reduce(c) ==
  /\ call[c].pc = "reduce"
  /\ LET s == Sym(c)
         old == call[c].row
     IN IF Reduced(c).qty = 0
        THEN /\ positions' = IF StillStored(s, old)
                             THEN [positions EXCEPT ![s] = NoRow] ELSE positions
             /\ Goto(c, "trade")
        ELSE IF StillStored(s, old)
        THEN /\ positions' = [positions EXCEPT ![s] = Saved(positions[s], old, Reduced(c))]
             /\ Goto(c, "trade")
        ELSE Goto(c, "undo") /\ UNCHANGED positions
  /\ UNCHANGED <<cash, realised, orders, trades, env>>

(* tradeModel.create.                                                      *)
RecordTrade(c) ==
  /\ call[c].pc = "trade"
  /\ trades' = trades \cup {[id |-> c, order |-> call[c].order, ticket |-> Ticket(c),
                             price |-> call[c].price, pnl |-> Pnl(c)]}
  /\ Goto(c, "commit")
  /\ UNCHANGED <<cash, realised, positions, orders, env>>

(* order.save() with status EXECUTED: the last write of the sequence.      *)
Commit(c) ==
  /\ call[c].pc = "commit"
  /\ IF orders[call[c].order] = NoOrder
     THEN Goto(c, "unmarked") /\ UNCHANGED orders
     ELSE /\ orders' = [orders EXCEPT ![call[c].order].status = "EXECUTED",
                                      ![call[c].order].price = call[c].price]
          /\ Goto(c, "done")
  /\ UNCHANGED <<cash, realised, positions, trades, env>>

(* compensateCash: reverse the movement; the position is left as it is.    *)
Undo(c) ==
  /\ call[c].pc = "undo"
  /\ cash' = IF Ticket(c).side = "BUY" THEN cash + Cost(c) ELSE cash - Cost(c)
  /\ realised' = realised - Pnl(c)
  /\ Goto(c, "reversed")
  /\ UNCHANGED <<positions, orders, trades, env>>

\* Mutant (BooksBalance): a failed write of the position is not compensated.
AfterFailureKept(pc) ==
  CASE pc \in {"upsert", "trade"} -> "undo"
    [] pc = "commit" -> "unmarked"
    [] pc = "undo" -> "stranded"
    [] OTHER -> "refused"
\* Mutant (ExecutedHasTrade): a failure to record the trade is swallowed.
AfterFailureSwallowed(pc) ==
  CASE pc \in {"find", "upsert", "reduce"} -> "undo"
    [] pc = "trade" -> "commit"
    [] pc = "commit" -> "unmarked"
    [] pc = "undo" -> "stranded"
    [] OTHER -> "refused"
\* Mutant (TradeMeansPaid): the try block covers the final save as well.
AfterFailureOfSave(pc) ==
  CASE pc \in {"find", "upsert", "reduce", "trade", "commit"} -> "undo"
    [] pc = "undo" -> "stranded"
    [] OTHER -> "refused"
(* A database or network call fails, having had no effect: what the code   *)
(* does about it depends on which await threw.                             *)
AfterFailure(pc) ==
  CASE pc \in {"find", "upsert", "reduce", "trade"} -> "undo"
    [] pc = "commit" -> "unmarked"
    [] pc = "undo" -> "stranded"
    [] OTHER -> "refused"

Fault(c) ==
  /\ faults < MaxFaults
  /\ Active(c)
  /\ Goto(c, AfterFailure(call[c].pc))
  /\ faults' = faults + 1
  /\ UNCHANGED <<db, crashes, overlapped>>

(* The API process dies: every call under way vanishes, the database stays. *)
Crash ==
  /\ crashes < MaxCrashes
  /\ \E c \in Calls : Active(c)
  /\ call' = [c \in Calls |-> IF Active(c) THEN [call[c] EXCEPT !.pc = "crashed"]
                              ELSE call[c]]
  /\ crashes' = crashes + 1
  /\ UNCHANGED <<db, faults, overlapped>>

Step(c) ==
  \/ Quote(c) \/ Debit(c) \/ ReadHolding(c) \/ Credit(c) \/ Reject(c)
  \/ FindPosition(c) \/ Upsert(c) \/ Reduce(c) \/ RecordTrade(c) \/ Commit(c)
  \/ Undo(c)

Next ==
  \/ \E o \in Orders, t \in Tickets : Place(o, t)
  \/ \E c \in Calls, o \in Orders : Start(c, o)
  \/ \E c \in Calls : Step(c)
  \/ \E c \in Calls : Fault(c)
  \/ Crash

Spec == Init /\ [][Next]_vars

-----------------------------------------------------------------------------
(* Properties.                                                             *)

(* Every document and every call record has the shape its schema gives it. *)
TypeOK ==
  /\ cash \in Int /\ realised \in Int
  /\ positions \in [Symbols -> Row \cup {NoRow}]
  /\ orders \in [Orders -> OrderDoc \cup {NoOrder}]
  /\ trades \subseteq Trade
  /\ call \in [Calls -> CallState]
  /\ faults \in Nat /\ crashes \in Nat
  /\ overlapped \subseteq Symbols

(* Calls whose money movement stands although no trade accounts for it yet *)
(* (or ever, when the reversal failed).                                    *)
Unaccounted == {c \in Calls : call[c].pc \in
                  {"find", "upsert", "reduce", "trade", "undo", "stranded"}}

\* What a BUY takes from cash is negative, what a SELL brings is positive.
Proceeds(t, price) == IF t.side = "BUY" THEN -(price * t.qty) ELSE price * t.qty

\* What each trade, and each movement without one, did to the two balances.
TradeProceeds == [t \in trades |-> Proceeds(t.ticket, t.price)]
MovedProceeds == [c \in Unaccounted |-> Proceeds(Ticket(c), call[c].price)]
TradePnl == [t \in trades |-> t.pnl]
MovedPnl == [c \in Unaccounted |-> Pnl(c)]

(* The cash balance is the starting balance plus the proceeds of every     *)
(* trade, plus those of the calls still between their movement and their   *)
(* trade; realisedPnl likewise.  Whatever the interleaving and whichever   *)
(* call fails, no movement is lost, doubled or reversed twice; only a      *)
(* crash loses track of one ($inc at 97-101 and 133-136, compensation at   *)
(* 172-175 of executeOrder).                                               *)
BooksBalance ==
  crashes = 0 =>
    /\ cash = InitialCash + SumFunction(TradeProceeds) + SumFunction(MovedProceeds)
    /\ realised = SumFunction(TradePnl) + SumFunction(MovedPnl)

(* No position row is ever empty or short, even when two SELLs of the same *)
(* position race on stale copies of it (120-127, 264-266).                 *)
NeverShort == \A s \in Symbols : positions[s] # NoRow => positions[s].qty > 0

(* EXECUTED is the commit point (142-146): an order that reads EXECUTED    *)
(* has a trade at exactly the price it reports.                            *)
ExecutedHasTrade ==
  \A o \in Orders :
    (orders[o] # NoOrder /\ orders[o].status = "EXECUTED") =>
      \E t \in trades : t.order = o /\ t.price = orders[o].price

(* A call leaves a trade behind exactly when it neither threw before its   *)
(* money moved nor had the movement reversed (160-175).                    *)
TradeMeansPaid ==
  \A c \in Calls :
    /\ (\E t \in trades : t.id = c) => call[c].pc \in {"commit", "done", "unmarked", "crashed"}
    /\ call[c].pc \in {"commit", "done", "unmarked"} =>
         \E t \in trades : t.id = c /\ t.order = call[c].order /\ t.price = call[c].price

(* Spending never overdraws the account: a step that leaves cash below     *)
(* zero and lower than it was is the reversal of a SELL, whose proceeds    *)
(* another order has spent meanwhile (92-101, 191-216).                    *)
OverdraftOnlyByReversal ==
  [][(cash' < cash /\ cash' < 0) =>
       \E c \in Calls : call[c].pc = "undo" /\ Ticket(c).side = "SELL"]_vars

(* An order trades twice only on a symbol whose executions overlapped, or  *)
(* because a call recorded the trade and then could not save the order     *)
(* (it failed there or the process died), so that a later call found the   *)
(* order PENDING and ran it again (142-146, 160-180).                      *)
SecondTradeExplained ==
  \A t, u \in trades :
    (t.order = u.order /\ t # u) =>
      \/ t.ticket.symbol \in overlapped
      \/ \E c \in {t.id, u.id} : call[c].pc \in {"unmarked", "crashed"}

(* EXECUTED "is the commit point" (144-145): an order leaves it, or has    *)
(* its price rewritten, only by a call that overlapped the one that        *)
(* executed it and saves the PENDING document it read before.              *)
FilledForGood ==
  [][\A o \in Orders :
       (orders[o] # NoOrder /\ orders[o].status = "EXECUTED" /\ orders'[o] # orders[o]) =>
         orders[o].ticket.symbol \in overlapped]_vars

\* What a ticket adds to the units held.
Units(t) == IF t.side = "BUY" THEN t.qty ELSE -t.qty
TradesOf(s) == {t \in trades : t.ticket.symbol = s}
NetQty(s) == SumFunction([t \in TradesOf(s) |-> Units(t.ticket)])
\* Calls on s whose position is written and whose trade is not.
Untraded(s) == {c \in Calls : call[c].pc = "trade" /\ Sym(c) = s}
PendingQty(s) == SumFunction([c \in Untraded(s) |-> Units(Ticket(c))])
HeldQty(s) == IF positions[s] = NoRow THEN 0 ELSE positions[s].qty

(* As long as no two executions on a symbol overlap, and no call to the    *)
(* database fails, the units held are those the trades say, whatever runs  *)
(* on the other symbols (222-272).                                         *)
HoldingsMatchTrades ==
  (faults = 0 /\ crashes = 0) =>
    \A s \in Symbols \ overlapped :
      HeldQty(s) = InitialQty[s] + NetQty(s) + PendingQty(s)

=============================================================================
