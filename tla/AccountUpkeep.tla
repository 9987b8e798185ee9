--------------------------- MODULE AccountUpkeep ---------------------------
(***************************************************************************)
(* The two operations of PortfolioAccountsService that write the documents *)
(* the fill engine works on, while orders execute:                         *)
(*                                                                         *)
(*   resetPortfolio         three deleteMany at once, then a save of the   *)
(*                          portfolio document read at the start;          *)
(*   refreshPositionPrices  one read of the positions, then for each of    *)
(*                          them a price and a save of the copy read.      *)
(***************************************************************************)
EXTENDS OrderExecution

VARIABLES
  reset,      \* the local variables of resetPortfolio
  refresh,    \* the local variables of refreshPositionPrices
  entangled,  \* history: an execution and the reset were under way together
  stirred     \* history: symbols executed while a refresh held a copy of them

upkeep == <<reset, refresh, entangled, stirred>>
uvars == <<vars, upkeep>>

Collections == {"positions", "orders", "trades"}
ResetState == [pc : {"idle", "wipe", "done"}, todo : SUBSET Collections,
               cash : Int, realised : Int]
RefreshState == [pc : {"idle", "next", "save", "done"},
                 rows : [Symbols -> Row \cup {NoRow}], todo : SUBSET Symbols,
                 symbol : Symbols \cup {NoOrder}, ltp : Prices \cup {0},
                 stale : SUBSET Symbols]

UpkeepInit ==
  /\ Init
  /\ reset = [pc |-> "idle", todo |-> {}, cash |-> 0, realised |-> 0]
  /\ refresh = [pc |-> "idle", rows |-> [s \in Symbols |-> NoRow], todo |-> {},
                symbol |-> NoOrder, ltp |-> 0, stale |-> {}]
  /\ entangled = FALSE /\ stirred = {}

-----------------------------------------------------------------------------
(* resetPortfolio.                                                         *)

Resetting == reset.pc = "wipe"

(* ensurePortfolio reads the document; the deletions are issued together.  *)
BeginReset ==
  /\ reset.pc = "idle"
  /\ reset' = [pc |-> "wipe", todo |-> Collections, cash |-> cash, realised |-> realised]
  /\ entangled' = (entangled \/ \E c \in Calls : Active(c))
  /\ UNCHANGED <<vars, refresh, stirred>>

\* Mutant (ResetKeepsBooks): the positions survive.
WipedPositionsKept == positions
WipedPositions == [s \in Symbols |-> NoRow]

Wipe(k) ==
  /\ Resetting /\ k \in reset.todo
  /\ positions' = IF k = "positions" THEN WipedPositions ELSE positions
  /\ orders' = IF k = "orders" THEN [o \in Orders |-> NoOrder] ELSE orders
  /\ trades' = IF k = "trades" THEN {} ELSE trades
  /\ reset' = [reset EXCEPT !.todo = @ \ {k}]
  /\ UNCHANGED <<cash, realised, call, env, refresh, entangled, stirred>>

(* portfolio.save(): cashBalance and realisedPnl are written only if they  *)
(* differ from the values read at the start.                               *)
SaveReset ==
  /\ Resetting /\ reset.todo = {}
  /\ cash' = IF reset.cash # InitialCash THEN InitialCash ELSE cash
  /\ realised' = IF reset.realised # 0 THEN 0 ELSE realised
  /\ reset' = [reset EXCEPT !.pc = "done"]
  /\ UNCHANGED <<positions, orders, trades, call, env, refresh, entangled, stirred>>

-----------------------------------------------------------------------------
(* refreshPositionPrices.                                                  *)

HeldSymbols == {s \in Symbols : positions[s] # NoRow}
Copied == refresh.todo \cup (IF refresh.pc = "save" THEN {refresh.symbol} ELSE {})

ReadPositions ==
  /\ refresh.pc = "idle"
  /\ refresh' = [refresh EXCEPT !.pc = "next", !.rows = positions, !.todo = HeldSymbols]
  /\ stirred' = stirred \cup {s \in HeldSymbols : \E c \in Calls : Active(c) /\ Sym(c) = s}
  /\ UNCHANGED <<vars, reset, entangled>>

(* fetchLtp for the next position; a failure leaves the old mark.          *)
PriceNext(s) ==
  /\ refresh.pc = "next" /\ s \in refresh.todo
  /\ \/ \E ltp \in Prices :
          refresh' = [refresh EXCEPT !.pc = "save", !.symbol = s, !.ltp = ltp,
                                     !.todo = @ \ {s}]
     \/ refresh' = [refresh EXCEPT !.todo = @ \ {s}, !.stale = @ \cup {s}]
  /\ UNCHANGED <<vars, reset, entangled, stirred>>

\* Mutant (MarksAgree): the P&L of one unit.
RemarkedPerUnit(row, ltp) == [row EXCEPT !.mark = ltp, !.upnl = ltp - row.avg]
Remarked(row, ltp) == [row EXCEPT !.mark = ltp, !.upnl = (ltp - row.avg) * row.qty]

(* pos.save(): the mark and the P&L, computed from the copy; a row that is *)
(* gone makes it throw, which is reported as stale.                        *)
SaveMark ==
  /\ refresh.pc = "save"
  /\ LET s == refresh.symbol
         row == refresh.rows[s]
     IN IF StillStored(s, row)
        THEN /\ positions' = [positions EXCEPT
                  ![s] = Saved(positions[s], row, Remarked(row, refresh.ltp))]
             /\ refresh' = [refresh EXCEPT !.pc = "next"]
        ELSE /\ refresh' = [refresh EXCEPT !.pc = "next", !.stale = @ \cup {s}]
             /\ UNCHANGED positions
  /\ UNCHANGED <<cash, realised, orders, trades, call, env, reset, entangled, stirred>>

RefreshDone ==
  /\ refresh.pc = "next" /\ refresh.todo = {}
  /\ refresh' = [refresh EXCEPT !.pc = "done"]
  /\ UNCHANGED <<vars, reset, entangled, stirred>>

-----------------------------------------------------------------------------
(* The engine meanwhile.  A deleted order's id is not given out again.     *)
NeverUsed(o) == \A c \in Calls : call[c].order # o

PlaceOrder ==
  /\ \E o \in Orders, t \in Tickets : NeverUsed(o) /\ Place(o, t)
  /\ UNCHANGED upkeep

ExecuteOrder ==
  \E c \in Calls, o \in Orders :
    /\ orders[o] # NoOrder /\ Start(c, o)
    /\ entangled' = (entangled \/ Resetting)
    /\ stirred' = stirred \cup ({orders[o].ticket.symbol} \cap Copied)
    /\ UNCHANGED <<reset, refresh>>

EngineStep == (\E c \in Calls : Step(c)) /\ UNCHANGED upkeep

ResetStep == BeginReset \/ (\E k \in Collections : Wipe(k)) \/ SaveReset
RefreshStep == ReadPositions \/ (\E s \in Symbols : PriceNext(s)) \/ SaveMark \/ RefreshDone

UpkeepNext == ResetStep \/ RefreshStep \/ PlaceOrder \/ ExecuteOrder \/ EngineStep

UpkeepSpec == UpkeepInit /\ [][UpkeepNext]_uvars

-----------------------------------------------------------------------------
(* The records of the two operations have their types.                     *)
UpkeepTypeOK ==
  /\ TypeOK
  /\ reset \in ResetState /\ refresh \in RefreshState
  /\ entangled \in BOOLEAN /\ stirred \subseteq Symbols

\* The units held before a reset are not those held at the start.
StartingQty(s) == IF reset.pc = "done" THEN 0 ELSE InitialQty[s]

(* "Wipe positions/orders/trades and restore starting cash" (77).  When no *)
(* execution was under way during the reset, the account's balance and     *)
(* holdings are afterwards explained by the trades made since, and before  *)
(* it by those made so far.  One that was under way may leave its debit,   *)
(* its position or its trade behind (78-88).  A refresh may overlap        *)
(* anything: it saves only the mark and the P&L, so it never costs or      *)
(* makes units, nor brings back a position that was sold out or wiped.     *)
ResetKeepsBooks ==
  (~Resetting /\ ~entangled) =>
    /\ BooksBalance
    /\ \A s \in Symbols \ overlapped :
         HeldQty(s) = StartingQty(s) + NetQty(s) + PendingQty(s)

(* The P&L a position shows is the one its own mark, average cost and      *)
(* quantity give, on every symbol where neither two executions nor an      *)
(* execution and a refresh overlapped (174-201; 236-239, 268-269 of        *)
(* order-execution.service.ts).                                            *)
MarksAgree ==
  \A s \in Symbols \ (overlapped \cup stirred) :
    positions[s] # NoRow =>
      positions[s].upnl = (positions[s].mark - positions[s].avg) * positions[s].qty

=============================================================================
