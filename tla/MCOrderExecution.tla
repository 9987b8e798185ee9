-------------------------- MODULE MCOrderExecution --------------------------
(* Small instances of OrderExecution for TLC.                              *)
EXTENDS OrderLedger, TLC

CONSTANTS c1, c2, c3, o1, o2, s1, s2

TicketOf(side, type, s, q, l) ==
  [side |-> side, type |-> type, symbol |-> s, qty |-> q, limit |-> l]

\* One or two units of s1 at market, a BUY of it limited to price 1, and single
\* units of s2 that compete for the same cash.
MixedTickets ==
  {TicketOf(side, "MARKET", s1, q, 0) : side \in {"BUY", "SELL"}, q \in {1, 2}}
    \cup {TicketOf("BUY", "LIMIT", s1, 1, 1)}
    \cup {TicketOf(side, "MARKET", s2, 1, 0) : side \in {"BUY", "SELL"}}

\* Two symbols, one unit at a time, and a SELL that waits for price 2.
TwoSymbolTickets ==
  {TicketOf(side, "MARKET", s, 1, 0) : side \in {"BUY", "SELL"}, s \in {s1, s2}}
    \cup {TicketOf("SELL", "LIMIT", s1, 1, 2)}

OneHeld == [s \in Symbols |-> 1]
TwoOfFirst == [s \in Symbols |-> IF s = s1 THEN 2 ELSE 0]

-----------------------------------------------------------------------------
(* What the source says of executeOrder, and a run refutes.                *)

(* "a crash mid-sequence leaves a still-PENDING order with its cash        *)
(* restored" (order-execution.service.ts:145-146): once no call is under   *)
(* way, the cash is what the trades account for, crash or not.             *)
CrashRestoresCash ==
  (\A c \in Calls : ~Active(c)) =>
    cash = InitialCash + SumFunction(TradeProceeds)

\* Orders for a single unit, at market.
UnitTickets == {TicketOf(side, "MARKET", s1, 1, 0) : side \in {"BUY", "SELL"}}

Symmetric == Permutations(Calls) \cup Permutations(Orders)
=============================================================================
