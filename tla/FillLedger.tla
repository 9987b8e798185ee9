----------------------------- MODULE FillLedger -----------------------------
(***************************************************************************)
(* What filling an order promises its caller: the order is filled in one   *)
(* step, which moves the cash, the units held and the order's status       *)
(* together, or it is rejected for want of cash or units, or it is left    *)
(* PENDING with nothing changed.  OrderExecution implements it as long as  *)
(* the executions on one symbol do not overlap and no write fails.         *)
(***************************************************************************)
EXTENDS Integers

CONSTANTS Orders, Symbols, Tickets, Prices, InitialCash, InitialQty, NoOrder

VARIABLES cash, held, status, ticket, price

ledger == <<cash, held, status, ticket, price>>

Init ==
  /\ cash = InitialCash /\ held = InitialQty
  /\ status = [o \in Orders |-> "ABSENT"]
  /\ ticket = [o \in Orders |-> NoOrder]
  /\ price = [o \in Orders |-> 0]

Place(o, t) ==
  /\ status[o] = "ABSENT"
  /\ status' = [status EXCEPT ![o] = "PENDING"]
  /\ ticket' = [ticket EXCEPT ![o] = t]
  /\ UNCHANGED <<cash, held, price>>

\* The market has reached the order's limit, if it has one.
Reached(t, p) ==
  (t.type = "LIMIT" /\ t.limit # 0) =>
    IF t.side = "BUY" THEN p <= t.limit ELSE p >= t.limit

Covered(t, p) ==
  IF t.side = "BUY" THEN cash >= p * t.qty ELSE held[t.symbol] >= t.qty

Fill(o, p) ==
  LET t == ticket[o]
      sign == IF t.side = "BUY" THEN 1 ELSE -1
  IN /\ status[o] = "PENDING"
     /\ Reached(t, p) /\ Covered(t, p)
     /\ cash' = cash - sign * p * t.qty
     /\ held' = [held EXCEPT ![t.symbol] = @ + sign * t.qty]
     /\ status' = [status EXCEPT ![o] = "EXECUTED"]
     /\ price' = [price EXCEPT ![o] = p]
     /\ UNCHANGED ticket

Reject(o) ==
  /\ status[o] = "PENDING"
  /\ \E p \in Prices : Reached(ticket[o], p) /\ ~Covered(ticket[o], p)
  /\ status' = [status EXCEPT ![o] = "REJECTED"]
  /\ UNCHANGED <<cash, held, ticket, price>>

Next ==
  \/ \E o \in Orders, t \in Tickets : Place(o, t)
  \/ \E o \in Orders, p \in Prices : Fill(o, p)
  \/ \E o \in Orders : Reject(o)

LedgerSpec == Init /\ [][Next]_ledger

=============================================================================
