----------------------------- MODULE OrderLedger -----------------------------
(***************************************************************************)
(* executeOrder, await by await (OrderExecution), as the single step that  *)
(* FillLedger makes of it.  An order's fate is seen from the step that     *)
(* decides it: the movement of the cash, or the check that refuses it; the *)
(* writes that follow are seen as done.                                    *)
(***************************************************************************)
EXTENDS OrderExecution

\* Requests from a client that has one execution under way per symbol, with
\* every call answered.
Isolated == overlapped' = {} /\ faults' = 0 /\ crashes' = 0
IsolatedSpec == Init /\ [][Next /\ Isolated]_vars

\* The call, if any, that has decided the fate of order o and not yet stored it.
Deciding(o) == {c \in Calls : call[c].order = o /\ call[c].pc \in
                 {"reject", "find", "upsert", "reduce", "trade", "commit"}}
StatusSeen(o) ==
  IF orders[o] = NoOrder THEN "ABSENT"
  ELSE IF Deciding(o) = {} THEN orders[o].status
  ELSE IF \E c \in Deciding(o) : call[c].pc = "reject" THEN "REJECTED" ELSE "EXECUTED"
PriceSeen(o) ==
  IF StatusSeen(o) # "EXECUTED" THEN 0
  ELSE IF Deciding(o) = {} THEN orders[o].price
  ELSE call[CHOOSE c \in Deciding(o) : TRUE].price
TicketSeen(o) == IF orders[o] = NoOrder THEN NoOrder ELSE orders[o].ticket

\* Units held once the calls that have moved their cash have moved their units.
Moving(s) == {c \in Calls : call[c].pc \in {"find", "upsert", "reduce"} /\ Sym(c) = s}
HeldSeen(s) == HeldQty(s) + SumFunction([c \in Moving(s) |-> Units(Ticket(c))])

Ledger == INSTANCE FillLedger WITH
  held <- [s \in Symbols |-> HeldSeen(s)],
  status <- [o \in Orders |-> StatusSeen(o)],
  ticket <- [o \in Orders |-> TicketSeen(o)],
  price <- [o \in Orders |-> PriceSeen(o)]

(* Filling is atomic and happens once: with one execution at a time per    *)
(* symbol, the eleven awaits of executeOrder (49-188) implement the single *)
(* step of FillLedger, even while orders on other symbols spend the same   *)
(* cash.                                                                   *)
FillsAtomically == Ledger!LedgerSpec

=============================================================================
