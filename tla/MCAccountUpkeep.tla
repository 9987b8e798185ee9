-------------------------- MODULE MCAccountUpkeep --------------------------
(* Small instances of AccountUpkeep for TLC.                               *)
EXTENDS AccountUpkeep, TLC

CONSTANTS c1, c2, o1, o2, s1, s2

\* Orders for the first symbol, one unit at market.
UnitTickets ==
  {[side |-> side, type |-> "MARKET", symbol |-> s1, qty |-> 1, limit |-> 0] :
     side \in {"BUY", "SELL"}}
TwoHeld == [s \in Symbols |-> 2]

\* One execution at a time on a symbol; the engine's run covers the others.
IsolatedSpec == UpkeepInit /\ [][UpkeepNext /\ overlapped' = {}]_uvars

Symmetric == Permutations(Calls) \cup Permutations(Orders)
=============================================================================
