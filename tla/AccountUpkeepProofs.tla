------------------------ MODULE AccountUpkeepProofs ------------------------
(***************************************************************************)
(* What holds of an account that is reset and whose marks are refreshed    *)
(* while its orders execute, for any number of calls, orders and symbols.  *)
(*                                                                         *)
(* The engine's invariant survives both operations.  To it the proof adds, *)
(* for a symbol on which nothing overlapped, that whoever is about to      *)
(* write a position holds a true copy of it, unless it was wiped.          *)
(***************************************************************************)
EXTENDS AccountUpkeep, OrderExecutionProofs

Calm(s) == s \notin overlapped /\ s \notin stirred

\* The P&L of a position is that of its mark, its average cost and its quantity.
Agrees(row) == row.upnl = (row.mark - row.avg) * row.qty

\* A call that is going to write a position from a copy holds a true one.
CopyTrue(c) ==
  call[c].pc \in {"upsert", "credit", "reduce"} =>
    positions[Sym(c)] \in {call[c].row, NoRow}

SymbolOK(s) ==
  /\ positions[s] # NoRow => Agrees(positions[s])
  /\ \A c \in Calls : Active(c) /\ Sym(c) = s =>
       /\ s \notin Copied /\ CopyTrue(c)
       /\ \A d \in Calls : Active(d) /\ Sym(d) = s => d = c
  /\ s \in Copied => positions[s] \in {refresh.rows[s], NoRow}

RefreshOK ==
  /\ refresh \in RefreshState
  /\ refresh.pc = "save" =>
       refresh.symbol \in Symbols \ refresh.todo /\ refresh.ltp \in Prices
  /\ \A s \in Copied : s \in Symbols /\ refresh.rows[s] \in Row

UpkeepInv ==
  /\ Inv
  /\ reset \in ResetState /\ RefreshOK
  /\ entangled \in BOOLEAN /\ stirred \subseteq Symbols
  /\ \A s \in Symbols : Calm(s) => SymbolOK(s)

-----------------------------------------------------------------------------
(* Arithmetic of marks: P&L that was not there is none.                    *)
LEMMA NoGain == \A p \in Int, q \in Int : (p - p) * q = 0
  <1> SUFFICES ASSUME NEW p \in Int, NEW q \in Int PROVE (p - p) * q = 0
    OBVIOUS
  <1>1. p - p = 0
    OBVIOUS
  <1>2. 0 * q = 0
    OBVIOUS
  <1>3. QED
    BY <1>1, <1>2

(* The rows an account starts with show no P&L.                            *)
LEMMA SeedsAgree ==
  ASSUME NEW s \in Symbols, SeedRow(s) # NoRow, SeedRow(s) \in Row
  PROVE  Agrees(SeedRow(s))
  <1> DEFINE p == CHOOSE p \in Prices : TRUE
  <1>1. SeedRow(s) = [id |-> NoCall, qty |-> InitialQty[s], avg |-> p, mark |-> p, upnl |-> 0]
    BY DEF SeedRow
  <1> HIDE DEF p
  <1>2. p \in Int /\ InitialQty[s] \in Int
    BY <1>1 DEF Row
  <1>3. (p - p) * InitialQty[s] = 0
    BY <1>2, NoGain
  <1>4. QED
    BY <1>1, <1>3 DEF Agrees

LEMMA UpkeepInitial == UpkeepInit => UpkeepInv
  <1> SUFFICES ASSUME UpkeepInit PROVE UpkeepInv
    OBVIOUS
  <1>1. Inv
    BY InvInit DEF UpkeepInit
  <1>2. reset \in ResetState
    BY DEF UpkeepInit, ResetState
  <1>3. refresh \in RefreshState /\ Copied = {} /\ refresh.pc = "idle"
    BY DEF UpkeepInit, RefreshState, Copied
  <1>4. ASSUME NEW s \in Symbols PROVE SymbolOK(s)
    <2>1. positions[s] = SeedRow(s) /\ \A c \in Calls : call[c].pc = "idle"
      BY DEF UpkeepInit, Init, IdleCall
    <2>2. positions[s] # NoRow => Agrees(positions[s])
      BY <1>1, <2>1, SeedsAgree DEF Inv, TypeOK
    <2>3. QED
      BY <1>3, <2>1, <2>2 DEF SymbolOK, Active, Waiting
  <1>5. QED
    BY <1>1, <1>2, <1>3, <1>4 DEF UpkeepInv, RefreshOK, UpkeepInit

-----------------------------------------------------------------------------
(* The engine's steps.                                                     *)

(* save() of a copy that is true stores what it was meant to.              *)
LEMMA SavedTrue ==
  ASSUME NEW row \in Row, NEW new \in Row
  PROVE  Saved(row, row, new) = new
  BY DEF Saved, Row

(* A BUY writes a position whose P&L agrees.                               *)
LEMMA UpsertAgrees ==
  ASSUME Inv, NEW c \in Calls, Upsert(c), CopyTrue(c),
         positions[Sym(c)] # NoRow => Agrees(positions[Sym(c)])
  PROVE  /\ positions'[Sym(c)] # NoRow => Agrees(positions'[Sym(c)])
         /\ call'[c].pc \notin {"upsert", "credit", "reduce"}
  <1> DEFINE s == Sym(c)  old == call[c].row
  <1>1. /\ call[c].pc = "upsert" /\ call[c].ticket \in Tickets /\ call[c].price \in Prices
        /\ positions[s] \in {old, NoRow} /\ s \in Symbols
        /\ positions \in [Symbols -> Row \cup {NoRow}] /\ call \in [Calls -> CallState]
    BY TicketFacts DEF Upsert, Inv, TypeOK, CallOK, HasPrice, HasTicket, Waiting, CopyTrue, Sym, Ticket
  <1>2. call'[c].pc \in {"trade", "undo"}
    BY <1>1 DEF Upsert, Goto, CallState
  <1>3. CASE old = NoRow /\ positions' = [positions EXCEPT ![s] = FreshRow(c)]
    <2>1. positions'[s] = FreshRow(c)
      BY <1>1, <1>3
    <2>2. call[c].price \in Int /\ call[c].ticket.qty \in Int
      BY <1>1, PriceFacts, TicketFacts
    <2>3. (call[c].price - call[c].price) * call[c].ticket.qty = 0
      BY <2>2, NoGain
    <2>4. Agrees(FreshRow(c))
      BY <2>3 DEF Agrees, FreshRow, Ticket
    <2>5. QED
      BY <1>2, <2>1, <2>4
  <1>4. CASE old # NoRow /\ StillStored(s, old)
             /\ positions' = [positions EXCEPT ![s] = Saved(positions[s], old, Blended(c))]
    <2>1. positions[s] = old /\ old \in Row
      BY <1>1, <1>4 DEF StillStored
    <2>2. Blended(c) \in Row
      BY <1>1, <2>1, BlendedFacts
    <2>3. positions'[s] = Blended(c)
      BY <1>1, <1>4, <2>1, <2>2, SavedTrue
    <2>4. Agrees(Blended(c))
      BY DEF Agrees, Blended
    <2>5. QED
      BY <1>2, <2>3, <2>4
  <1>5. CASE UNCHANGED positions
    BY <1>2, <1>5
  <1>6. QED
    BY <1>3, <1>4, <1>5 DEF Upsert

(* A SELL leaves a position whose P&L agrees, or none.                     *)
LEMMA ReduceAgrees ==
  ASSUME Inv, NEW c \in Calls, Reduce(c), CopyTrue(c),
         positions[Sym(c)] # NoRow => Agrees(positions[Sym(c)])
  PROVE  /\ positions'[Sym(c)] # NoRow => Agrees(positions'[Sym(c)])
         /\ call'[c].pc \notin {"upsert", "credit", "reduce"}
  <1> DEFINE s == Sym(c)  old == call[c].row
  <1>1. /\ call[c].pc = "reduce" /\ call[c].ticket \in Tickets
        /\ positions[s] \in {old, NoRow} /\ s \in Symbols
        /\ positions \in [Symbols -> Row \cup {NoRow}] /\ call \in [Calls -> CallState]
    BY TicketFacts DEF Reduce, Inv, TypeOK, CallOK, HasTicket, Waiting, CopyTrue, Sym, Ticket
  <1>2. call'[c].pc \in {"trade", "undo"}
    BY <1>1 DEF Reduce, Goto, CallState
  <1>3. CASE positions' = [positions EXCEPT ![s] = NoRow]
    BY <1>1, <1>2, <1>3
  <1>4. CASE StillStored(s, old)
             /\ positions' = [positions EXCEPT ![s] = Saved(positions[s], old, Reduced(c))]
    <2>1. positions[s] = old /\ old \in Row
      BY <1>1, <1>4 DEF StillStored
    <2>2. Reduced(c) \in Row
      BY <1>1, ReducedFacts
    <2>3. positions'[s] = Reduced(c)
      BY <1>1, <1>4, <2>1, <2>2, SavedTrue
    <2>4. Agrees(Reduced(c))
      BY <2>1 DEF Agrees, Reduced, Row
    <2>5. QED
      BY <1>2, <2>3, <2>4
  <1>5. CASE UNCHANGED positions
    BY <1>2, <1>5
  <1>6. QED
    BY <1>3, <1>4, <1>5 DEF Reduce

(* Any step of a call keeps the P&L of its position, and its copy true.    *)
LEMMA StepAgrees ==
  ASSUME Inv, NEW c \in Calls, Step(c), CopyTrue(c),
         positions[Sym(c)] # NoRow => Agrees(positions[Sym(c)])
  PROVE  /\ positions'[Sym(c)] # NoRow => Agrees(positions'[Sym(c)])
         /\ CopyTrue(c)'
  <1> USE DEF Inv, TypeOK, CallState, Sym, Ticket, Goto, CopyTrue, db
  <1>1. CASE Upsert(c)
    BY <1>1, UpsertAgrees
  <1>2. CASE Reduce(c)
    BY <1>2, ReduceAgrees
  <1>3. CASE Quote(c) \/ ReadHolding(c) \/ FindPosition(c)
    <2>1. CASE Quote(c)
      BY <2>1 DEF Quote
    <2>2. CASE ReadHolding(c)
      BY <2>2 DEF ReadHolding
    <2>3. CASE FindPosition(c)
      BY <2>3 DEF FindPosition
    <2>4. QED
      BY <1>3, <2>1, <2>2, <2>3
  <1>4. CASE Debit(c) \/ Credit(c) \/ Undo(c)
    <2>1. /\ UNCHANGED positions
          /\ \E pc \in {"find", "reject", "reduce", "reversed"} :
               call' = [call EXCEPT ![c].pc = pc] /\ (pc = "reduce" => call[c].pc = "credit")
      BY <1>4 DEF Debit, Credit, Undo
    <2>2. QED
      BY <2>1
  <1>5. CASE RecordTrade(c) \/ Reject(c) \/ Commit(c)
    BY <1>5 DEF RecordTrade, Reject, Commit
  <1>6. QED
    BY <1>1, <1>2, <1>3, <1>4, <1>5 DEF Step

(* A step of the engine alone.                                             *)
LEMMA EngineGoesOn ==
  ASSUME UpkeepInv, NEW c \in Calls, Step(c), UNCHANGED upkeep
  PROVE  UpkeepInv'
  <1>1. Inv /\ Inv'
    BY InvNext DEF UpkeepInv, Next
  <1>2. UNCHANGED <<reset, refresh, entangled, stirred, overlapped>>
    BY <1>1, StepStaysHome DEF upkeep
  <1>3. RefreshOK'
    BY <1>2 DEF UpkeepInv, RefreshOK, Copied
  <1>4. ASSUME NEW s \in Symbols, Calm(s)' PROVE SymbolOK(s)'
    <2>1. SymbolOK(s) /\ Copied' = Copied
      BY <1>2, <1>4 DEF UpkeepInv, Calm, Copied
    <2>2. CASE s = Sym(c)
      <3>1. Active(c) /\ CopyTrue(c) /\ s \notin Copied /\ Sym(c)' = s
        BY <1>1, <2>1, <2>2, StepStaysHome DEF SymbolOK, Sym
      <3>2. (positions'[s] # NoRow => Agrees(positions'[s])) /\ CopyTrue(c)'
        BY <1>1, <2>1, <2>2, <3>1, StepAgrees DEF SymbolOK
      <3>3. ASSUME NEW d \in Calls, Active(d)', Sym(d)' = s PROVE d = c
        BY <1>1, <2>1, <2>2, <3>1, <3>3, StepStaysHome DEF SymbolOK, Active, Sym, Ticket
      <3>4. QED
        BY <2>1, <3>1, <3>2, <3>3 DEF SymbolOK, Agrees
    <2>3. CASE s # Sym(c)
      <3>1. positions'[s] = positions[s] /\ Sym(c)' # s
        BY <1>1, <2>3, StepStaysHome DEF Sym
      <3>2. ASSUME NEW d \in Calls, Active(d)', Sym(d)' = s
            PROVE  d # c /\ call'[d] = call[d] /\ Active(d) /\ Sym(d) = s
        BY <1>1, <3>1, <3>2, StepStaysHome DEF Active, Sym, Ticket
      <3>3. ASSUME NEW d \in Calls, Active(d)', Sym(d)' = s PROVE CopyTrue(d)'
        BY <2>1, <3>1, <3>2, <3>3 DEF SymbolOK, CopyTrue, Sym, Ticket
      <3>4. QED
        BY <1>2, <2>1, <3>1, <3>2, <3>3 DEF SymbolOK, Agrees
    <2>4. QED
      BY <2>2, <2>3
  <1>5. QED
    BY <1>1, <1>2, <1>3, <1>4 DEF UpkeepInv

LEMMA ExecuteGoesOn ==
  ASSUME UpkeepInv, ExecuteOrder
  PROVE  UpkeepInv'
  <1> PICK c \in Calls, o \in Orders :
        /\ orders[o] # NoOrder /\ Start(c, o)
        /\ entangled' = (entangled \/ Resetting)
        /\ stirred' = stirred \cup ({orders[o].ticket.symbol} \cap Copied)
        /\ UNCHANGED <<reset, refresh>>
    BY DEF ExecuteOrder
  <1>1. Inv /\ Inv'
    BY InvNext DEF UpkeepInv, Next
  <1>2. orders[o].ticket.symbol \in Symbols /\ call \in [Calls -> CallState]
    BY <1>1, TicketFacts DEF Inv, TypeOK, OrderDoc
  <1>3. RefreshOK' /\ Copied' = Copied /\ UNCHANGED positions
    BY DEF UpkeepInv, RefreshOK, Copied, Start, db
  <1>4. ASSUME NEW s \in Symbols, Calm(s)' PROVE SymbolOK(s)'
    <2>1. SymbolOK(s)
      BY <1>4 DEF UpkeepInv, Calm, Start, Goto
    <2>2. /\ \A d \in Calls : d # c => call'[d] = call[d]
          /\ call'[c].pc \in {"quote", "refused"}
      BY <1>2 DEF Start, Goto, CallState
    <2>3. ASSUME Active(c)', Sym(c)' = s
          PROVE  s \notin Copied /\ \A d \in Calls : Active(d)' /\ Sym(d)' = s => d = c
      <3>1. Startable(o) /\ call'[c].ticket = orders[o].ticket
            /\ overlapped' = overlapped \cup {r \in {orders[o].ticket.symbol} :
                                \E d \in Calls \ {c} : Active(d) /\ Sym(d) = r}
        BY <1>2, <2>3 DEF Start, Goto, CallState, Active, Waiting
      <3>2. s = orders[o].ticket.symbol
        BY <2>3, <3>1 DEF Sym, Ticket
      <3>3. s \notin Copied
        BY <1>4, <3>2 DEF Calm
      <3>4. ~ \E d \in Calls \ {c} : Active(d) /\ Sym(d) = s
        BY <1>4, <3>1, <3>2 DEF Calm
      <3>5. QED
        BY <2>2, <3>3, <3>4 DEF Active, Sym, Ticket
    <2>4. ASSUME NEW d \in Calls, Active(d)', Sym(d)' = s PROVE CopyTrue(d)'
      BY <1>3, <2>1, <2>2, <2>4 DEF SymbolOK, CopyTrue, Active, Sym, Ticket
    <2>5. ASSUME NEW d \in Calls, d # c, Active(d)', Sym(d)' = s
          PROVE  /\ s \notin Copied
                 /\ \A e \in Calls : Active(e)' /\ Sym(e)' = s => e = d
      BY <2>1, <2>2, <2>3, <2>5 DEF SymbolOK, Active, Sym, Ticket
    <2>6. QED
      BY <1>3, <2>1, <2>3, <2>4, <2>5 DEF SymbolOK, Agrees
  <1>5. QED
    BY <1>1, <1>2, <1>3, <1>4 DEF UpkeepInv, Resetting

-----------------------------------------------------------------------------
(* The steps of the two operations.                                        *)

(* Where no call moves and no position is written but to be wiped, what is *)
(* true of a symbol stays so.                                              *)
LEMMA SymbolsKept ==
  ASSUME UpkeepInv, UNCHANGED <<call, overlapped>>, stirred \subseteq stirred',
         Copied' \subseteq Copied, refresh'.rows = refresh.rows,
         \A s \in Symbols : positions'[s] \in {positions[s], NoRow}
  PROVE  \A s \in Symbols : Calm(s)' => SymbolOK(s)'
  <1> SUFFICES ASSUME NEW s \in Symbols, Calm(s)' PROVE SymbolOK(s)'
    OBVIOUS
  <1>1. SymbolOK(s)
    BY DEF UpkeepInv, Calm
  <1>2. \A c \in Calls : (Active(c)' <=> Active(c)) /\ Sym(c)' = Sym(c) /\ call'[c] = call[c]
    BY DEF Active, Sym, Ticket
  <1>3. \A c \in Calls : Sym(c) = s /\ CopyTrue(c) => CopyTrue(c)'
    BY <1>2 DEF CopyTrue
  <1>4. QED
    BY <1>1, <1>2, <1>3 DEF SymbolOK, Agrees

LEMMA ResetGoesOn ==
  ASSUME UpkeepInv, ResetStep
  PROVE  UpkeepInv'
  <1> USE DEF UpkeepInv
  <1>1. UNCHANGED <<refresh, stirred, call, faults, crashes, overlapped>>
    BY DEF ResetStep, BeginReset, Wipe, SaveReset, vars, env
  <1>2. /\ RefreshOK' /\ Copied' = Copied
        /\ \A c \in Calls : CallOK(c)'
    BY <1>1, OthersKeepTheirs DEF RefreshOK, Copied
  <1>3. CASE BeginReset
    <2>1. UNCHANGED vars
      BY <1>3 DEF BeginReset
    <2>2. Inv' /\ UNCHANGED positions
      BY <2>1, InvNext DEF vars, db
    <2>3. reset' \in ResetState /\ entangled' \in BOOLEAN
      BY <1>3 DEF BeginReset, ResetState, Inv, TypeOK
    <2>4. QED
      BY <1>1, <1>2, <2>2, <2>3, SymbolsKept
  <1>4. CASE \E k \in Collections : Wipe(k)
    <2>1. PICK k \in Collections : Wipe(k)
      BY <1>4
    <2>2. /\ positions' \in [Symbols -> Row \cup {NoRow}]
          /\ \A s \in Symbols : positions'[s] \in {positions[s], NoRow}
      BY <2>1 DEF Wipe, WipedPositions, Inv, TypeOK
    <2>3. TypeOK' /\ NeverShort'
      BY <1>1, <2>1, <2>2 DEF Wipe, Inv, TypeOK, NeverShort
    <2>4. reset' \in ResetState /\ entangled' \in BOOLEAN
      BY <2>1 DEF Wipe, ResetState
    <2>5. QED
      BY <1>1, <1>2, <2>2, <2>3, <2>4, SymbolsKept DEF Inv
  <1>5. CASE SaveReset
    <2>1. TypeOK' /\ NeverShort' /\ UNCHANGED positions
      BY <1>1, <1>5, OrderExecutionAssumption DEF SaveReset, Inv, TypeOK, NeverShort
    <2>2. reset' \in ResetState /\ entangled' \in BOOLEAN
      BY <1>5 DEF SaveReset, ResetState
    <2>3. QED
      BY <1>1, <1>2, <2>1, <2>2, SymbolsKept DEF Inv
  <1>6. QED
    BY <1>3, <1>4, <1>5 DEF ResetStep

(* A copy of all the positions, none of which is being executed on.        *)
LEMMA ReadGoesOn ==
  ASSUME UpkeepInv, ReadPositions
  PROVE  UpkeepInv'
  <1>1. Inv' /\ UNCHANGED <<positions, call, overlapped>>
    BY InvNext DEF UpkeepInv, ReadPositions, vars, db, env
  <1>2. /\ Copied' = HeldSymbols /\ refresh'.rows = positions
        /\ refresh' \in RefreshState /\ refresh'.pc = "next"
    BY DEF UpkeepInv, RefreshOK, ReadPositions, Copied, RefreshState, HeldSymbols, Inv, TypeOK
  <1>3. RefreshOK'
    BY <1>2 DEF RefreshOK, UpkeepInv, Inv, TypeOK, HeldSymbols
  <1>4. stirred' \subseteq Symbols /\ UNCHANGED <<reset, entangled>>
    BY DEF UpkeepInv, ReadPositions, HeldSymbols
  <1>5. ASSUME NEW s \in Symbols, Calm(s)' PROVE SymbolOK(s)'
    <2>1. SymbolOK(s)
      BY <1>1, <1>5 DEF UpkeepInv, Calm, ReadPositions
    <2>2. \A c \in Calls : (Active(c)' <=> Active(c)) /\ Sym(c)' = Sym(c) /\ call'[c] = call[c]
      BY <1>1 DEF Active, Sym, Ticket
    <2>3. \A c \in Calls : Active(c) /\ Sym(c) = s => s \notin HeldSymbols
      BY <1>5 DEF Calm, ReadPositions
    <2>4. \A c \in Calls : Sym(c) = s /\ CopyTrue(c) => CopyTrue(c)'
      BY <1>1, <2>2 DEF CopyTrue
    <2>5. QED
      BY <1>1, <1>2, <2>1, <2>2, <2>3, <2>4 DEF SymbolOK, Agrees
  <1>6. QED
    BY <1>1, <1>3, <1>4, <1>5 DEF UpkeepInv

LEMMA PriceGoesOn ==
  ASSUME UpkeepInv, (\E s \in Symbols : PriceNext(s)) \/ RefreshDone
  PROVE  UpkeepInv'
  <1>1. Inv' /\ UNCHANGED <<positions, call, overlapped, reset, entangled, stirred>>
    BY InvNext DEF UpkeepInv, PriceNext, RefreshDone, vars, db, env
  <1> DEFINE Fewer ==
        /\ refresh' \in RefreshState /\ refresh'.rows = refresh.rows
        /\ Copied' \subseteq Copied
        /\ refresh'.pc = "save" =>
             refresh'.symbol \in Symbols \ refresh'.todo /\ refresh'.ltp \in Prices
  <1>2. Fewer
    <2>1. CASE RefreshDone
      BY <2>1 DEF UpkeepInv, RefreshOK, RefreshDone, RefreshState, Copied
    <2>2. ASSUME NEW s \in Symbols, PriceNext(s), NEW ltp \in Prices,
                 refresh' = [refresh EXCEPT !.pc = "save", !.symbol = s, !.ltp = ltp,
                                            !.todo = @ \ {s}]
          PROVE  Fewer
      BY <2>2 DEF UpkeepInv, RefreshOK, PriceNext, RefreshState, Copied
    <2>3. ASSUME NEW s \in Symbols, PriceNext(s),
                 refresh' = [refresh EXCEPT !.todo = @ \ {s}, !.stale = @ \cup {s}]
          PROVE  Fewer
      BY <2>3 DEF UpkeepInv, RefreshOK, PriceNext, RefreshState, Copied
    <2>4. QED
      BY <2>1, <2>2, <2>3 DEF PriceNext
  <1>3. RefreshOK'
    BY <1>2 DEF UpkeepInv, RefreshOK
  <1>4. QED
    BY <1>1, <1>2, <1>3, SymbolsKept DEF UpkeepInv

(* A mark saved on a position: its units are those stored.                 *)
LEMMA RemarkedFacts ==
  ASSUME NEW row \in Row, NEW ltp \in Prices
  PROVE  Remarked(row, ltp) \in Row /\ Remarked(row, ltp).qty = row.qty
         /\ Agrees(Remarked(row, ltp))
  <1>1. ltp \in Int /\ ltp - row.avg \in Int /\ row.qty \in Int
    BY PriceFacts DEF Row
  <1>2. \A m, n \in Int : m * n \in Int
    OBVIOUS
  <1> DEFINE upnl == (ltp - row.avg) * row.qty
  <1>3. upnl \in Int
    BY <1>1, <1>2
  <1>4. Remarked(row, ltp) = [row EXCEPT !.mark = ltp, !.upnl = upnl]
    BY DEF Remarked
  <1>5. /\ Remarked(row, ltp).upnl = upnl /\ Remarked(row, ltp).mark = ltp
        /\ Remarked(row, ltp).avg = row.avg /\ Remarked(row, ltp).qty = row.qty
    BY <1>4 DEF Row
  <1>6. Agrees(Remarked(row, ltp))
    BY <1>5 DEF Agrees
  <1>7. Remarked(row, ltp) \in Row
    <2> HIDE DEF upnl
    <2> QED BY <1>1, <1>3, <1>4 DEF Row
  <1>8. QED
    BY <1>5, <1>6, <1>7

LEMMA SaveMarkGoesOn ==
  ASSUME UpkeepInv, SaveMark
  PROVE  UpkeepInv'
  <1> DEFINE r == refresh.symbol  row == refresh.rows[r]
  <1>1. UNCHANGED <<cash, realised, orders, trades, call, faults, crashes, overlapped,
                    reset, entangled, stirred>>
    BY DEF SaveMark, env
  <1>2. /\ r \in Symbols /\ r \in Copied /\ refresh.ltp \in Prices /\ row \in Row
        /\ positions \in [Symbols -> Row \cup {NoRow}] /\ refresh \in RefreshState
    BY DEF SaveMark, UpkeepInv, RefreshOK, Copied, Inv, TypeOK
  <1>3. /\ refresh' \in RefreshState /\ refresh'.rows = refresh.rows
        /\ refresh'.pc = "next" /\ Copied' \subseteq Copied
    <2>1. \E stale \in SUBSET Symbols :
            refresh' = [refresh EXCEPT !.pc = "next", !.stale = stale]
      <3>1. \/ refresh' = [refresh EXCEPT !.pc = "next"]
            \/ refresh' = [refresh EXCEPT !.pc = "next", !.stale = @ \cup {r}]
        BY DEF SaveMark
      <3>2. refresh.stale \cup {r} \subseteq Symbols /\ refresh.stale \subseteq Symbols
        BY <1>2 DEF RefreshState
      <3>3. QED
        BY <1>2, <3>1, <3>2 DEF RefreshState
    <2>2. QED
      BY <1>2, <2>1 DEF SaveMark, RefreshState, Copied
  <1>4. RefreshOK' /\ \A c \in Calls : CallOK(c)'
    BY <1>1, <1>3, OthersKeepTheirs DEF UpkeepInv, RefreshOK
  <1>5. CASE UNCHANGED positions
    <2>1. TypeOK' /\ NeverShort'
      BY <1>1, <1>5 DEF UpkeepInv, Inv, TypeOK, NeverShort
    <2>2. QED
      BY <1>1, <1>3, <1>4, <1>5, <2>1, SymbolsKept DEF UpkeepInv, Inv
  <1>6. CASE /\ StillStored(r, row)
             /\ positions' = [positions EXCEPT
                   ![r] = Saved(positions[r], row, Remarked(row, refresh.ltp))]
    <2>1. positions[r] \in Row /\ positions[r].qty > 0
      BY <1>2, <1>6 DEF StillStored, UpkeepInv, Inv, NeverShort
    <2>2. /\ Remarked(row, refresh.ltp) \in Row /\ Remarked(row, refresh.ltp).qty = row.qty
          /\ Agrees(Remarked(row, refresh.ltp))
      BY <1>2, RemarkedFacts
    <2>3. positions'[r] \in Row /\ positions'[r].qty = positions[r].qty
      <3>1. positions'[r] = Saved(positions[r], row, Remarked(row, refresh.ltp))
        BY <1>2, <1>6
      <3>2. positions'[r] \in Row
        BY <1>2, <2>1, <2>2, <3>1, SavedFacts
      <3>3. positions'[r].qty = positions[r].qty
        BY <2>1, <2>2, <3>1 DEF Saved, Row
      <3>4. QED
        BY <3>2, <3>3
    <2>4. TypeOK' /\ NeverShort'
      BY <1>1, <1>2, <1>6, <2>1, <2>3 DEF UpkeepInv, Inv, TypeOK, NeverShort
    <2>5. ASSUME NEW s \in Symbols, Calm(s)' PROVE SymbolOK(s)'
      <3>1. SymbolOK(s)
        BY <1>1, <2>5 DEF UpkeepInv, Calm
      <3>2. \A c \in Calls : (Active(c)' <=> Active(c)) /\ Sym(c)' = Sym(c)
                             /\ call'[c] = call[c]
        BY <1>1 DEF Active, Sym, Ticket
      <3>3. CASE s = r
        <4>1. positions[r] = row
          BY <1>2, <2>1, <3>1, <3>3, NoRowIsNoRow DEF SymbolOK
        <4>2. positions'[r] = Remarked(row, refresh.ltp)
          BY <1>2, <1>6, <2>2, <4>1, SavedTrue
        <4>3. ~ \E c \in Calls : Active(c) /\ Sym(c) = s
          BY <1>2, <3>1, <3>3 DEF SymbolOK
        <4>4. s \notin Copied'
          BY <1>2, <3>3 DEF SaveMark, UpkeepInv, RefreshOK, Copied, RefreshState
        <4>5. QED
          BY <2>2, <3>2, <3>3, <4>2, <4>3, <4>4 DEF SymbolOK, Agrees
      <3>4. CASE s # r
        <4>1. positions'[s] = positions[s]
          BY <1>2, <1>6, <3>4
        <4>2. \A c \in Calls : Sym(c) = s /\ CopyTrue(c) => CopyTrue(c)'
          BY <3>2, <4>1 DEF CopyTrue
        <4>3. QED
          BY <1>3, <3>1, <3>2, <4>1, <4>2 DEF SymbolOK, Agrees
      <3>5. QED
        BY <3>3, <3>4
    <2>6. QED
      BY <1>1, <1>4, <2>4, <2>5 DEF UpkeepInv, Inv
  <1>7. QED
    BY <1>5, <1>6 DEF SaveMark

LEMMA UpkeepStep == UpkeepInv /\ [UpkeepNext]_uvars => UpkeepInv'
  <1> SUFFICES ASSUME UpkeepInv, [UpkeepNext]_uvars PROVE UpkeepInv'
    OBVIOUS
  <1>1. CASE RefreshStep
    BY <1>1, ReadGoesOn, PriceGoesOn, SaveMarkGoesOn DEF RefreshStep
  <1>2. CASE PlaceOrder
    <2>1. PICK o \in Orders, t \in Tickets : Place(o, t)
      BY <1>2 DEF PlaceOrder
    <2>2. Inv' /\ UNCHANGED <<positions, call, overlapped, reset, refresh, entangled, stirred>>
      BY <1>2, <2>1, PlaceStep DEF UpkeepInv, PlaceOrder, Place, env, upkeep
    <2>3. RefreshOK' /\ Copied' = Copied
      BY <2>2 DEF UpkeepInv, RefreshOK, Copied
    <2>4. QED
      BY <2>2, <2>3, SymbolsKept DEF UpkeepInv
  <1>3. CASE EngineStep
    BY <1>3, EngineGoesOn DEF EngineStep
  <1>4. CASE UNCHANGED uvars
    <2>1. Inv' /\ UNCHANGED <<positions, call, overlapped, reset, refresh, entangled, stirred>>
      BY <1>4, InvNext DEF UpkeepInv, uvars, upkeep, vars, db, env
    <2>2. RefreshOK' /\ Copied' = Copied
      BY <2>1 DEF UpkeepInv, RefreshOK, Copied
    <2>3. QED
      BY <2>1, <2>2, SymbolsKept DEF UpkeepInv
  <1>5. QED
    BY <1>1, <1>2, <1>3, <1>4, ResetGoesOn, ExecuteGoesOn DEF UpkeepNext

-----------------------------------------------------------------------------
(* The account, the reset and the refresh keep their types (UpkeepTypeOK). *)
THEOREM UpkeepTypeCorrect == UpkeepSpec => []UpkeepTypeOK
  <1>1. UpkeepInv => UpkeepTypeOK
    BY DEF UpkeepInv, Inv, RefreshOK, UpkeepTypeOK
  <1>2. QED
    BY <1>1, UpkeepInitial, UpkeepStep, PTL DEF UpkeepSpec

(* For any number of executions, wherever a reset or a refresh falls among *)
(* their awaits, the P&L of a position is that of its own mark, average    *)
(* cost and quantity, unless executions of the symbol overlapped each      *)
(* other or the refresh (refreshPositionPrices 174-201).                   *)
THEOREM MarksStayTrue == UpkeepSpec => []MarksAgree
  <1>1. UpkeepInv => MarksAgree
    BY DEF UpkeepInv, MarksAgree, Calm, SymbolOK, Agrees
  <1>2. QED
    BY <1>1, UpkeepInitial, UpkeepStep, PTL DEF UpkeepSpec

(* Nor does a reset or a refresh leave an empty or short position: a mark  *)
(* saved from an old copy changes no units.                                *)
THEOREM UpkeepNeverShort == UpkeepSpec => []NeverShort
  <1>1. UpkeepInv => NeverShort
    BY DEF UpkeepInv, Inv
  <1>2. QED
    BY <1>1, UpkeepInitial, UpkeepStep, PTL DEF UpkeepSpec

-----------------------------------------------------------------------------
(* The reset.  As long as no execution is under way beside it, the engine's *)
(* accounting holds before it and afterwards; in between, nothing moves but *)
(* what it deletes, and it still knows the balances it is going to compare. *)

Starting == [s \in Symbols |-> StartingQty(s)]

\* No call is under way while the collections go, one after the other.
Quiet ==
  /\ \A c \in Calls : ~Active(c)
  /\ cash = reset.cash /\ realised = reset.realised
  /\ "positions" \notin reset.todo => \A s \in Symbols : positions[s] = NoRow
  /\ "trades" \notin reset.todo => trades = {}

Accounted == IF Resetting THEN Quiet ELSE Books /\ UnitsTally(Starting)

ResetInv ==
  /\ UpkeepInv /\ BookInv
  /\ crashes = 0
  /\ \A c \in Calls : call[c].pc # "stranded"
  /\ ~entangled => Solo /\ CopiesFresh /\ Accounted

(* The quantities to start from are integers.                              *)
LEMMA StartingInt == Starting \in [Symbols -> Int]
  <1>1. \A s \in Symbols : InitialQty[s] \in Int
    BY OrderExecutionAssumption
  <1> QED
    BY <1>1 DEF Starting, StartingQty

LEMMA ResetInitial == UpkeepInit => ResetInv
  <1> SUFFICES ASSUME UpkeepInit PROVE ResetInv
    OBVIOUS
  <1>1. Init /\ reset.pc = "idle"
    BY DEF UpkeepInit
  <1>2. BookInv /\ Books /\ Solo /\ CopiesFresh /\ UnitsTally(InitialQty)
    BY <1>1, BookInvInit, HandsInit, TallyInit DEF HandsInv
  <1>3. UnitsTally(Starting)
    BY <1>1, <1>2 DEF UnitsTally, Starting, StartingQty
  <1>4. crashes = 0 /\ \A c \in Calls : call[c].pc # "stranded"
    BY <1>1 DEF Init, IdleCall
  <1> QED
    BY <1>1, <1>2, <1>3, <1>4, UpkeepInitial DEF ResetInv, Accounted, Resetting

(* Steps of the reset and the refresh keep what the calls have in hand.    *)
LEMMA CallsKept ==
  ASSUME ResetInv, UpkeepInv', UNCHANGED <<call, crashes>>, trades' \in {trades, {}}
  PROVE  BookInv' /\ crashes' = 0 /\ \A c \in Calls : call'[c].pc # "stranded"
  <1>1. CountsFinite'
    BY FS_EmptySet DEF ResetInv, BookInv, CountsFinite, Started
  <1>2. TradersPast'
    BY DEF ResetInv, BookInv, TradersPast
  <1>3. MovedOK'
    BY DEF ResetInv, BookInv, MovedOK, Unaccounted
  <1> QED
    BY <1>1, <1>2, <1>3 DEF ResetInv, UpkeepInv, BookInv

(* Neither do they move units, as long as each position keeps its identity *)
(* and its quantity.                                                       *)
LEMMA UnitsKept ==
  ASSUME ResetInv, UNCHANGED <<call, trades, overlapped, cash, realised, reset>>,
         \A s \in Symbols : Copies(positions[s], positions'[s])
  PROVE  /\ Solo => Solo'
         /\ CopiesFresh => CopiesFresh'
         /\ Accounted => Accounted'
  <1>1. \A c \in Calls : Sym(c)' = Sym(c) /\ (Active(c)' <=> Active(c))
    BY DEF Sym, Ticket, Active
  <1>2. Solo => Solo'
    BY <1>1 DEF Solo
  <1>3. \A c \in Calls : call[c].pc \in {"upsert", "credit", "reduce"} => Sym(c) \in Symbols
    <2>1. \A c \in Calls : call[c].pc \in Waiting => call[c].ticket \in Tickets
      BY DEF ResetInv, BookInv, Inv, CallOK, HasTicket
    <2> QED
      BY <2>1, TicketFacts DEF Waiting, Sym, Ticket
  <1>4. CopiesFresh => CopiesFresh'
    BY <1>1, <1>3 DEF CopiesFresh, Copies
  <1>5. UnitsTally(Starting) => UnitsTally(Starting)'
    <2>1. \A s \in Symbols : HeldQty(s)' = HeldQty(s)
      BY DEF HeldQty, Copies
    <2>2. \A s : NetQty(s)' = NetQty(s) /\ PendingQty(s)' = PendingQty(s)
      BY DEF NetQty, TradesOf, PendingQty, Untraded, Units, Sym, Ticket
    <2>3. Starting' = Starting
      BY DEF Starting, StartingQty
    <2> QED
      BY <2>1, <2>2, <2>3 DEF UnitsTally
  <1>6. Books => Books'
    BY DEF Books, TradeProceeds, TradePnl, MovedProceeds, MovedPnl, Unaccounted, Proceeds, Pnl,
           Ticket
  <1>7. Quiet => Quiet'
    BY <1>1 DEF Quiet, Copies
  <1> QED
    BY <1>2, <1>4, <1>5, <1>6, <1>7 DEF Accounted, Resetting

-----------------------------------------------------------------------------
(* The reset begins; from here on a call that runs entangles it.           *)
LEMMA BeginKeepsBooks ==
  ASSUME ResetInv, UpkeepInv', BeginReset
  PROVE  ResetInv'
  <1>1. UNCHANGED <<cash, realised, positions, trades, call, crashes, overlapped>>
    BY DEF BeginReset, vars, db, env
  <1>2. BookInv' /\ crashes' = 0 /\ \A c \in Calls : call'[c].pc # "stranded"
    BY <1>1, CallsKept
  <1>3. ASSUME ~entangled' PROVE Quiet'
    BY <1>1, <1>3 DEF BeginReset, Quiet, Active, Collections
  <1>4. ASSUME ~entangled' PROVE Solo' /\ CopiesFresh'
    BY <1>1, <1>4, <1>2 DEF BeginReset, Solo, CopiesFresh, Active, Waiting
  <1> QED
    BY <1>2, <1>3, <1>4 DEF ResetInv, Accounted, Resetting, BeginReset

LEMMA WipeKeepsBooks ==
  ASSUME ResetInv, UpkeepInv', NEW k \in Collections, Wipe(k)
  PROVE  ResetInv'
  <1>1. /\ UNCHANGED <<cash, realised, call, crashes, overlapped, entangled>>
        /\ trades' \in {trades, {}}
        /\ reset.pc = "wipe" /\ reset \in ResetState
        /\ reset' = [reset EXCEPT !.todo = @ \ {k}]
    BY DEF Wipe, env, Resetting, ResetInv, UpkeepInv
  <1>2. BookInv' /\ crashes' = 0 /\ \A c \in Calls : call'[c].pc # "stranded"
    BY <1>1, CallsKept
  <1>3. /\ reset'.pc = "wipe" /\ reset'.cash = reset.cash /\ reset'.realised = reset.realised
        /\ reset'.todo = reset.todo \ {k}
    BY <1>1 DEF ResetState
  <1>4. ASSUME ~entangled' PROVE Quiet' /\ Solo' /\ CopiesFresh'
    <2>1. Quiet
      BY <1>1, <1>4 DEF ResetInv, Accounted, Resetting
    <2>2. Quiet'
      BY <1>1, <1>3, <2>1 DEF Quiet, Wipe, WipedPositions, Active
    <2> QED
      BY <2>2 DEF Quiet, Solo, CopiesFresh, Active, Waiting
  <1> QED
    BY <1>2, <1>3, <1>4 DEF ResetInv, Accounted, Resetting

(* The save at the end of it: the account is as new.                       *)
LEMMA SaveKeepsBooks ==
  ASSUME ResetInv, UpkeepInv', SaveReset
  PROVE  ResetInv'
  <1>1. /\ UNCHANGED <<positions, trades, call, crashes, overlapped, entangled>>
        /\ Resetting /\ reset.todo = {} /\ reset \in ResetState
        /\ reset' = [reset EXCEPT !.pc = "done"]
    BY DEF SaveReset, env, ResetInv, UpkeepInv
  <1>2. BookInv' /\ crashes' = 0 /\ \A c \in Calls : call'[c].pc # "stranded"
    BY <1>1, CallsKept
  <1>3. reset'.pc = "done"
    BY <1>1 DEF ResetState
  <1>4. ASSUME ~entangled' PROVE Solo' /\ CopiesFresh' /\ Books' /\ UnitsTally(Starting)'
    <2>1. Quiet
      BY <1>1, <1>4 DEF ResetInv, Accounted
    <2>2. cash' = InitialCash /\ realised' = 0
      BY <2>1 DEF SaveReset, Quiet
    <2>3. trades' = {} /\ \A s \in Symbols : positions'[s] = NoRow
      BY <1>1, <2>1 DEF Quiet
    <2>4. Unaccounted' = {} /\ Solo' /\ CopiesFresh' /\ \A s \in Symbols : Untraded(s)' = {}
      <3>1. \A c \in Calls : ~Active(c)' /\ call'[c].pc # "stranded"
        BY <1>1, <1>2, <2>1 DEF Quiet, Active
      <3> QED
        BY <3>1 DEF Unaccounted, Active, Waiting, Solo, CopiesFresh, Untraded
    <2>5. Books'
      <3>1. /\ SumFunction(TradeProceeds)' = SumFunctionOnSet(TradeProceeds', {})
            /\ SumFunction(TradePnl)' = SumFunctionOnSet(TradePnl', {})
            /\ SumFunction(MovedProceeds)' = SumFunctionOnSet(MovedProceeds', {})
            /\ SumFunction(MovedPnl)' = SumFunctionOnSet(MovedPnl', {})
        BY <2>3, <2>4 DEF SumFunction, TradeProceeds, TradePnl, MovedProceeds, MovedPnl
      <3>2. InitialCash \in Int
        BY OrderExecutionAssumption
      <3> QED
        BY <2>2, <3>1, <3>2, SumEmpty DEF Books
    <2>6. ASSUME NEW s \in Symbols
          PROVE  HeldQty(s)' = Starting'[s] + NetQty(s)' + PendingQty(s)'
      <3>1. HeldQty(s)' = 0 /\ Starting'[s] = 0
        BY <1>3, <2>3 DEF HeldQty, Starting, StartingQty
      <3>2. TradesOf(s)' = {} /\ Untraded(s)' = {}
        BY <2>3, <2>4 DEF TradesOf
      <3>3. NetQty(s)' = SumFunctionOnSet([t \in TradesOf(s)' |-> Units(t.ticket)], {})
        BY <3>2 DEF NetQty, SumFunction, Units
      <3>4. PendingQty(s)' = SumFunctionOnSet([c \in Untraded(s)' |-> Units(Ticket(c)')], {})
        BY <3>2 DEF PendingQty, SumFunction, Units
      <3> QED
        BY <3>1, <3>3, <3>4, SumEmpty
    <2>7. UnitsTally(Starting)'
      BY <2>6 DEF UnitsTally
    <2> QED
      BY <2>4, <2>5, <2>7
  <1> QED
    BY <1>2, <1>3, <1>4 DEF ResetInv, Accounted, Resetting

(* The refresh saves marks, and marks only.                                *)
LEMMA MarksKeepBooks ==
  ASSUME ResetInv, UpkeepInv', RefreshStep
  PROVE  ResetInv'
  <1>1. UNCHANGED <<cash, realised, trades, call, crashes, overlapped, reset, entangled>>
    BY DEF RefreshStep, ReadPositions, PriceNext, SaveMark, RefreshDone, vars, db, env
  <1>2. BookInv' /\ crashes' = 0 /\ \A c \in Calls : call'[c].pc # "stranded"
    BY <1>1, CallsKept
  <1>3. \A s \in Symbols : Copies(positions[s], positions'[s])
    <2>1. CASE UNCHANGED positions
      BY <2>1 DEF Copies
    <2>2. CASE ~UNCHANGED positions
      <3> DEFINE r == refresh.symbol  row == refresh.rows[r]
      <3>1. /\ refresh.pc = "save" /\ StillStored(r, row)
            /\ positions' = [positions EXCEPT
                   ![r] = Saved(positions[r], row, Remarked(row, refresh.ltp))]
        BY <2>2 DEF RefreshStep, ReadPositions, PriceNext, RefreshDone, SaveMark, vars, db
      <3>2. /\ r \in Symbols /\ row \in Row /\ refresh.ltp \in Prices
            /\ positions \in [Symbols -> Row \cup {NoRow}]
        BY <3>1 DEF ResetInv, UpkeepInv, RefreshOK, Copied, Inv, TypeOK
      <3>3. positions[r] \in Row
        BY <3>1, <3>2 DEF StillStored
      <3>4. /\ Remarked(row, refresh.ltp) \in Row /\ Remarked(row, refresh.ltp).qty = row.qty
            /\ Remarked(row, refresh.ltp).id = row.id
        BY <3>2, RemarkedFacts DEF Remarked, Row
      <3>5. positions'[r] = Saved(positions[r], row, Remarked(row, refresh.ltp))
        BY <3>1, <3>2
      <3>6. positions'[r] \in Row
        BY <3>2, <3>3, <3>4, <3>5, SavedFacts
      <3>7. positions'[r].qty = positions[r].qty /\ positions'[r].id = positions[r].id
        BY <3>3, <3>4, <3>5 DEF Saved, Row
      <3>8. Copies(positions[r], positions'[r])
        BY <3>3, <3>6, <3>7, NoRowIsNoRow DEF Copies
      <3> QED
        BY <3>1, <3>2, <3>8 DEF Copies
    <2> QED
      BY <2>1, <2>2
  <1> QED
    BY <1>1, <1>2, <1>3, UnitsKept DEF ResetInv

-----------------------------------------------------------------------------
(* The engine's steps, and orders placed.                                  *)
LEMMA StartKeepsBooks ==
  ASSUME ResetInv, UpkeepInv', ExecuteOrder
  PROVE  ResetInv'
  <1> PICK c \in Calls, o \in Orders :
        /\ Start(c, o) /\ entangled' = (entangled \/ Resetting) /\ UNCHANGED reset
    BY DEF ExecuteOrder
  <1>1. BookInv /\ BookInv' /\ (Books => Books') /\ Inv' /\ Inv
    BY BooksByStart DEF ResetInv, UpkeepInv
  <1>2. /\ call'[c].pc \in {"quote", "refused"} /\ \A d \in Calls : d # c => call'[d] = call[d]
        /\ crashes' = crashes
    BY <1>1 DEF Start, Goto, CallState, Inv, TypeOK
  <1>3. crashes' = 0 /\ \A d \in Calls : call'[d].pc # "stranded"
    BY <1>2 DEF ResetInv
  <1>4. ASSUME ~entangled' PROVE Solo' /\ CopiesFresh' /\ Accounted'
    <2>1. HandsInv /\ Books /\ UnitsTally(Starting) /\ ~Resetting
      BY <1>1, <1>4 DEF ResetInv, HandsInv, Accounted
    <2>2. HandsInv'
      BY <1>1, <2>1, HandsByStart
    <2>3. Starting' = Starting /\ ~Resetting'
      BY <2>1 DEF Starting, StartingQty, Resetting
    <2>4. \A b : UnitsTally(b) => UnitsTally(b)'
      BY <1>1, TallyByStart
    <2>5. UnitsTally(Starting)'
      BY <2>1, <2>3, <2>4 DEF UnitsTally
    <2> QED
      BY <1>1, <2>1, <2>2, <2>3, <2>5 DEF HandsInv, Accounted
  <1> QED
    BY <1>1, <1>3, <1>4 DEF ResetInv

LEMMA EngineKeepsBooks ==
  ASSUME ResetInv, UpkeepInv', EngineStep
  PROVE  ResetInv'
  <1> PICK c \in Calls : Step(c) /\ UNCHANGED upkeep
    BY DEF EngineStep
  <1>1. BookInv /\ Inv /\ Inv' /\ UNCHANGED <<reset, entangled>>
    BY DEF ResetInv, UpkeepInv, upkeep
  <1>2. BookInv'
    BY <1>1, BookInvByStep DEF BookInv
  <1>3. crashes' = 0
    BY DEF ResetInv, Step, Quote, Debit, ReadHolding, Credit, Reject, FindPosition, Upsert, Reduce,
           RecordTrade, Commit, Undo, env
  <1>4. Active(c) /\ \A d \in Calls : d # c => call'[d] = call[d]
    BY <1>1, StepStaysHome
  <1>5. \A d \in Calls : call'[d].pc # "stranded"
    BY <1>1, <1>4, StepMoves DEF ResetInv
  <1>6. ASSUME ~entangled' PROVE Solo' /\ CopiesFresh' /\ Accounted'
    <2>1. ~Resetting /\ HandsInv /\ Books /\ UnitsTally(Starting)
      BY <1>1, <1>4, <1>6 DEF ResetInv, HandsInv, Accounted, Quiet
    <2>2. Solo' /\ CopiesFresh' /\ Books'
      BY <1>1, <2>1, SoloByStep, CopiesByStep, BooksByStep
    <2>3. Starting' = Starting /\ ~Resetting'
      BY <1>1, <2>1 DEF Starting, StartingQty, Resetting
    <2>4. \A b \in [Symbols -> Int] : UnitsTally(b) => UnitsTally(b)'
      BY <2>1, TallyByStep
    <2>5. UnitsTally(Starting)'
      BY <2>1, <2>3, <2>4, StartingInt DEF UnitsTally
    <2> QED
      BY <2>2, <2>3, <2>5 DEF Accounted
  <1> QED
    BY <1>2, <1>3, <1>5, <1>6 DEF ResetInv

LEMMA ResetNext == ResetInv /\ [UpkeepNext]_uvars => ResetInv'
  <1> SUFFICES ASSUME ResetInv, [UpkeepNext]_uvars PROVE ResetInv'
    OBVIOUS
  <1>1. UpkeepInv'
    BY UpkeepStep DEF ResetInv
  <1>2. CASE PlaceOrder \/ UNCHANGED uvars
    <2>1. UNCHANGED <<cash, realised, positions, trades, call, crashes, overlapped, reset, entangled>>
      BY <1>2 DEF PlaceOrder, Place, uvars, upkeep, vars, db, env
    <2>2. BookInv' /\ crashes' = 0 /\ \A c \in Calls : call'[c].pc # "stranded"
      BY <1>1, <2>1, CallsKept
    <2>3. \A s \in Symbols : Copies(positions[s], positions'[s])
      BY <2>1 DEF Copies
    <2> QED
      BY <1>1, <2>1, <2>2, <2>3, UnitsKept DEF ResetInv
  <1> QED
    BY <1>1, <1>2, BeginKeepsBooks, WipeKeepsBooks, SaveKeepsBooks, MarksKeepBooks, StartKeepsBooks,
       EngineKeepsBooks DEF UpkeepNext, ResetStep

(* For any number of executions, marks refreshed among them, and a reset   *)
(* that no execution was under way beside: before it the balance and the   *)
(* holdings are explained by the trades made so far, and after it by those *)
(* made since (resetPortfolio 77-97).                                      *)
THEOREM ResetLeavesBooksBalanced == UpkeepSpec => []ResetKeepsBooks
  <1>1. ResetInv => ResetKeepsBooks
    BY DEF ResetInv, ResetKeepsBooks, Accounted, BooksBalance, Books, UnitsTally, Starting
  <1>2. QED
    BY <1>1, ResetInitial, ResetNext, PTL DEF UpkeepSpec
=============================================================================
