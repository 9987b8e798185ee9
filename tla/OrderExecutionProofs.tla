------------------------ MODULE OrderExecutionProofs ------------------------
(***************************************************************************)
(* What holds of executeOrder for any number of calls, orders, symbols,    *)
(* tickets, prices, failures and crashes.                                  *)
(*                                                                         *)
(* The inductive invariant adds to the properties what a call has in hand  *)
(* at each await: its order, ticket and price, the side that led it there, *)
(* and the position it read.  OnceInv adds, for symbols without overlaps,  *)
(* that a call is alone and finds its order PENDING.  BookInv says which   *)
(* calls have moved money without a trade yet, so that each step changes   *)
(* one term of the sums that explain the balance; HandsInv, that the copy  *)
(* of a position a lone call holds is the stored one, so that the units    *)
(* add up; IsoInv puts these together for the mapping to FillLedger.       *)
(***************************************************************************)
EXTENDS OrderLedger, SumProofs

(* Awaits at which a call has been given its order and ticket.             *)
HasTicket(c) == call[c].pc \in Waiting
HasPrice(c) == call[c].pc \in Waiting \ {"quote"}
Buying(c) == call[c].pc \in {"debit", "find", "upsert"}
Selling(c) == call[c].pc \in {"holding", "credit", "reduce"}
(* Awaits at which a SELL holds the position it read.                      *)
HoldsRow(c) == call[c].pc \in {"credit", "reduce", "trade", "commit", "undo"}

CallOK(c) ==
  /\ HasTicket(c) => call[c].order \in Orders /\ call[c].ticket \in Tickets
  /\ HasPrice(c) => call[c].price \in Prices
  /\ Buying(c) => call[c].ticket.side = "BUY"
  /\ Selling(c) => call[c].ticket.side = "SELL"
  /\ (HoldsRow(c) /\ call[c].ticket.side = "SELL") =>
       call[c].row \in Row /\ call[c].row.qty >= call[c].ticket.qty
  /\ call[c].row \in Row => call[c].row.qty > 0

Inv == TypeOK /\ NeverShort /\ \A c \in Calls : CallOK(c)

(* The absent position is no position document.                            *)
LEMMA NoRowIsNoRow == NoRow \notin Row
  BY NoRowAssumption

(* The constants' types, in the form the proofs use.                       *)
LEMMA TicketFacts ==
  ASSUME NEW t \in Tickets
  PROVE  /\ t.side \in {"BUY", "SELL"} /\ t.type \in {"MARKET", "LIMIT"}
         /\ t.symbol \in Symbols /\ t.qty \in Nat /\ t.qty > 0
  BY OrderExecutionAssumption

(* Prices are positive integers.                                           *)
LEMMA PriceFacts ==
  ASSUME NEW p \in Prices
  PROVE  p \in Nat /\ p > 0
  BY OrderExecutionAssumption

(* A call waiting with a price has a cost, and a P&L, that are integers.   *)
LEMMA AmountFacts ==
  ASSUME Inv, NEW c \in Calls, HasPrice(c)
  PROVE  /\ Cost(c) \in Nat /\ Cost(c) > 0
         /\ HoldsRow(c) => Pnl(c) \in Int
  <1>1. /\ call[c].price \in Nat /\ call[c].price > 0
        /\ call[c].ticket.qty \in Nat /\ call[c].ticket.qty > 0
    BY PriceFacts, TicketFacts DEF Inv, CallOK, HasPrice, HasTicket
  <1>2. \A m, n \in Nat : m > 0 /\ n > 0 => m * n \in Nat /\ m * n > 0
    OBVIOUS
  <1>3. Cost(c) \in Nat /\ Cost(c) > 0
    BY <1>1, <1>2 DEF Cost, Ticket
  <1>4. ASSUME HoldsRow(c) PROVE Pnl(c) \in Int
    <2>1. CASE call[c].ticket.side = "SELL"
      <3>1. call[c].row.avg \in Int
        BY <1>4, <2>1 DEF Inv, CallOK, Row
      <3>2. QED
        BY <1>1, <3>1, <2>1 DEF Pnl, Ticket
    <2>2. CASE call[c].ticket.side # "SELL"
      BY <2>2 DEF Pnl, Ticket
    <2>3. QED
      BY <2>1, <2>2
  <1>5. QED
    BY <1>3, <1>4

(* save() leaves a position document whose quantity is the new or the      *)
(* stored one.                                                             *)
LEMMA SavedFacts ==
  ASSUME NEW stored \in Row, NEW read \in Row, NEW new \in Row
  PROVE  /\ Saved(stored, read, new) \in Row
         /\ Saved(stored, read, new).qty \in {stored.qty, new.qty}
  BY DEF Saved, Row

(* A BUY's blended position is a position, with more units than it had.    *)
LEMMA BlendedFacts ==
  ASSUME Inv, NEW c \in Calls, call[c].pc = "upsert", call[c].row \in Row
  PROVE  Blended(c) \in Row /\ Blended(c).qty > 0
  <1>1. /\ HasPrice(c) /\ HasTicket(c)
        /\ call[c].ticket \in Tickets /\ call[c].price \in Prices /\ call[c].row.qty > 0
    BY DEF Inv, CallOK, HasPrice, HasTicket, Waiting
  <1> DEFINE qty == call[c].row.qty + call[c].ticket.qty
             avg == (call[c].row.avg * call[c].row.qty + Cost(c)) \div qty
  <1>2. qty \in Nat /\ qty > 0
    BY <1>1, TicketFacts DEF Row
  <1>3. call[c].row.avg * call[c].row.qty + Cost(c) \in Int
    BY <1>1, AmountFacts DEF Row
  <1>4. avg \in Int
    <2> HIDE DEF qty
    <2>1. \A n \in Int, d \in Nat : d > 0 => n \div d \in Int
      OBVIOUS
    <2> DEFINE num == call[c].row.avg * call[c].row.qty + Cost(c)
    <2> HIDE DEF num
    <2>2. num \in Int
      BY <1>3 DEF num
    <2>3. num \div qty \in Int
      BY <2>1, <2>2, <1>2
    <2> QED
      BY <2>3 DEF num
  <1>5. (call[c].price - avg) * qty \in Int
    <2> HIDE DEF qty, avg
    <2> QED BY <1>1, <1>2, <1>4, PriceFacts
  <1>6. call[c].row.id \in Calls \cup {NoCall} /\ call[c].price \in Int
    BY <1>1, PriceFacts DEF Row
  <1>7. Blended(c) = [id |-> call[c].row.id, qty |-> qty, avg |-> avg,
                      mark |-> call[c].price, upnl |-> (call[c].price - avg) * qty]
    BY DEF Blended, Ticket
  <1>8. QED
    <2> HIDE DEF qty, avg
    <2> QED BY <1>2, <1>4, <1>5, <1>6, <1>7 DEF Row

(* What a SELL leaves of its position is not short.                        *)
LEMMA ReducedFacts ==
  ASSUME Inv, NEW c \in Calls, call[c].pc = "reduce"
  PROVE  Reduced(c) \in Row /\ Reduced(c).qty >= 0
  <1>1. /\ call[c].ticket \in Tickets /\ call[c].price \in Prices
        /\ call[c].row \in Row /\ call[c].row.qty >= call[c].ticket.qty
    BY DEF Inv, CallOK, HasPrice, HasTicket, HoldsRow, Selling, Waiting
  <1> DEFINE qty == call[c].row.qty - call[c].ticket.qty
             upnl == (call[c].price - call[c].row.avg) * qty
  <1>2. qty \in Int /\ qty >= 0
    BY <1>1, TicketFacts DEF Row
  <1>3. upnl \in Int
    <2>1. call[c].price - call[c].row.avg \in Int
      BY <1>1, PriceFacts DEF Row
    <2>2. \A m, n \in Int : m * n \in Int
      OBVIOUS
    <2> HIDE DEF qty
    <2> QED BY <1>2, <2>1, <2>2
  <1>4. Reduced(c) = [call[c].row EXCEPT !.qty = qty, !.mark = call[c].price, !.upnl = upnl]
    BY DEF Reduced, Ticket
  <1>5. call[c].price \in Int
    BY <1>1, PriceFacts
  <1>6. QED
    <2> HIDE DEF qty, upnl
    <2> QED BY <1>1, <1>2, <1>3, <1>4, <1>5 DEF Row

(* A position opened by a BUY is a position.                               *)
LEMMA FreshFacts ==
  ASSUME Inv, NEW c \in Calls, call[c].pc = "upsert"
  PROVE  FreshRow(c) \in Row /\ FreshRow(c).qty > 0
  <1>1. call[c].ticket \in Tickets /\ call[c].price \in Prices
    BY DEF Inv, CallOK, HasPrice, HasTicket, Waiting
  <1>2. QED
    BY <1>1, PriceFacts, TicketFacts DEF FreshRow, Ticket, Row

-----------------------------------------------------------------------------
LEMMA InvInit == Init => Inv
  <1> SUFFICES ASSUME Init PROVE Inv
    OBVIOUS
  <1>1. ASSUME NEW s \in Symbols
        PROVE  SeedRow(s) \in Row \cup {NoRow} /\ (SeedRow(s) # NoRow => SeedRow(s).qty > 0)
    <2> DEFINE p == CHOOSE p \in Prices : TRUE
    <2>1. p \in Prices /\ p \in Int
      <3>1. Prices # {} /\ Prices \subseteq Int
        BY OrderExecutionAssumption
      <3>2. \E x : x \in Prices
        BY <3>1
      <3>3. p \in Prices
        BY <3>2, Zenon
      <3>4. QED
        BY <3>1, <3>3
    <2>2. InitialQty[s] \in Nat
      BY OrderExecutionAssumption
    <2>3. InitialQty[s] # 0 =>
            SeedRow(s) = [id |-> NoCall, qty |-> InitialQty[s], avg |-> p, mark |-> p, upnl |-> 0]
      BY DEF SeedRow
    <2> HIDE DEF p
    <2>4. InitialQty[s] # 0 => SeedRow(s) \in Row /\ SeedRow(s).qty > 0
      BY <2>1, <2>2, <2>3 DEF Row
    <2>5. InitialQty[s] = 0 => SeedRow(s) = NoRow
      BY DEF SeedRow
    <2>6. QED
      BY <2>2, <2>4, <2>5
  <1>2. TypeOK
    BY <1>1, OrderExecutionAssumption DEF Init, TypeOK, CallState, IdleCall
  <1>3. NeverShort
    BY <1>1 DEF Init, NeverShort
  <1>4. ASSUME NEW c \in Calls PROVE CallOK(c)
    BY NoRowIsNoRow DEF Init, CallOK, IdleCall, HasTicket, HasPrice, Buying, Selling, HoldsRow, Waiting
  <1>5. QED
    BY <1>2, <1>3, <1>4 DEF Inv

(* A call other than the one that steps keeps what it has in hand.         *)
LEMMA OthersKeepTheirs ==
  ASSUME Inv, NEW c \in Calls, NEW d \in Calls, call'[d] = call[d]
  PROVE  CallOK(d)'
  BY DEF Inv, CallOK, HasTicket, HasPrice, Buying, Selling, HoldsRow

(* The steps that touch no document but the order's and the call's own     *)
(* record.                                                                 *)
LEMMA StartStep ==
  ASSUME Inv, NEW c \in Calls, NEW o \in Orders, Start(c, o)
  PROVE  Inv'
  <1> USE DEF Inv
  <1>1. TypeOK'
    <2>1. call' \in [Calls -> CallState]
      BY DEF Start, Startable, Goto, TypeOK, CallState, OrderDoc, Waiting, Ended
    <2>2. overlapped' \subseteq Symbols
      <3>1. CASE Startable(o)
        <4>1. orders[o].ticket.symbol \in Symbols
          BY <3>1, TicketFacts DEF Startable, TypeOK, OrderDoc
        <4>2. QED
          BY <3>1, <4>1 DEF Start, Startable, TypeOK
      <3>2. CASE ~Startable(o)
        BY <3>2 DEF Start, Startable, TypeOK
      <3>3. QED
        BY <3>1, <3>2
    <2>3. QED
      BY <2>1, <2>2 DEF Start, Startable, TypeOK, db
  <1>2. NeverShort'
    BY DEF Start, Startable, NeverShort, db
  <1>3. ASSUME NEW d \in Calls PROVE CallOK(d)'
    <2>1. CASE d = c
      BY <2>1 DEF Start, Startable, Goto, TypeOK, CallOK, CallState, OrderDoc, HasTicket, HasPrice,
                  Buying, Selling, HoldsRow, Waiting
    <2>2. CASE d # c
      BY <2>2, OthersKeepTheirs DEF Start, Startable, Goto, TypeOK
    <2>3. QED
      BY <2>1, <2>2
  <1>4. QED
    BY <1>1, <1>2, <1>3

LEMMA QuoteStep ==
  ASSUME Inv, NEW c \in Calls, Quote(c)
  PROVE  Inv'
  <1> USE DEF Inv
  <1>1. TypeOK'
    BY DEF Quote, Goto, TypeOK, CallState, Waiting, Ended, db, env
  <1>2. NeverShort'
    BY DEF Quote, NeverShort, db
  <1>3. ASSUME NEW d \in Calls PROVE CallOK(d)'
    <2>1. CASE d = c
      <3>1. CallOK(c) /\ call[c].ticket \in Tickets /\ call[c].ticket.side \in {"BUY", "SELL"}
        BY TicketFacts DEF Quote, CallOK, HasTicket, Waiting
      <3>2. QED
        BY <2>1, <3>1 DEF Quote, Goto, TypeOK, CallOK, CallState, HasTicket, HasPrice,
                          Ticket, Buying, Selling, HoldsRow, Waiting
    <2>2. CASE d # c
      BY <2>2, OthersKeepTheirs DEF Quote, Goto, TypeOK
    <2>3. QED
      BY <2>1, <2>2
  <1>4. QED
    BY <1>1, <1>2, <1>3

(* A call moves on to an await for which it has what CallOK asks.          *)
LEMMA Advance ==
  ASSUME Inv, NEW c \in Calls, NEW pc \in Waiting \cup Ended,
         HasTicket(c), HasPrice(c),
         call' = [call EXCEPT ![c].pc = pc],
         pc \in {"find", "upsert", "debit"} => call[c].ticket.side = "BUY",
         pc \in {"holding", "credit", "reduce"} => call[c].ticket.side = "SELL",
         pc \in {"credit", "reduce", "trade", "commit", "undo"} =>
           (call[c].ticket.side = "SELL" => HoldsRow(c))
  PROVE  /\ call' \in [Calls -> CallState]
         /\ \A d \in Calls : CallOK(d)'
  <1>1. call' \in [Calls -> CallState]
    BY DEF Inv, TypeOK, CallState
  <1>2. ASSUME NEW d \in Calls PROVE CallOK(d)'
    <2>1. CASE d = c
      BY <2>1 DEF Inv, TypeOK, CallOK, CallState, HasTicket, HasPrice, Buying,
                  Selling, HoldsRow, Waiting
    <2>2. CASE d # c
      BY <2>2, OthersKeepTheirs DEF Inv, TypeOK
    <2>3. QED
      BY <2>1, <2>2
  <1>3. QED
    BY <1>1, <1>2

(* The steps that move only money and the call's place in the sequence.    *)
LEMMA MoneyStep ==
  ASSUME Inv, NEW c \in Calls, Debit(c) \/ Credit(c) \/ Undo(c)
  PROVE  Inv'
  <1>1. HasPrice(c) /\ HasTicket(c) /\ CallOK(c)
    BY DEF Debit, Credit, Undo, HasPrice, HasTicket, Waiting, Inv
  <1>2. Cost(c) \in Nat /\ (Credit(c) \/ Undo(c) => Pnl(c) \in Int)
    BY <1>1, AmountFacts DEF Credit, Undo, HoldsRow
  <1>3. cash' \in Int /\ realised' \in Int
    BY <1>2 DEF Debit, Credit, Undo, Inv, TypeOK
  <1>4. PICK pc \in {"find", "reject", "reduce", "reversed"} :
          /\ call' = [call EXCEPT ![c].pc = pc]
          /\ pc = "find" => call[c].ticket.side = "BUY"
          /\ pc = "reduce" => call[c].ticket.side = "SELL" /\ HoldsRow(c)
    BY <1>1 DEF Debit, Credit, Undo, Goto, CallOK, Buying, Selling, HoldsRow
  <1>5. call' \in [Calls -> CallState] /\ \A d \in Calls : CallOK(d)'
    BY <1>1, <1>4, Advance DEF Waiting, Ended
  <1>6. UNCHANGED <<positions, orders, trades, faults, crashes, overlapped>>
    BY DEF Debit, Credit, Undo, env
  <1>7. QED
    BY <1>3, <1>5, <1>6 DEF Inv, TypeOK, NeverShort

(* Rejecting, recording the trade and marking the order EXECUTED.          *)
LEMMA BookingStep ==
  ASSUME Inv, NEW c \in Calls, Reject(c) \/ RecordTrade(c) \/ Commit(c)
  PROVE  Inv'
  <1>1. HasPrice(c) /\ HasTicket(c) /\ CallOK(c)
    BY DEF Reject, RecordTrade, Commit, HasPrice, HasTicket, Waiting, Inv
  <1>2. PICK pc \in {"refused", "commit", "unmarked", "done"} :
          /\ call' = [call EXCEPT ![c].pc = pc]
          /\ pc = "commit" => HoldsRow(c)
    BY DEF Reject, RecordTrade, Commit, Goto, HoldsRow
  <1>3. call' \in [Calls -> CallState] /\ \A d \in Calls : CallOK(d)'
    BY <1>1, <1>2, Advance DEF Waiting, Ended
  <1>4. call[c].order \in Orders /\ call[c].price \in Prices /\ call[c].ticket \in Tickets
    BY <1>1 DEF CallOK
  <1>5. orders' \in [Orders -> OrderDoc \cup {NoOrder}]
    BY <1>4 DEF Reject, RecordTrade, Commit, Inv, TypeOK, OrderDoc
  <1>6. trades' \subseteq Trade
    <2>1. RecordTrade(c) => Pnl(c) \in Int
      BY <1>1, AmountFacts DEF RecordTrade, HoldsRow
    <2>2. QED
      BY <1>4, <2>1 DEF Reject, RecordTrade, Commit, Ticket, Inv, TypeOK, Trade
  <1>7. UNCHANGED <<cash, realised, positions, faults, crashes, overlapped>>
    BY DEF Reject, RecordTrade, Commit, env
  <1>8. QED
    BY <1>3, <1>5, <1>6, <1>7 DEF Inv, TypeOK, NeverShort

(* The two reads of the position: what is read is what is stored.          *)
LEMMA ReadStep ==
  ASSUME Inv, NEW c \in Calls, ReadHolding(c) \/ FindPosition(c)
  PROVE  Inv'
  <1>1. HasPrice(c) /\ HasTicket(c) /\ CallOK(c)
    BY DEF ReadHolding, FindPosition, HasPrice, HasTicket, Waiting, Inv
  <1>2. /\ positions[Sym(c)] \in Row \cup {NoRow}
        /\ positions[Sym(c)] # NoRow => positions[Sym(c)].qty > 0
    BY <1>1, TicketFacts DEF Inv, TypeOK, NeverShort, CallOK, Sym, Ticket
  <1>3. call' \in [Calls -> CallState]
    BY <1>2 DEF ReadHolding, FindPosition, Goto, Inv, TypeOK, CallState, Waiting
  <1>4. ASSUME NEW d \in Calls PROVE CallOK(d)'
    <2>1. CASE d = c
      <3>1. CASE ReadHolding(c)
        BY <2>1, <3>1, <1>1, <1>2 DEF ReadHolding, Sellable, Goto, Inv, TypeOK, CallOK, CallState,
             HasTicket, HasPrice, Buying, Selling, HoldsRow, Waiting, Ticket
      <3>2. CASE FindPosition(c)
        BY <2>1, <3>2, <1>1, <1>2, NoRowIsNoRow DEF FindPosition, Inv, TypeOK, CallOK,
             CallState, HasTicket, HasPrice, Buying, Selling, HoldsRow, Waiting
      <3>3. QED
        BY <3>1, <3>2
    <2>2. CASE d # c
      BY <2>2, OthersKeepTheirs DEF ReadHolding, FindPosition, Goto, Inv, TypeOK
    <2>3. QED
      BY <2>1, <2>2
  <1>5. UNCHANGED <<db, env>>
    BY DEF ReadHolding, FindPosition
  <1>6. QED
    BY <1>3, <1>4, <1>5 DEF Inv, TypeOK, NeverShort, db, env

(* Both writes of the position leave every row whole and none of them      *)
(* short, stale copy or not.                                               *)
LEMMA UpsertStep ==
  ASSUME Inv, NEW c \in Calls, Upsert(c)
  PROVE  Inv'
  <1>1. HasPrice(c) /\ HasTicket(c) /\ CallOK(c) /\ call[c].ticket.side = "BUY"
    BY DEF Upsert, HasPrice, HasTicket, Buying, Waiting, Inv, CallOK
  <1>2. PICK pc \in {"trade", "undo"} : call' = [call EXCEPT ![c].pc = pc]
    BY DEF Upsert, Goto
  <1>3. call' \in [Calls -> CallState] /\ \A d \in Calls : CallOK(d)'
    BY <1>1, <1>2, Advance DEF Waiting, Ended
  <1> DEFINE s == Sym(c)
             old == call[c].row
  <1>4. s \in Symbols /\ old \in Row \cup {NoRow}
    BY <1>1, TicketFacts DEF CallOK, Sym, Ticket, Inv, TypeOK, CallState
  <1>5. \/ UNCHANGED positions
        \/ \E r \in Row : r.qty > 0 /\ positions' = [positions EXCEPT ![s] = r]
    <2>1. CASE old = NoRow /\ positions' = [positions EXCEPT ![s] = FreshRow(c)]
      BY <2>1, FreshFacts DEF Upsert
    <2>2. CASE /\ old # NoRow /\ StillStored(s, old)
               /\ positions' = [positions EXCEPT ![s] = Saved(positions[s], old, Blended(c))]
      <3>1. /\ positions[s] \in Row /\ positions[s].qty > 0
            /\ old \in Row
        BY <2>2, <1>4 DEF StillStored, Inv, TypeOK, NeverShort
      <3>2. Blended(c) \in Row /\ Blended(c).qty > 0
        BY <3>1, BlendedFacts DEF Upsert
      <3>3. /\ Saved(positions[s], old, Blended(c)) \in Row
            /\ Saved(positions[s], old, Blended(c)).qty > 0
        BY <3>1, <3>2, SavedFacts
      <3>4. QED
        BY <2>2, <3>3
    <2>3. CASE UNCHANGED positions
      BY <2>3
    <2>4. QED
      BY <2>1, <2>2, <2>3 DEF Upsert
  <1>6. UNCHANGED <<cash, realised, orders, trades, faults, crashes, overlapped>>
    BY DEF Upsert, env
  <1>7. positions' \in [Symbols -> Row \cup {NoRow}] /\ NeverShort'
    BY <1>4, <1>5 DEF Inv, TypeOK, NeverShort
  <1>8. QED
    BY <1>3, <1>6, <1>7 DEF Inv, TypeOK

LEMMA ReduceStep ==
  ASSUME Inv, NEW c \in Calls, Reduce(c)
  PROVE  Inv'
  <1>1. /\ HasPrice(c) /\ HasTicket(c) /\ HoldsRow(c) /\ CallOK(c)
        /\ call[c].row \in Row
    BY DEF Reduce, HasPrice, HasTicket, HoldsRow, Selling, Waiting, Inv, CallOK
  <1>2. PICK pc \in {"trade", "undo"} : call' = [call EXCEPT ![c].pc = pc]
    BY DEF Reduce, Goto
  <1>3. call' \in [Calls -> CallState] /\ \A d \in Calls : CallOK(d)'
    BY <1>1, <1>2, Advance DEF Waiting, Ended
  <1> DEFINE s == Sym(c)
             old == call[c].row
  <1>4. s \in Symbols /\ Reduced(c) \in Row /\ Reduced(c).qty >= 0 /\ Reduced(c).qty \in Int
    BY <1>1, TicketFacts, ReducedFacts DEF Reduce, CallOK, Sym, Ticket, Row
  <1>5. \/ UNCHANGED positions
        \/ positions' = [positions EXCEPT ![s] = NoRow]
        \/ \E r \in Row : r.qty > 0 /\ positions' = [positions EXCEPT ![s] = r]
    <2>1. CASE /\ Reduced(c).qty # 0 /\ StillStored(s, old)
               /\ positions' = [positions EXCEPT ![s] = Saved(positions[s], old, Reduced(c))]
      <3>1. positions[s] \in Row /\ positions[s].qty > 0
        BY <2>1, <1>4 DEF StillStored, Inv, TypeOK, NeverShort
      <3>2. /\ Saved(positions[s], old, Reduced(c)) \in Row
            /\ Saved(positions[s], old, Reduced(c)).qty > 0
        BY <1>1, <1>4, <2>1, <3>1, SavedFacts
      <3>3. QED
        BY <2>1, <3>2
    <2>2. CASE UNCHANGED positions
      BY <2>2
    <2>3. CASE positions' = [positions EXCEPT ![s] = NoRow]
      BY <2>3
    <2>4. QED
      BY <2>1, <2>2, <2>3 DEF Reduce
  <1>6. UNCHANGED <<cash, realised, orders, trades, faults, crashes, overlapped>>
    BY DEF Reduce, env
  <1>7. positions' \in [Symbols -> Row \cup {NoRow}] /\ NeverShort'
    BY <1>4, <1>5 DEF Inv, TypeOK, NeverShort
  <1>8. QED
    BY <1>3, <1>6, <1>7 DEF Inv, TypeOK

(* A failed call at any await, and a crash at any time.                    *)
LEMMA FailureStep ==
  ASSUME Inv, (\E c \in Calls : Fault(c)) \/ Crash
  PROVE  Inv'
  <1>1. ASSUME NEW c \in Calls, Fault(c) PROVE Inv'
    <2>1. Active(c) /\ UNCHANGED <<cash, realised, positions, orders, trades, crashes, overlapped>>
      BY <1>1 DEF Fault, db
    <2>2. PICK pc \in {"undo", "unmarked", "stranded", "refused"} :
            /\ call' = [call EXCEPT ![c].pc = pc]
            /\ pc = "undo" => call[c].pc \in {"find", "upsert", "reduce", "trade"}
      BY <1>1 DEF Fault, Goto, AfterFailure
    <2>3. /\ call' \in [Calls -> CallState]
          /\ \A d \in Calls : CallOK(d)'
      <3>1. call' \in [Calls -> CallState]
        BY <2>2 DEF Inv, TypeOK, CallState, Waiting, Ended
      <3>2. ASSUME NEW d \in Calls PROVE CallOK(d)'
        <4>1. CASE d = c
          <5>1. CallOK(c) /\ HasTicket(c)
            BY <2>1 DEF Inv, HasTicket, Active
          <5>2. CASE pc = "undo"
            BY <2>2, <4>1, <5>1, <5>2 DEF Inv, TypeOK, CallOK, CallState, HasTicket,
                 HasPrice, Buying, Selling, HoldsRow, Waiting
          <5>3. CASE pc # "undo"
            BY <2>2, <4>1, <5>1, <5>3 DEF Inv, TypeOK, CallOK, CallState, HasTicket,
                 HasPrice, Buying, Selling, HoldsRow, Waiting
          <5>4. QED
            BY <5>2, <5>3
        <4>2. CASE d # c
          BY <2>2, <4>2, OthersKeepTheirs DEF Inv, TypeOK
        <4>3. QED
          BY <4>1, <4>2
      <3>3. QED
        BY <3>1, <3>2
    <2>4. faults' \in Nat
      BY <1>1 DEF Fault, Inv, TypeOK
    <2>5. QED
      BY <2>1, <2>3, <2>4 DEF Inv, TypeOK, NeverShort
  <1>2. ASSUME Crash PROVE Inv'
    <2>1. call' \in [Calls -> CallState]
      BY <1>2 DEF Crash, Inv, TypeOK, CallState, Ended
    <2>2. ASSUME NEW d \in Calls PROVE CallOK(d)'
      BY <1>2 DEF Crash, Active, Inv, TypeOK, CallOK, CallState, HasTicket, HasPrice,
           Buying, Selling, HoldsRow, Waiting
    <2>3. crashes' \in Nat /\ UNCHANGED <<cash, realised, positions, orders, trades, faults, overlapped>>
      BY <1>2 DEF Crash, Inv, TypeOK, db
    <2>4. QED
      BY <2>1, <2>2, <2>3 DEF Inv, TypeOK, NeverShort
  <1>3. QED
    BY <1>1, <1>2

LEMMA PlaceStep ==
  ASSUME Inv, NEW o \in Orders, NEW t \in Tickets, Place(o, t)
  PROVE  Inv'
  <1>1. orders' \in [Orders -> OrderDoc \cup {NoOrder}]
    BY DEF Place, NewOrder, Inv, TypeOK, OrderDoc
  <1>2. UNCHANGED <<cash, realised, positions, trades, call, faults, crashes, overlapped>>
    BY DEF Place, env
  <1>3. ASSUME NEW d \in Calls PROVE CallOK(d)'
    BY <1>2, OthersKeepTheirs
  <1>4. QED
    BY <1>1, <1>2, <1>3 DEF Inv, TypeOK, NeverShort

LEMMA InvNext == Inv /\ [Next]_vars => Inv'
  <1> SUFFICES ASSUME Inv, [Next]_vars PROVE Inv'
    OBVIOUS
  <1>1. CASE \E o \in Orders, t \in Tickets : Place(o, t)
    BY <1>1, PlaceStep
  <1>2. CASE \E c \in Calls, o \in Orders : Start(c, o)
    BY <1>2, StartStep
  <1>3. ASSUME NEW c \in Calls, Step(c) PROVE Inv'
    BY <1>3, QuoteStep, MoneyStep, BookingStep, ReadStep, UpsertStep, ReduceStep DEF Step
  <1>4. CASE (\E c \in Calls : Fault(c)) \/ Crash
    BY <1>4, FailureStep
  <1>5. CASE UNCHANGED vars
    <2>1. ASSUME NEW d \in Calls PROVE CallOK(d)'
      BY <1>5, OthersKeepTheirs DEF vars
    <2>2. QED
      BY <1>5, <2>1 DEF vars, db, env, Inv, TypeOK, NeverShort
  <1>6. QED
    BY <1>1, <1>2, <1>3, <1>4, <1>5 DEF Next

(* What a step of one call leaves alone.                                   *)
Started(c) == call[c].pc # "idle"

(* A step of a call touches no other call, and no position but its own.    *)
LEMMA StepStaysHome ==
  ASSUME Inv, NEW c \in Calls, Step(c) \/ Fault(c)
  PROVE  /\ Active(c) /\ Ticket(c)' = Ticket(c)
         /\ \A d \in Calls : d # c => call'[d] = call[d]
         /\ \A s \in Symbols : s # Sym(c) => positions'[s] = positions[s]
         /\ UNCHANGED overlapped
  <1> USE DEF Inv
  <1>1. CASE Quote(c) \/ ReadHolding(c) \/ FindPosition(c)
    <2>1. CASE Quote(c)
      BY <2>1 DEF Quote, Goto, Active, Waiting, Ticket, TypeOK, CallState, db, env
    <2>2. CASE ReadHolding(c)
      BY <2>2 DEF ReadHolding, Goto, Active, Waiting, Ticket, TypeOK, CallState, db, env
    <2>3. CASE FindPosition(c)
      BY <2>3 DEF FindPosition, Active, Waiting, Ticket, TypeOK, CallState, db, env
    <2>4. QED
      BY <1>1, <2>1, <2>2, <2>3
  <1>2. CASE Debit(c) \/ Credit(c) \/ Undo(c)
    BY <1>2 DEF Debit, Credit, Undo, Goto, Active, Waiting, Ticket, TypeOK, CallState, env
  <1>3. CASE Upsert(c) \/ Reduce(c)
    <2>1. /\ call[c].pc \in {"upsert", "reduce"}
          /\ \E pc \in {"trade", "undo"} : call' = [call EXCEPT ![c].pc = pc]
          /\ \/ UNCHANGED positions
             \/ \E row : positions' = [positions EXCEPT ![Sym(c)] = row]
          /\ UNCHANGED <<faults, crashes, overlapped>>
      BY <1>3 DEF Upsert, Reduce, Goto, env
    <2>2. QED
      BY <2>1 DEF Active, Waiting, Ticket, TypeOK, CallState
  <1>4. CASE RecordTrade(c) \/ Reject(c) \/ Commit(c)
    BY <1>4 DEF RecordTrade, Reject, Commit, Goto, Active, Waiting, Ticket, TypeOK,
                CallState, env
  <1>5. CASE Fault(c)
    BY <1>5 DEF Fault, Goto, Active, Ticket, TypeOK, CallState, db
  <1>6. QED
    BY <1>1, <1>2, <1>3, <1>4, <1>5 DEF Step

(* A call that is under way changes no ticket, and records as its trade    *)
(* what it executes.                                                       *)
LEMMA EngineKeeps ==
  ASSUME Inv, NEW c \in Calls, Step(c) \/ Fault(c)
  PROVE  /\ \A o \in Orders :
              /\ orders'[o] = NoOrder <=> orders[o] = NoOrder
              /\ orders[o] # NoOrder => orders'[o].ticket = orders[o].ticket
         /\ \A d \in Calls :
              /\ Started(d)' <=> Started(d)
              /\ call'[d].order = call[d].order /\ call'[d].ticket = call[d].ticket
         /\ \A t \in trades' :
              \/ t \in trades
              \/ t.id = c /\ t.order = call[c].order /\ t.ticket = call[c].ticket /\ Started(c)
  <1> USE DEF Inv
  <1>1. CASE Quote(c)
    BY <1>1 DEF Quote, Goto, Started, TypeOK, CallState, db
  <1>2. CASE Debit(c) \/ Credit(c) \/ Undo(c)
    BY <1>2 DEF Debit, Credit, Undo, Goto, Started, TypeOK, CallState
  <1>3. CASE ReadHolding(c) \/ FindPosition(c)
    BY <1>3 DEF ReadHolding, FindPosition, Goto, Started, TypeOK, CallState, db
  <1>4. CASE Upsert(c) \/ Reduce(c)
    BY <1>4 DEF Upsert, Reduce, Goto, Started, TypeOK, CallState
  <1>5. CASE RecordTrade(c)
    BY <1>5 DEF RecordTrade, Goto, Started, TypeOK, CallState, Ticket
  <1>6. CASE Reject(c) \/ Commit(c)
    <2>1. /\ UNCHANGED trades /\ call[c].pc \in {"reject", "commit"}
          /\ \E pc \in {"refused", "unmarked", "done"} : call' = [call EXCEPT ![c].pc = pc]
      BY <1>6 DEF Reject, Commit, Goto
    <2>2. ASSUME NEW o \in Orders
          PROVE  /\ orders'[o] = NoOrder <=> orders[o] = NoOrder
                 /\ orders[o] # NoOrder => orders'[o].ticket = orders[o].ticket
      <3>1. CASE orders' = orders
        BY <3>1
      <3>2. CASE orders' # orders
        <4>1. \E status \in {"REJECTED", "EXECUTED"}, price \in Prices \cup {0} :
                /\ orders[call[c].order] # NoOrder
                /\ \/ orders' = [orders EXCEPT ![call[c].order].status = status]
                   \/ orders' = [orders EXCEPT ![call[c].order].status = status,
                                               ![call[c].order].price = price]
          BY <1>6, <3>2 DEF Reject, Commit, Goto, CallOK, HasPrice, HasTicket, Waiting
        <4>2. orders \in [Orders -> OrderDoc \cup {NoOrder}]
          BY DEF TypeOK
        <4>3. CASE o = call[c].order
          <5>1. orders[o] \in OrderDoc /\ orders'[o] \in OrderDoc
                /\ orders'[o].ticket = orders[o].ticket
            BY <4>1, <4>2, <4>3 DEF OrderDoc
          <5>2. QED
            BY <5>1, NoOrderAssumption
        <4>4. CASE o # call[c].order
          BY <4>1, <4>2, <4>4
        <4>5. QED
          BY <4>3, <4>4
      <3>3. QED
        BY <3>1, <3>2
    <2>3. ASSUME NEW d \in Calls
          PROVE  /\ Started(d)' <=> Started(d)
                 /\ call'[d].order = call[d].order /\ call'[d].ticket = call[d].ticket
      BY <2>1 DEF Started, TypeOK, CallState
    <2>4. QED
      BY <2>1, <2>2, <2>3
  <1>7. CASE Fault(c)
    <2>1. /\ UNCHANGED <<orders, trades>> /\ call[c].pc \in Waiting
          /\ call' = [call EXCEPT ![c].pc = AfterFailure(call[c].pc)]
          /\ AfterFailure(call[c].pc) # "idle"
      BY <1>7 DEF Fault, Goto, Active, db, AfterFailure
    <2>2. QED
      BY <2>1 DEF Started, TypeOK, CallState, Waiting
  <1>8. QED
    BY <1>1, <1>2, <1>3, <1>4, <1>5, <1>6, <1>7 DEF Step

(* A call changes no order but its own, and then ends.                     *)
LEMMA MarksItsOwn ==
  ASSUME Inv, NEW c \in Calls, Step(c) \/ Fault(c), NEW o \in Orders, orders'[o] # orders[o]
  PROVE  /\ o = call[c].order /\ call[c].pc \in {"reject", "commit"} /\ orders[o] # NoOrder
         /\ ~Active(c)' /\ UNCHANGED trades
         /\ call[c].pc = "commit" => orders'[o].status = "EXECUTED" /\ call'[c].pc = "done"
  <1>1. Reject(c) \/ Commit(c)
    BY DEF Step, Quote, Debit, ReadHolding, Credit, FindPosition, Upsert, Reduce, RecordTrade,
           Undo, Fault, db
  <1>2. /\ orders \in [Orders -> OrderDoc \cup {NoOrder}] /\ call \in [Calls -> CallState]
        /\ Active(c) /\ call[c].pc \in {"reject", "commit"}
    BY <1>1 DEF Inv, TypeOK, Reject, Commit, Active, Waiting
  <1>3. o = call[c].order /\ orders[o] # NoOrder
    BY <1>1, <1>2 DEF Reject, Commit
  <1>4. orders[o] \in OrderDoc
    BY <1>2, <1>3
  <1>5. ~Active(c)' /\ UNCHANGED trades
        /\ (call[c].pc = "commit" => orders'[o].status = "EXECUTED" /\ call'[c].pc = "done")
    BY <1>1, <1>2, <1>3, <1>4 DEF Reject, Commit, Goto, Active, Waiting, CallState, OrderDoc
  <1>6. QED
    BY <1>2, <1>3, <1>5

(* A call about to mark its order does, or breaks off.                     *)
LEMMA CommitMarks ==
  ASSUME Inv, NEW c \in Calls, Step(c) \/ Fault(c), call[c].pc = "commit"
  PROVE  \/ call'[c].pc = "unmarked"
         \/ /\ call'[c].pc = "done" /\ call'[c].price = call[c].price
            /\ call[c].order \in Orders
            /\ orders[call[c].order] # NoOrder
            /\ orders'[call[c].order].status = "EXECUTED"
            /\ orders'[call[c].order].price = call[c].price
  <1>1. Commit(c) \/ Fault(c)
    BY DEF Step, Quote, Debit, ReadHolding, Credit, Reject, FindPosition, Upsert, Reduce,
           RecordTrade, Undo
  <1>2. /\ orders \in [Orders -> OrderDoc \cup {NoOrder}] /\ call \in [Calls -> CallState]
        /\ call[c].order \in Orders
    BY DEF Inv, TypeOK, CallOK, HasTicket, Waiting
  <1>3. CASE Commit(c)
    <2>1. CASE orders[call[c].order] = NoOrder
      BY <1>2, <1>3, <2>1 DEF Commit, Goto, CallState
    <2>2. CASE orders[call[c].order] # NoOrder
      <3>1. orders[call[c].order] \in OrderDoc
        BY <1>2, <2>2
      <3>2. QED
        BY <1>2, <1>3, <2>2, <3>1 DEF Commit, Goto, CallState, OrderDoc
    <2>3. QED
      BY <2>1, <2>2
  <1>4. CASE Fault(c)
    BY <1>2, <1>4 DEF Fault, Goto, AfterFailure, CallState
  <1>5. QED
    BY <1>1, <1>3, <1>4

LEMMA DoneByCommit ==
  ASSUME Inv, NEW c \in Calls, Step(c) \/ Fault(c), call'[c].pc = "done"
  PROVE  call[c].pc = "commit"
  <1>1. call \in [Calls -> CallState]
    BY DEF Inv, TypeOK
  <1>2. CASE Quote(c) \/ ReadHolding(c) \/ FindPosition(c)
    BY <1>1, <1>2 DEF Quote, ReadHolding, FindPosition, Goto, CallState
  <1>3. CASE Debit(c) \/ Credit(c) \/ Undo(c) \/ Reject(c) \/ RecordTrade(c)
    BY <1>1, <1>3 DEF Debit, Credit, Undo, Reject, RecordTrade, Goto, CallState
  <1>4. CASE Upsert(c) \/ Reduce(c)
    <2>1. Goto(c, "trade") \/ Goto(c, "undo")
      BY <1>4 DEF Upsert, Reduce
    <2>2. QED
      BY <1>1, <2>1 DEF Goto, CallState
  <1>5. CASE Commit(c)
    BY <1>5 DEF Commit
  <1>6. CASE Fault(c)
    BY <1>1, <1>6 DEF Fault, Goto, AfterFailure, CallState
  <1>7. QED
    BY <1>2, <1>3, <1>4, <1>5, <1>6 DEF Step

(* A new trade is that of a call that comes to its commit.                 *)
LEMMA RecordsAtCommit ==
  ASSUME Inv, NEW c \in Calls, Step(c) \/ Fault(c), NEW t \in trades', t \notin trades
  PROVE  call'[c].pc = "commit"
  <1>1. RecordTrade(c)
    BY DEF Step, Quote, Debit, ReadHolding, Credit, Reject, FindPosition, Upsert, Reduce,
           Commit, Undo, Fault, db
  <1>2. QED
    BY <1>1 DEF RecordTrade, Goto, Inv, TypeOK, CallState

(* A crash ends every call under way and leaves the documents.             *)
LEMMA CrashKeeps ==
  ASSUME Inv, Crash
  PROVE  /\ UNCHANGED <<orders, trades, positions, overlapped>>
         /\ \A d \in Calls :
              /\ (Started(d)' <=> Started(d)) /\ ~Active(d)'
              /\ call'[d].order = call[d].order /\ call'[d].ticket = call[d].ticket
              /\ call'[d].pc \in {call[d].pc, "crashed"} /\ call'[d].row = call[d].row
              /\ call[d].order = NoOrder => call'[d].pc = call[d].pc
  <1>1. \A d \in Calls : Active(d) => call[d].order # NoOrder
    BY OrderExecutionAssumption DEF Inv, CallOK, HasTicket, Active
  <1>2. QED
    BY <1>1 DEF Crash, db, Started, Active, Waiting, Inv, TypeOK, CallState

(* Start gives a call its order, or turns it away.                         *)
LEMMA StartGives ==
  ASSUME Inv, NEW c \in Calls, NEW o \in Orders, orders[o] # NoOrder, Start(c, o)
  PROVE  /\ UNCHANGED db /\ overlapped \subseteq overlapped'
         /\ \A d \in Calls : d # c => call'[d] = call[d]
         /\ call[c].pc = "idle" /\ call'[c].row = call[c].row
         /\ \/ /\ call'[c].pc = "quote" /\ call'[c].order = o
               /\ call'[c].ticket = orders[o].ticket
               /\ Startable(o)
               /\ \A d \in Calls : d # c /\ Active(d) /\ Sym(d) = orders[o].ticket.symbol =>
                    Sym(d) \in overlapped'
            \/ /\ call'[c].pc = "refused" /\ call'[c].order = call[c].order
               /\ call'[c].ticket = call[c].ticket /\ ~Startable(o)
  <1>1. call \in [Calls -> CallState]
    BY DEF Inv, TypeOK
  <1>2. CASE Startable(o)
    <2>1. /\ call' = [call EXCEPT ![c].pc = "quote", ![c].order = o,
                                  ![c].ticket = orders[o].ticket]
          /\ overlapped' = overlapped \cup
               {s \in {orders[o].ticket.symbol} :
                  \E d \in Calls \ {c} : Active(d) /\ Sym(d) = s}
          /\ UNCHANGED db /\ call[c].pc = "idle"
      BY <1>2 DEF Start
    <2>2. QED
      BY <1>1, <1>2, <2>1 DEF CallState
  <1>3. CASE ~Startable(o)
    BY <1>1, <1>3 DEF Start, Goto, CallState
  <1>4. QED
    BY <1>2, <1>3

-----------------------------------------------------------------------------
(* The documents and the calls keep their types (TypeOK).                  *)
THEOREM TypeCorrect == Spec => []TypeOK
  <1>1. Inv => TypeOK
    BY DEF Inv
  <1>2. QED
    BY <1>1, InvInit, InvNext, PTL DEF Spec

(* No position is ever empty or short: however many SELLs race, each       *)
(* checks its quantity against the copy it later reduces (reducePosition). *)
THEOREM PositionsNeverShort == Spec => []NeverShort
  <1>1. Inv => NeverShort
    BY DEF Inv
  <1>2. QED
    BY <1>1, InvInit, InvNext, PTL DEF Spec

-----------------------------------------------------------------------------
(* Trades against calls and orders.                                        *)

Paid(c) ==
  /\ (\E t \in trades : t.id = c) => call[c].pc \in {"commit", "done", "unmarked", "crashed"}
  /\ call[c].pc \in {"commit", "done", "unmarked"} =>
       \E t \in trades : t.id = c /\ t.order = call[c].order /\ t.price = call[c].price

(* A step that adds no trade and either leaves the call alone or takes it  *)
(* along an edge that respects the commit point.                           *)
LEMMA PaidKept ==
  ASSUME NEW d \in Calls, Paid(d), UNCHANGED trades,
         \/ call'[d] = call[d]
         \/ /\ call[d].pc \notin {"commit", "done", "unmarked", "crashed"}
            /\ call'[d].pc \notin {"commit", "done", "unmarked"}
         \/ /\ call[d].pc = "commit"
            /\ call'[d].pc \in {"done", "unmarked", "crashed"}
            /\ call'[d].order = call[d].order /\ call'[d].price = call[d].price
  PROVE  Paid(d)'
  BY DEF Paid

LEMMA PaidNext == Inv /\ TradeMeansPaid /\ [Next]_vars => TradeMeansPaid'
  <1> SUFFICES ASSUME Inv, TradeMeansPaid, [Next]_vars, NEW d \in Calls PROVE Paid(d)'
    BY DEF TradeMeansPaid, Paid
  <1> USE DEF Inv
  <1>0. Paid(d)
    BY DEF TradeMeansPaid, Paid
  <1>1. ASSUME NEW c \in Calls, RecordTrade(c) PROVE Paid(d)'
    <2>1. CASE d = c
      <3>1. /\ [id |-> c, order |-> call[c].order, ticket |-> Ticket(c),
                price |-> call[c].price, pnl |-> Pnl(c)] \in trades'
            /\ call'[c].pc = "commit"
            /\ call'[c].order = call[c].order /\ call'[c].price = call[c].price
        BY <1>1 DEF RecordTrade, Goto, TypeOK, CallState
      <3>2. QED
        BY <2>1, <3>1 DEF Paid
    <2>2. CASE d # c
      BY <1>0, <1>1, <2>2 DEF RecordTrade, Goto, TypeOK, Paid
    <2>3. QED
      BY <2>1, <2>2
  <1>2. ASSUME NEW c \in Calls,
               \/ Quote(c) \/ Debit(c) \/ ReadHolding(c) \/ Credit(c) \/ Reject(c)
               \/ FindPosition(c) \/ Upsert(c) \/ Reduce(c) \/ Undo(c)
        PROVE  Paid(d)'
    <2>1. UNCHANGED trades
      BY <1>2 DEF Quote, Debit, ReadHolding, Credit, Reject, FindPosition, Upsert, Reduce, Undo, db
    <2> DEFINE Early == {"idle", "quote", "debit", "holding", "credit", "find", "upsert",
                         "reduce", "trade", "undo", "reject", "refused", "reversed"}
    <2>2. call[c].pc \in Early /\ call'[c].pc \in Early
      <3>1. CASE ReadHolding(c) \/ FindPosition(c)
        BY <3>1 DEF ReadHolding, FindPosition, Goto, TypeOK, CallState
      <3>5. CASE Quote(c)
        BY <3>5 DEF Quote, Goto, TypeOK, CallState
      <3>2. CASE Debit(c) \/ Credit(c) \/ Reject(c) \/ Undo(c)
        BY <3>2 DEF Debit, Credit, Reject, Undo, Goto, TypeOK, CallState
      <3>3. CASE Upsert(c) \/ Reduce(c)
        BY <3>3 DEF Upsert, Reduce, Goto, TypeOK, CallState
      <3>4. QED
        BY <1>2, <3>1, <3>2, <3>3, <3>5
    <2>4. d # c => call'[d] = call[d]
      BY <1>2 DEF Quote, Debit, ReadHolding, Credit, Reject, FindPosition, Upsert, Reduce,
                  Undo, Goto, TypeOK
    <2>5. QED
      BY <1>0, <2>1, <2>2, <2>4, PaidKept
  <1>3. ASSUME NEW c \in Calls, Commit(c) PROVE Paid(d)'
    BY <1>0, <1>3, PaidKept DEF Commit, Goto, TypeOK, CallState
  <1>4. ASSUME NEW c \in Calls, NEW o \in Orders, Start(c, o) PROVE Paid(d)'
    BY <1>0, <1>4, PaidKept DEF Start, Goto, TypeOK, CallState, db
  <1>5. ASSUME NEW c \in Calls, Fault(c) PROVE Paid(d)'
    <2>1. /\ UNCHANGED trades /\ call[c].pc \in Waiting
          /\ call' = [call EXCEPT ![c].pc = AfterFailure(call[c].pc)]
      BY <1>5 DEF Fault, Goto, Active, db
    <2>2. /\ call[c].pc = "commit" => AfterFailure(call[c].pc) = "unmarked"
          /\ call[c].pc # "commit" =>
               AfterFailure(call[c].pc) \notin {"commit", "done", "unmarked"}
      BY DEF AfterFailure
    <2>3. QED
      BY <1>0, <2>1, <2>2, PaidKept DEF TypeOK, CallState, Waiting
  <1>6. CASE Crash
    BY <1>0, <1>6, PaidKept DEF Crash, Active, Waiting, TypeOK, CallState, db
  <1>7. CASE \E o \in Orders, t \in Tickets : Place(o, t)
    BY <1>0, <1>7, PaidKept DEF Place
  <1>8. CASE UNCHANGED vars
    BY <1>0, <1>8, PaidKept DEF vars, db
  <1>9. QED
    BY <1>1, <1>2, <1>3, <1>4, <1>5, <1>6, <1>7, <1>8 DEF Next, Step

LEMMA ExecutedNext ==
  Inv /\ TradeMeansPaid /\ ExecutedHasTrade /\ [Next]_vars => ExecutedHasTrade'
  <1> SUFFICES ASSUME Inv, TradeMeansPaid, ExecutedHasTrade, [Next]_vars,
                      NEW o \in Orders, orders'[o] # NoOrder, orders'[o].status = "EXECUTED"
               PROVE  \E t \in trades' : t.order = o /\ t.price = orders'[o].price
    BY DEF ExecutedHasTrade
  <1> USE DEF Inv
  <1>1. trades \subseteq trades'
    BY DEF Next, Step, Place, Start, Quote, Debit, ReadHolding, Credit, Reject, FindPosition,
           Upsert, Reduce, RecordTrade, Commit, Undo, Fault, Crash, vars, db
  <1>2. ASSUME NEW c \in Calls, Commit(c), call[c].order = o
        PROVE  \E t \in trades' : t.order = o /\ t.price = orders'[o].price
    BY <1>1, <1>2 DEF Commit, TradeMeansPaid, TypeOK, OrderDoc
  <1>3. CASE orders'[o] = orders[o]
    BY <1>1, <1>3 DEF ExecutedHasTrade
  <1>4. CASE orders'[o] # orders[o]
    <2>1. ASSUME NEW p \in Orders, NEW t \in Tickets, Place(p, t) PROVE FALSE
      BY <1>4, <2>1 DEF Place, NewOrder, TypeOK
    <2>2. ASSUME NEW c \in Calls, Reject(c) PROVE FALSE
      BY <1>4, <2>2 DEF Reject, TypeOK, OrderDoc
    <2>3. ASSUME NEW c \in Calls, Commit(c) PROVE call[c].order = o
      BY <1>4, <2>3 DEF Commit, TypeOK
    <2>4. \/ \E p \in Orders, t \in Tickets : Place(p, t)
          \/ \E c \in Calls : Reject(c) \/ Commit(c)
      BY <1>4 DEF Next, Step, Start, Quote, Debit, ReadHolding, Credit, FindPosition,
                  Upsert, Reduce, RecordTrade, Undo, Fault, Crash, vars, db
    <2>5. QED
      BY <1>2, <2>1, <2>2, <2>3, <2>4
  <1>5. QED
    BY <1>3, <1>4

(* A call leaves a trade exactly when its money movement stands.           *)
THEOREM TradesArePaidFor == Spec => []TradeMeansPaid
  <1>1. Init => TradeMeansPaid
    BY DEF Init, IdleCall, TradeMeansPaid
  <1>2. QED
    BY <1>1, InvInit, InvNext, PaidNext, PTL DEF Spec

(* EXECUTED is written last: an order that reads EXECUTED has its trade,   *)
(* whichever calls race on it, fail or crash.                              *)
THEOREM ExecutedOrdersHaveTrades == Spec => []ExecutedHasTrade
  <1>1. Init => TradeMeansPaid /\ ExecutedHasTrade
    BY DEF Init, IdleCall, TradeMeansPaid, ExecutedHasTrade
  <1>2. QED
    BY <1>1, InvInit, InvNext, PaidNext, ExecutedNext, PTL DEF Spec

(* Only the reversal of a SELL can take the cash below zero.               *)
THEOREM SpendingNeverOverdraws == Spec => OverdraftOnlyByReversal
  <1> DEFINE Explained == (cash' < cash /\ cash' < 0) =>
                \E c \in Calls : call[c].pc = "undo" /\ Ticket(c).side = "SELL"
  <1>1. Inv /\ [Next]_vars => [Explained]_vars
    <2> SUFFICES ASSUME Inv, [Next]_vars, cash' < cash, cash' < 0
                 PROVE  \E c \in Calls : call[c].pc = "undo" /\ Ticket(c).side = "SELL"
      OBVIOUS
    <2>1. cash \in Int
      BY DEF Inv, TypeOK
    <2>2. PICK c \in Calls : Debit(c) \/ Credit(c) \/ Undo(c)
      <3>1. ~ cash < cash
        BY <2>1
      <3>2. cash' # cash
        BY <3>1
      <3>3. QED
        BY <3>2 DEF Next, Step, Place, Start, Quote, ReadHolding, Reject, FindPosition,
           Upsert, Reduce, RecordTrade, Commit, Fault, Crash, vars, db
    <2>3. Cost(c) \in Nat
      BY <2>2, AmountFacts DEF Debit, Credit, Undo, HasPrice, Waiting
    <2>4. Undo(c) /\ call[c].ticket.side # "BUY"
      BY <2>1, <2>2, <2>3 DEF Debit, Affordable, Credit, Undo, Ticket
    <2>5. call[c].ticket.side \in {"BUY", "SELL"}
      BY <2>4, TicketFacts DEF Undo, Inv, CallOK, HasTicket, Waiting
    <2>6. QED
      BY <2>4, <2>5 DEF Undo, Ticket
  <1>2. QED
    BY <1>1, InvInit, InvNext, PTL DEF Spec, OverdraftOnlyByReversal
-----------------------------------------------------------------------------
(* Orders that are run once.                                               *)

(* A call under way runs a stored order, and on a symbol without overlaps  *)
(* it is alone and finds its order PENDING until it says otherwise.        *)
RunsAlone ==
  /\ \A c \in Calls : Active(c) =>
       /\ orders[call[c].order] # NoOrder
       /\ call[c].ticket = orders[call[c].order].ticket
       /\ Sym(c) \notin overlapped => orders[call[c].order].status = "PENDING"
  /\ \A c, d \in Calls : Active(c) /\ Active(d) /\ c # d /\ Sym(c) = Sym(d) =>
       Sym(c) \in overlapped

\* A trade is that of a stored order.
OfOrder(t) == orders[t.order] # NoOrder /\ orders[t.order].ticket = t.ticket

\* The call that made a trade has marked its order, is about to, or broke off.
Marked(t) ==
  \/ call[t.id].pc \in {"unmarked", "crashed"}
  \/ call[t.id].pc = "commit" /\ call[t.id].order = t.order
  \/ orders[t.order].status = "EXECUTED"

TradesMarked ==
  \A t \in trades : OfOrder(t) /\ (t.ticket.symbol \notin overlapped => Marked(t))

OnceInv ==
  Inv /\ TradeMeansPaid /\ RunsAlone /\ TradesMarked /\ SecondTradeExplained

LEMMA OnceInit == Init => OnceInv
  <1> SUFFICES ASSUME Init PROVE OnceInv
    OBVIOUS
  <1>1. trades = {} /\ \A c \in Calls : call[c].pc = "idle"
    BY DEF Init, IdleCall
  <1>2. QED
    BY <1>1, InvInit
    DEF OnceInv, TradeMeansPaid, RunsAlone, TradesMarked, SecondTradeExplained, Active, Waiting

(* On a symbol without overlaps the order changed was PENDING.             *)
LEMMA OwnOrderOnly ==
  ASSUME OnceInv, NEW c \in Calls, Step(c) \/ Fault(c), NEW o \in Orders, orders'[o] # orders[o]
  PROVE  /\ o = call[c].order /\ call[c].pc \in {"reject", "commit"} /\ orders[o] # NoOrder
         /\ ~Active(c)' /\ UNCHANGED trades /\ orders[o].ticket = call[c].ticket
         /\ call[c].pc = "commit" => orders'[o].status = "EXECUTED" /\ call'[c].pc = "done"
         /\ Sym(c) \notin overlapped => orders[o].status = "PENDING"
  BY MarksItsOwn DEF OnceInv, RunsAlone, Active, Waiting

(* What was unmarked stays so; a call about to mark its order does, or     *)
(* breaks off.                                                             *)
LEMMA MarkedStays ==
  ASSUME OnceInv, NEW c \in Calls, Step(c) \/ Fault(c),
         NEW t \in trades, t.ticket.symbol \notin overlapped
  PROVE  Marked(t)'
  <1>1. /\ t.id \in Calls /\ t.order \in Orders /\ OfOrder(t) /\ Marked(t)
    BY DEF OnceInv, Inv, TypeOK, Trade, TradesMarked
  <1>2. Active(c) /\ \A d \in Calls : d # c => call'[d] = call[d]
    BY StepStaysHome DEF OnceInv
  <1>3. CASE call[t.id].pc \in {"unmarked", "crashed"}
    BY <1>1, <1>2, <1>3 DEF Marked, Active, Waiting
  <1>4. CASE call[t.id].pc = "commit" /\ call[t.id].order = t.order
    <2>1. CASE t.id # c
      BY <1>1, <1>2, <1>4, <2>1 DEF Marked
    <2>2. CASE t.id = c
      BY <1>1, <1>4, <2>2, CommitMarks DEF Marked, OnceInv
    <2>3. QED
      BY <2>1, <2>2
  <1>5. CASE orders[t.order].status = "EXECUTED"
    <2>1. orders'[t.order] = orders[t.order]
      BY <1>1, <1>5, OwnOrderOnly DEF OfOrder, Sym, Ticket
    <2>2. QED
      BY <1>5, <2>1 DEF Marked
  <1>6. QED
    BY <1>1, <1>3, <1>4, <1>5 DEF Marked

(* The second trade of an order comes after the first broke off.           *)
LEMMA RecordExplained ==
  ASSUME OnceInv, NEW c \in Calls, RecordTrade(c),
         NEW t \in trades, t.order = call[c].order, Sym(c) \notin overlapped
  PROVE  call[t.id].pc \in {"unmarked", "crashed"}
  <1>1. Active(c) /\ call[c].pc = "trade"
    BY DEF RecordTrade, Active, Waiting
  <1>2. /\ orders[t.order].status = "PENDING" /\ orders[t.order].ticket = call[c].ticket
        /\ t.ticket = call[c].ticket /\ t.id \in Calls
    BY <1>1 DEF OnceInv, RunsAlone, TradesMarked, OfOrder, Inv, TypeOK, Trade
  <1>3. Marked(t)
    BY <1>2 DEF OnceInv, TradesMarked, Sym, Ticket
  <1>4. ~(call[t.id].pc = "commit" /\ call[t.id].order = t.order)
    <2> SUFFICES ASSUME call[t.id].pc = "commit", call[t.id].order = t.order PROVE FALSE
      OBVIOUS
    <2>1. Active(t.id) /\ t.id # c
      BY <1>1 DEF Active, Waiting
    <2>2. call[t.id].ticket = call[c].ticket
      BY <1>2, <2>1 DEF OnceInv, RunsAlone
    <2>3. QED
      BY <1>1, <1>2, <2>1, <2>2 DEF OnceInv, RunsAlone, Sym, Ticket
  <1>5. QED
    BY <1>2, <1>3, <1>4 DEF Marked

LEMMA OnceByStep ==
  ASSUME OnceInv, NEW c \in Calls, Step(c) \/ Fault(c)
  PROVE  RunsAlone' /\ TradesMarked' /\ SecondTradeExplained'
  <1>1. /\ Active(c) /\ UNCHANGED overlapped
        /\ \A d \in Calls : d # c => call'[d] = call[d]
    BY StepStaysHome DEF OnceInv
  <1>2. /\ \A o \in Orders :
             /\ orders'[o] = NoOrder <=> orders[o] = NoOrder
             /\ orders[o] # NoOrder => orders'[o].ticket = orders[o].ticket
        /\ \A d \in Calls :
             call'[d].order = call[d].order /\ call'[d].ticket = call[d].ticket
        /\ \A t \in trades' :
             \/ t \in trades
             \/ t.id = c /\ t.order = call[c].order /\ t.ticket = call[c].ticket
    BY EngineKeeps DEF OnceInv
  <1>3. \A d \in Calls : Active(d)' => Active(d)
    BY <1>1 DEF Active
  <1>4. \A d \in Calls : Active(d) => call[d].order \in Orders
    BY DEF OnceInv, Inv, CallOK, HasTicket, Active
  <1>5. RunsAlone'
    <2>1. ASSUME NEW d \in Calls, Active(d)'
          PROVE  /\ orders'[call'[d].order] # NoOrder
                 /\ call'[d].ticket = orders'[call'[d].order].ticket
                 /\ Sym(d)' \notin overlapped' => orders'[call'[d].order].status = "PENDING"
      <3>1. /\ Active(d) /\ call[d].order \in Orders /\ orders[call[d].order] # NoOrder
            /\ call[d].ticket = orders[call[d].order].ticket
            /\ Sym(d) \notin overlapped => orders[call[d].order].status = "PENDING"
        BY <1>3, <1>4, <2>1 DEF OnceInv, RunsAlone
      <3>2. ASSUME orders'[call[d].order] # orders[call[d].order] PROVE Sym(d) \in overlapped
        <4>1. d # c /\ Sym(d) = Sym(c)
          BY <2>1, <3>1, <3>2, OwnOrderOnly DEF Sym, Ticket
        <4>2. QED
          BY <1>1, <3>1, <4>1 DEF OnceInv, RunsAlone
      <3>3. QED
        BY <1>1, <1>2, <3>1, <3>2 DEF Sym, Ticket
    <2>2. \A d, e \in Calls : Active(d)' /\ Active(e)' /\ d # e /\ Sym(d)' = Sym(e)' =>
            Sym(d)' \in overlapped'
      BY <1>1, <1>2, <1>3 DEF OnceInv, RunsAlone, Sym, Ticket
    <2>3. QED
      BY <2>1, <2>2 DEF RunsAlone
  <1>6. ASSUME NEW t \in trades', t \notin trades
        PROVE  /\ RecordTrade(c) /\ call'[c].pc = "commit"
               /\ t = [id |-> c, order |-> call[c].order, ticket |-> Ticket(c),
                       price |-> call[c].price, pnl |-> Pnl(c)]
    <2>1. RecordTrade(c)
      BY <1>6 DEF Step, Quote, Debit, ReadHolding, Credit, Reject, FindPosition, Upsert, Reduce,
                  Commit, Undo, Fault, db
    <2>2. QED
      BY <1>6, <2>1 DEF RecordTrade, Goto, OnceInv, Inv, TypeOK, CallState
  <1>7. TradesMarked'
    <2> SUFFICES ASSUME NEW t \in trades'
                 PROVE  OfOrder(t)' /\ (t.ticket.symbol \notin overlapped' => Marked(t)')
      BY DEF TradesMarked
    <2>1. CASE t \in trades
      <3>1. OfOrder(t) /\ t.order \in Orders
        BY <2>1 DEF OnceInv, TradesMarked, Inv, TypeOK, Trade
      <3>2. QED
        BY <1>1, <1>2, <2>1, <3>1, MarkedStays DEF OfOrder
    <2>2. CASE t \notin trades
      <3>1. t.id = c /\ t.order = call[c].order /\ t.ticket = call[c].ticket
            /\ call'[c].pc = "commit"
        BY <1>6, <2>2 DEF Ticket
      <3>2. QED
        BY <1>1, <1>2, <1>4, <3>1 DEF OnceInv, RunsAlone, OfOrder, Marked
    <2>3. QED
      BY <2>1, <2>2
  <1>8. SecondTradeExplained'
    <2> SUFFICES ASSUME NEW t \in trades', NEW u \in trades', t.order = u.order, t # u,
                        t.ticket.symbol \notin overlapped
                 PROVE  \E d \in {t.id, u.id} : call'[d].pc \in {"unmarked", "crashed"}
      BY <1>1 DEF SecondTradeExplained
    <2>1. ASSUME NEW w \in trades, call[w.id].pc \in {"unmarked", "crashed"}
          PROVE  call'[w.id].pc \in {"unmarked", "crashed"}
      BY <1>1, <2>1 DEF OnceInv, Inv, TypeOK, Trade, Active, Waiting
    <2>2. CASE t \in trades /\ u \in trades
      BY <2>1, <2>2 DEF OnceInv, SecondTradeExplained
    <2>3. ASSUME NEW v \in trades', NEW w \in trades, v \notin trades, v.order = w.order
          PROVE  /\ w.ticket = v.ticket
                 /\ v.ticket.symbol \notin overlapped => call'[w.id].pc \in {"unmarked", "crashed"}
      <3>1. RecordTrade(c) /\ v.order = call[c].order /\ v.ticket = call[c].ticket
        BY <1>6, <2>3 DEF Ticket
      <3>2. w.ticket = v.ticket
        <4>1. orders[w.order].ticket = w.ticket
          BY DEF OnceInv, TradesMarked, OfOrder
        <4>2. orders[call[c].order].ticket = call[c].ticket
          BY <1>1 DEF OnceInv, RunsAlone
        <4>3. QED
          BY <2>3, <3>1, <4>1, <4>2
      <3>3. QED
        BY <2>1, <2>3, <3>1, <3>2, RecordExplained DEF Sym, Ticket
    <2>4. CASE t \notin trades /\ u \in trades
      BY <2>3, <2>4
    <2>5. CASE t \in trades /\ u \notin trades
      BY <2>3, <2>5
    <2>6. CASE t \notin trades /\ u \notin trades
      BY <1>6, <2>6
    <2>7. QED
      BY <2>2, <2>4, <2>5, <2>6
  <1>9. QED
    BY <1>5, <1>7, <1>8

LEMMA OnceByStart ==
  ASSUME OnceInv, NEW c \in Calls, NEW o \in Orders, Start(c, o)
  PROVE  RunsAlone' /\ TradesMarked' /\ SecondTradeExplained'
  <1>1. UNCHANGED db /\ call[c].pc = "idle" /\ overlapped \subseteq overlapped'
    BY DEF Start
  <1>2. UNCHANGED <<orders, trades>>
    BY <1>1 DEF db
  <1>3. /\ call \in [Calls -> CallState]
        /\ orders \in [Orders -> OrderDoc \cup {NoOrder}]
    BY DEF OnceInv, Inv, TypeOK
  <1>4. \A d \in Calls : d # c => call'[d] = call[d]
    BY <1>3 DEF Start, Goto
  <1>5. \/ call'[c].pc = "refused"
        \/ /\ Startable(o)
           /\ call'[c].pc = "quote" /\ call'[c].order = o
           /\ call'[c].ticket = orders[o].ticket
           /\ \A d \in Calls : d # c /\ Active(d) /\ Sym(d) = orders[o].ticket.symbol =>
                Sym(d) \in overlapped'
    BY <1>3 DEF Start, Goto, CallState
  <1>6. RunsAlone'
    <2>1. ASSUME NEW d \in Calls, Active(d)'
          PROVE  /\ orders'[call'[d].order] # NoOrder
                 /\ call'[d].ticket = orders'[call'[d].order].ticket
                 /\ Sym(d)' \notin overlapped' => orders'[call'[d].order].status = "PENDING"
      <3>1. CASE d = c
        BY <1>2, <1>5, <2>1, <3>1 DEF Startable, Active, Waiting
      <3>2. CASE d # c
        BY <1>1, <1>2, <1>4, <2>1, <3>2 DEF OnceInv, RunsAlone, Active, Sym, Ticket
      <3>3. QED
        BY <3>1, <3>2
    <2>2. ASSUME NEW d \in Calls, NEW e \in Calls, d # e, Active(d)', Active(e)',
                 Sym(d)' = Sym(e)'
          PROVE  Sym(d)' \in overlapped'
      <3>1. CASE d # c /\ e # c
        BY <1>1, <1>4, <2>2, <3>1 DEF OnceInv, RunsAlone, Active, Sym, Ticket
      <3>2. ASSUME NEW a \in Calls, a # c, Active(a)', Active(c)', Sym(a)' = Sym(c)'
            PROVE  Sym(a)' \in overlapped'
        BY <1>4, <1>5, <3>2 DEF Active, Sym, Ticket, Waiting
      <3>3. QED
        BY <2>2, <3>1, <3>2
    <2>3. QED
      BY <2>1, <2>2 DEF RunsAlone
  <1>7. ASSUME NEW t \in trades
        PROVE  /\ OfOrder(t)' /\ (t.ticket.symbol \notin overlapped' => Marked(t)')
               /\ call[t.id].pc \in {"unmarked", "crashed"} => call'[t.id] = call[t.id]
    <2>1. t.id \in Calls /\ OfOrder(t) /\ (t.ticket.symbol \notin overlapped => Marked(t))
      BY DEF OnceInv, TradesMarked, Inv, TypeOK, Trade
    <2>2. call[t.id].pc \in {"unmarked", "crashed", "commit"} => call'[t.id] = call[t.id]
      BY <1>1, <1>4, <2>1
    <2>3. QED
      BY <1>1, <1>2, <2>1, <2>2 DEF OfOrder, Marked
  <1>8. SecondTradeExplained'
    BY <1>1, <1>2, <1>7 DEF OnceInv, SecondTradeExplained
  <1>9. QED
    BY <1>2, <1>6, <1>7, <1>8 DEF TradesMarked

LEMMA OnceNext == OnceInv /\ [Next]_vars => OnceInv'
  <1> SUFFICES ASSUME OnceInv, [Next]_vars PROVE OnceInv'
    OBVIOUS
  <1>1. Inv' /\ TradeMeansPaid'
    BY InvNext, PaidNext DEF OnceInv
  <1>2. CASE \E o \in Orders, t \in Tickets : Place(o, t)
    <2>1. PICK o \in Orders, t \in Tickets : Place(o, t)
      BY <1>2
    <2>2. UNCHANGED <<call, trades, overlapped>>
          /\ \A p \in Orders : orders[p] # NoOrder => orders'[p] = orders[p]
      BY <2>1 DEF Place, NewOrder, env, OnceInv, Inv, TypeOK
    <2>3. \A d \in Calls : Active(d) => call[d].order \in Orders
      BY DEF OnceInv, Inv, CallOK, HasTicket, Active
    <2>4. \A u \in trades : u.order \in Orders
      BY DEF OnceInv, Inv, TypeOK, Trade
    <2>5. RunsAlone'
      BY <2>2, <2>3 DEF OnceInv, RunsAlone, Active, Sym, Ticket
    <2>6. TradesMarked'
      BY <2>2, <2>4 DEF OnceInv, TradesMarked, OfOrder, Marked
    <2>7. SecondTradeExplained'
      BY <2>2 DEF OnceInv, SecondTradeExplained
    <2>8. QED
      BY <1>1, <2>5, <2>6, <2>7 DEF OnceInv
  <1>3. CASE \E c \in Calls, o \in Orders : Start(c, o)
    BY <1>1, <1>3, OnceByStart DEF OnceInv
  <1>4. CASE \E c \in Calls : Step(c) \/ Fault(c)
    BY <1>1, <1>4, OnceByStep DEF OnceInv
  <1>5. CASE Crash
    <2>1. /\ UNCHANGED <<orders, trades, overlapped>>
          /\ \A d \in Calls : ~Active(d)' /\ call'[d].pc \in {call[d].pc, "crashed"}
                              /\ (Active(d) => call'[d].pc = "crashed")
      BY <1>5, CrashKeeps DEF OnceInv, Active, Waiting
    <2>2. \A t \in trades : t.id \in Calls
      BY DEF OnceInv, Inv, TypeOK, Trade
    <2>3. RunsAlone' /\ TradesMarked'
      BY <2>1, <2>2 DEF OnceInv, RunsAlone, TradesMarked, OfOrder, Marked, Active, Waiting
    <2>4. SecondTradeExplained'
      BY <2>1, <2>2 DEF OnceInv, SecondTradeExplained
    <2>5. QED
      BY <1>1, <2>3, <2>4 DEF OnceInv
  <1>6. CASE UNCHANGED vars
    <2>1. UNCHANGED <<orders, trades, call, overlapped>>
      BY <1>6 DEF vars, db, env
    <2>2. QED
      BY <1>1, <2>1 DEF OnceInv, RunsAlone, TradesMarked, SecondTradeExplained, OfOrder, Marked,
                        Active, Sym, Ticket
  <1>7. QED
    BY <1>2, <1>3, <1>4, <1>5, <1>6 DEF Next

(* An order trades twice only through calls that overlapped, or after one  *)
(* that recorded its trade could not mark the order (executeOrder 142-180).*)
THEOREM SecondTradesExplained == Spec => []SecondTradeExplained
  <1>1. OnceInv => SecondTradeExplained
    BY DEF OnceInv
  <1>2. QED
    BY <1>1, OnceInit, OnceNext, PTL DEF Spec

(* An order leaves EXECUTED, or its price is written again, only on a      *)
(* symbol whose executions overlapped.                                     *)
THEOREM FillsStand == Spec => FilledForGood
  <1> DEFINE Stands ==
        \A o \in Orders :
          (orders[o] # NoOrder /\ orders[o].status = "EXECUTED" /\ orders'[o] # orders[o]) =>
            orders[o].ticket.symbol \in overlapped
  <1>1. OnceInv /\ [Next]_vars => [Stands]_vars
    <2> SUFFICES ASSUME OnceInv, [Next]_vars, NEW o \in Orders,
                        orders[o] # NoOrder, orders[o].status = "EXECUTED", orders'[o] # orders[o]
                 PROVE  orders[o].ticket.symbol \in overlapped
      OBVIOUS
    <2>1. ASSUME NEW p \in Orders, NEW t \in Tickets, Place(p, t) PROVE FALSE
      BY <2>1 DEF Place, NewOrder, OnceInv, Inv, TypeOK
    <2>2. PICK c \in Calls : Step(c)
      BY <2>1 DEF Next, Start, Fault, Crash, vars, db
    <2>3. QED
      BY <2>2, OwnOrderOnly DEF Sym, Ticket
  <1>2. QED
    BY <1>1, OnceInit, OnceNext, PTL DEF Spec, FilledForGood

-----------------------------------------------------------------------------
(* The books.  Two sums account for each balance: over the trades, and     *)
(* over the calls between their movement of money and their trade.  The    *)
(* induction needs both sums finite, a call that is yet to record its      *)
(* trade not among the traders, and amounts for the calls stranded.        *)

CountsFinite == IsFiniteSet(trades) /\ IsFiniteSet({c \in Calls : Started(c)})

\* A trade is that of a call past the recording of it.
TradersPast ==
  \A t \in trades : call[t.id].pc \in {"commit", "done", "unmarked", "crashed"}

\* A movement without a trade has an amount and a P&L.
MovedOK ==
  \A c \in Unaccounted :
    /\ call[c].ticket \in Tickets /\ call[c].price \in Prices
    /\ call[c].ticket.side = "SELL" => call[c].row \in Row

Books ==
  /\ cash = InitialCash + SumFunction(TradeProceeds) + SumFunction(MovedProceeds)
  /\ realised = SumFunction(TradePnl) + SumFunction(MovedPnl)

BookInv == Inv /\ CountsFinite /\ TradersPast /\ MovedOK

(* The amounts summed are integers.                                        *)
LEMMA ProceedsInt ==
  ASSUME NEW t \in Tickets, NEW p \in Prices
  PROVE  Proceeds(t, p) \in Int /\ p * t.qty \in Int
  <1>1. p \in Int /\ t.qty \in Int
    BY PriceFacts, TicketFacts
  <1>2. \A m, n \in Int : m * n \in Int /\ -(m * n) \in Int
    OBVIOUS
  <1> QED
    BY <1>1, <1>2 DEF Proceeds

LEMMA MovedAmounts ==
  ASSUME MovedOK, NEW c \in Unaccounted
  PROVE  Proceeds(Ticket(c), call[c].price) \in Int /\ Pnl(c) \in Int
  <1>1. call[c].ticket \in Tickets /\ call[c].price \in Prices
    BY DEF MovedOK
  <1>2. Proceeds(Ticket(c), call[c].price) \in Int
    BY <1>1, ProceedsInt DEF Ticket
  <1>3. CASE call[c].ticket.side = "SELL"
    <2>1. call[c].row.avg \in Int /\ call[c].price \in Int /\ call[c].ticket.qty \in Int
      BY <1>1, <1>3, PriceFacts, TicketFacts DEF MovedOK, Row
    <2>2. \A a, b, q \in Int : (a - b) * q \in Int
      OBVIOUS
    <2> QED
      BY <1>2, <1>3, <2>1, <2>2 DEF Pnl, Ticket
  <1>4. CASE call[c].ticket.side # "SELL"
    BY <1>2, <1>4 DEF Pnl, Ticket
  <1> QED
    BY <1>3, <1>4

LEMMA TradeAmounts ==
  ASSUME Inv, NEW t \in trades
  PROVE  Proceeds(t.ticket, t.price) \in Int /\ t.pnl \in Int
  <1>1. t.ticket \in Tickets /\ t.price \in Prices /\ t.pnl \in Int
    BY DEF Inv, TypeOK, Trade
  <1> QED
    BY <1>1, ProceedsInt

(* The calls with a movement, and the trades, are finitely many.           *)
LEMMA MovedFinite ==
  ASSUME CountsFinite
  PROVE  IsFiniteSet(Unaccounted)
  <1>1. Unaccounted \subseteq {c \in Calls : Started(c)}
    BY DEF Unaccounted, Started
  <1> QED
    BY <1>1, FS_Subset DEF CountsFinite

(* The four sums, as sums over a set.                                      *)
LEMMA SumsUnfolded ==
  /\ SumFunction(TradeProceeds) = SumFunctionOnSet(TradeProceeds, trades)
  /\ SumFunction(TradePnl) = SumFunctionOnSet(TradePnl, trades)
  /\ SumFunction(MovedProceeds) = SumFunctionOnSet(MovedProceeds, Unaccounted)
  /\ SumFunction(MovedPnl) = SumFunctionOnSet(MovedPnl, Unaccounted)
  BY DEF SumFunction, TradeProceeds, TradePnl, MovedProceeds, MovedPnl

LEMMA SumsAreInt ==
  ASSUME BookInv
  PROVE  /\ SumFunction(TradeProceeds) \in Int /\ SumFunction(TradePnl) \in Int
         /\ SumFunction(MovedProceeds) \in Int /\ SumFunction(MovedPnl) \in Int
  <1>1. IsFiniteSet(trades) /\ IsFiniteSet(Unaccounted)
    BY MovedFinite DEF BookInv, CountsFinite
  <1>2. /\ \A t \in trades : TradeProceeds[t] \in Int /\ TradePnl[t] \in Int
        /\ \A c \in Unaccounted : MovedProceeds[c] \in Int /\ MovedPnl[c] \in Int
    BY TradeAmounts, MovedAmounts DEF BookInv, TradeProceeds, TradePnl, MovedProceeds, MovedPnl
  <1> QED
    BY <1>1, <1>2, SumsUnfolded, SumInt

(* A step that leaves both balances, the trades, and the movements alone.  *)
LEMMA MovedKept ==
  ASSUME NEW c \in Calls, \A d \in Calls \ {c} : call'[d] = call[d],
         (c \in Unaccounted)' <=> c \in Unaccounted,
         c \in Unaccounted =>
           call'[c].price = call[c].price /\ Ticket(c)' = Ticket(c) /\ Pnl(c)' = Pnl(c)
  PROVE  MovedProceeds' = MovedProceeds /\ MovedPnl' = MovedPnl
  <1>1. \A d \in Calls : (d \in Unaccounted)' <=> d \in Unaccounted
    BY DEF Unaccounted
  <1>2. Unaccounted' = Unaccounted
    BY <1>1 DEF Unaccounted
  <1>3. \A d \in Unaccounted :
          call'[d].price = call[d].price /\ Ticket(d)' = Ticket(d) /\ Pnl(d)' = Pnl(d)
    BY DEF Unaccounted, Ticket, Pnl
  <1>4. MovedProceeds' = [d \in Unaccounted |-> Proceeds(Ticket(d), call[d].price)]
    BY <1>2, <1>3 DEF MovedProceeds, Proceeds
  <1>5. MovedPnl' = [d \in Unaccounted |-> Pnl(d)]
    BY <1>2, <1>3 DEF MovedPnl
  <1> QED
    BY <1>4, <1>5 DEF MovedProceeds, MovedPnl

LEMMA BooksKept ==
  ASSUME Books, UNCHANGED <<cash, realised, trades>>,
         MovedProceeds' = MovedProceeds, MovedPnl' = MovedPnl
  PROVE  Books'
  <1>1. TradeProceeds' = TradeProceeds /\ TradePnl' = TradePnl
    BY DEF TradeProceeds, TradePnl
  <1> QED
    BY <1>1 DEF Books

(* A call joins those with a movement, or leaves them.                     *)
LEMMA MovedJoins ==
  ASSUME BookInv, NEW c \in Calls, \A d \in Calls \ {c} : call'[d] = call[d],
         c \notin Unaccounted, (c \in Unaccounted)',
         call'[c].price = call[c].price, Ticket(c)' = Ticket(c), Pnl(c)' = Pnl(c),
         Proceeds(Ticket(c), call[c].price) \in Int, Pnl(c) \in Int
  PROVE  /\ SumFunction(MovedProceeds)'
              = SumFunction(MovedProceeds) + Proceeds(Ticket(c), call[c].price)
         /\ SumFunction(MovedPnl)' = SumFunction(MovedPnl) + Pnl(c)
  <1>1. Unaccounted' = Unaccounted \cup {c}
    BY DEF Unaccounted
  <1>2. IsFiniteSet(Unaccounted)
    BY MovedFinite DEF BookInv
  <1>3. \A d \in Unaccounted :
          /\ MovedProceeds[d] \in Int /\ MovedProceeds'[d] = MovedProceeds[d]
          /\ MovedPnl[d] \in Int /\ MovedPnl'[d] = MovedPnl[d]
    <2> SUFFICES ASSUME NEW d \in Unaccounted
                 PROVE  /\ MovedProceeds[d] \in Int /\ MovedProceeds'[d] = MovedProceeds[d]
                        /\ MovedPnl[d] \in Int /\ MovedPnl'[d] = MovedPnl[d]
      OBVIOUS
    <2>1. d \in Calls \ {c} /\ d \in Unaccounted' /\ call'[d] = call[d]
      BY <1>1 DEF Unaccounted
    <2>2. Ticket(d)' = Ticket(d) /\ Pnl(d)' = Pnl(d)
      BY <2>1 DEF Ticket, Pnl
    <2> QED
      BY <2>1, <2>2, MovedAmounts DEF BookInv, MovedProceeds, MovedPnl, Proceeds
  <1>4. /\ MovedProceeds'[c] = Proceeds(Ticket(c), call[c].price)
        /\ MovedPnl'[c] = Pnl(c)
    BY <1>1 DEF MovedProceeds, MovedPnl, Proceeds
  <1>5. SumFunctionOnSet(MovedProceeds', Unaccounted')
          = SumFunctionOnSet(MovedProceeds, Unaccounted) + MovedProceeds'[c]
    BY <1>1, <1>2, <1>3, <1>4, SumGain
  <1>7. SumFunctionOnSet(MovedPnl', Unaccounted')
          = SumFunctionOnSet(MovedPnl, Unaccounted) + MovedPnl'[c]
    BY <1>1, <1>2, <1>3, <1>4, SumGain
  <1>6. /\ SumFunction(MovedProceeds)' = SumFunctionOnSet(MovedProceeds', Unaccounted')
        /\ SumFunction(MovedPnl)' = SumFunctionOnSet(MovedPnl', Unaccounted')
    BY DEF SumFunction, MovedProceeds, MovedPnl
  <1> QED
    BY <1>4, <1>5, <1>6, <1>7, SumsUnfolded

LEMMA MovedLeaves ==
  ASSUME BookInv, NEW c \in Calls, \A d \in Calls \ {c} : call'[d] = call[d],
         c \in Unaccounted, ~(c \in Unaccounted)'
  PROVE  /\ SumFunction(MovedProceeds)'
              = SumFunction(MovedProceeds) - Proceeds(Ticket(c), call[c].price)
         /\ SumFunction(MovedPnl)' = SumFunction(MovedPnl) - Pnl(c)
  <1>1. Unaccounted' = Unaccounted \ {c}
    BY DEF Unaccounted
  <1>2. IsFiniteSet(Unaccounted)
    BY MovedFinite DEF BookInv
  <1>3. \A d \in Unaccounted : MovedProceeds[d] \in Int /\ MovedPnl[d] \in Int
    BY MovedAmounts DEF BookInv, MovedProceeds, MovedPnl
  <1>4. \A d \in Unaccounted : d # c =>
          MovedProceeds'[d] = MovedProceeds[d] /\ MovedPnl'[d] = MovedPnl[d]
    <2> SUFFICES ASSUME NEW d \in Unaccounted, d # c
                 PROVE  MovedProceeds'[d] = MovedProceeds[d] /\ MovedPnl'[d] = MovedPnl[d]
      OBVIOUS
    <2>1. d \in Calls \ {c} /\ d \in Unaccounted' /\ call'[d] = call[d]
      BY <1>1 DEF Unaccounted
    <2>2. Ticket(d)' = Ticket(d) /\ Pnl(d)' = Pnl(d)
      BY <2>1 DEF Ticket, Pnl
    <2> QED
      BY <2>1, <2>2 DEF MovedProceeds, MovedPnl, Proceeds
  <1>5. SumFunctionOnSet(MovedProceeds', Unaccounted')
          = SumFunctionOnSet(MovedProceeds, Unaccounted) - MovedProceeds[c]
    BY <1>1, <1>2, <1>3, <1>4, SumLoss
  <1>8. SumFunctionOnSet(MovedPnl', Unaccounted')
          = SumFunctionOnSet(MovedPnl, Unaccounted) - MovedPnl[c]
    BY <1>1, <1>2, <1>3, <1>4, SumLoss
  <1>6. /\ SumFunction(MovedProceeds)' = SumFunctionOnSet(MovedProceeds', Unaccounted')
        /\ SumFunction(MovedPnl)' = SumFunctionOnSet(MovedPnl', Unaccounted')
    BY DEF SumFunction, MovedProceeds, MovedPnl
  <1>7. MovedProceeds[c] = Proceeds(Ticket(c), call[c].price) /\ MovedPnl[c] = Pnl(c)
    BY DEF MovedProceeds, MovedPnl
  <1> QED
    BY <1>5, <1>6, <1>7, <1>8, SumsUnfolded

(* A call that moves on keeps what its amounts are made of.                *)
LEMMA GotoKeeps ==
  ASSUME Inv, NEW c \in Calls, NEW pc, Goto(c, pc)
  PROVE  /\ call'[c].pc = pc /\ call'[c].price = call[c].price
         /\ Ticket(c)' = Ticket(c) /\ Pnl(c)' = Pnl(c)
         /\ \A d \in Calls \ {c} : call'[d] = call[d]
  <1>1. call \in [Calls -> CallState] /\ call' = [call EXCEPT ![c].pc = pc]
    BY DEF Inv, TypeOK, Goto
  <1>2. /\ call'[c].pc = pc /\ call'[c].price = call[c].price
        /\ call'[c].ticket = call[c].ticket /\ call'[c].row = call[c].row
    BY <1>1 DEF CallState
  <1> QED
    BY <1>1, <1>2 DEF Ticket, Pnl

LEMMA BookInvInit == Init => BookInv /\ Books
  <1> SUFFICES ASSUME Init PROVE BookInv /\ Books
    OBVIOUS
  <1>1. /\ trades = {} /\ Unaccounted = {} /\ cash = InitialCash /\ realised = 0
        /\ {c \in Calls : Started(c)} = {}
    BY DEF Init, IdleCall, Unaccounted, Started
  <1>2. CountsFinite /\ TradersPast /\ MovedOK
    BY <1>1, FS_EmptySet DEF CountsFinite, TradersPast, MovedOK
  <1>3. /\ SumFunctionOnSet(TradeProceeds, {}) = 0 /\ SumFunctionOnSet(TradePnl, {}) = 0
        /\ SumFunctionOnSet(MovedProceeds, {}) = 0 /\ SumFunctionOnSet(MovedPnl, {}) = 0
    BY SumEmpty
  <1>4. InitialCash \in Int
    BY OrderExecutionAssumption
  <1>5. Books
    BY <1>1, <1>3, <1>4, SumsUnfolded DEF Books
  <1> QED
    BY <1>2, <1>5, InvInit DEF BookInv

(* A step without a failure strands no call.                               *)
LEMMA StepMoves ==
  ASSUME Inv, NEW c \in Calls, Step(c)
  PROVE  call'[c].pc # "stranded"
  <1>1. call \in [Calls -> CallState]
    BY DEF Inv, TypeOK
  <1>2. CASE Quote(c)
    BY <1>1, <1>2 DEF Quote, Goto, CallState
  <1>3. CASE Debit(c) \/ Credit(c) \/ Reject(c) \/ RecordTrade(c) \/ Undo(c)
    BY <1>1, <1>3 DEF Debit, Credit, Reject, RecordTrade, Undo, Goto, CallState
  <1>4. CASE ReadHolding(c) \/ FindPosition(c)
    BY <1>1, <1>4 DEF ReadHolding, FindPosition, Goto, CallState
  <1>5. CASE Upsert(c) \/ Reduce(c) \/ Commit(c)
    BY <1>1, <1>5 DEF Upsert, Reduce, Commit, Goto, CallState
  <1> QED
    BY <1>2, <1>3, <1>4, <1>5 DEF Step

LEMMA BookInvByStep ==
  ASSUME BookInv, Inv', NEW c \in Calls, Step(c) \/ Fault(c)
  PROVE  CountsFinite' /\ TradersPast' /\ MovedOK'
  <1>0. Inv /\ CountsFinite /\ TradersPast /\ MovedOK
    BY DEF BookInv
  <1>1. Active(c) /\ \A d \in Calls : d # c => call'[d] = call[d]
    BY <1>0, StepStaysHome
  <1>2. \/ trades' = trades
        \/ /\ call'[c].pc = "commit"
           /\ \E t : t.id = c /\ trades' = trades \cup {t}
    <2>1. CASE RecordTrade(c)
      <3>1. Goto(c, "commit")
        BY <2>1 DEF RecordTrade
      <3>2. call'[c].pc = "commit"
        BY <1>0, <3>1, GotoKeeps
      <3> DEFINE t == [id |-> c, order |-> call[c].order, ticket |-> Ticket(c),
                       price |-> call[c].price, pnl |-> Pnl(c)]
      <3>3. t.id = c /\ trades' = trades \cup {t}
        BY <2>1 DEF RecordTrade
      <3> QED
        BY <3>2, <3>3
    <2>2. CASE ~RecordTrade(c)
      BY <2>2 DEF Step, Quote, Debit, ReadHolding, Credit, Reject, FindPosition, Upsert, Reduce,
                  Commit, Undo, Fault, db
    <2> QED
      BY <2>1, <2>2
  <1>3. \A d \in Calls : Started(d)' <=> Started(d)
    BY <1>0, EngineKeeps
  <1>4. {d \in Calls : Started(d)}' = {d \in Calls : Started(d)}
    BY <1>3
  <1>5. CountsFinite'
    BY <1>0, <1>2, <1>4, FS_AddElement DEF CountsFinite
  <1>6. TradersPast'
    <2> SUFFICES ASSUME NEW t \in trades'
                 PROVE  call'[t.id].pc \in {"commit", "done", "unmarked", "crashed"}
      BY DEF TradersPast
    <2>1. CASE t \notin trades
      BY <1>2, <2>1
    <2>2. CASE t \in trades /\ t.id # c
      BY <1>0, <1>1, <2>2 DEF TradersPast, Inv, TypeOK, Trade
    <2>3. CASE t \in trades /\ t.id = c
      <3>1. call[c].pc = "commit"
        BY <1>0, <1>1, <2>3 DEF TradersPast, Active, Waiting
      <3> QED
        BY <1>0, <2>3, <3>1, CommitMarks
    <2> QED
      BY <2>1, <2>2, <2>3
  <1>7. MovedOK'
    <2> SUFFICES ASSUME NEW d \in Calls, (d \in Unaccounted)'
                 PROVE  /\ call'[d].ticket \in Tickets /\ call'[d].price \in Prices
                        /\ call'[d].ticket.side = "SELL" => call'[d].row \in Row
      BY DEF MovedOK, Unaccounted
    <2>1. CASE d # c
      BY <1>0, <1>1, <2>1 DEF MovedOK, Unaccounted
    <2>2. CASE d = c /\ call'[c].pc # "stranded"
      <3>1. call'[c].pc \in {"find", "upsert", "reduce", "trade", "undo"} /\ CallOK(c)'
        BY <2>2 DEF Unaccounted, Inv
      <3> QED
        BY <2>2, <3>1 DEF CallOK, HasTicket, HasPrice, Buying, HoldsRow, Waiting
    <2>3. CASE d = c /\ call'[c].pc = "stranded"
      <3>1. Fault(c) /\ call[c].pc = "undo"
        <4>1. ~Step(c)
          BY <1>0, <2>3, StepMoves DEF Step
        <4>2. Fault(c) /\ Goto(c, AfterFailure(call[c].pc))
          BY <4>1 DEF Fault
        <4>3. AfterFailure(call[c].pc) = "stranded"
          BY <1>0, <2>3, <4>2, GotoKeeps
        <4> QED
          BY <4>2, <4>3 DEF AfterFailure
      <3>2. /\ call'[c].ticket = call[c].ticket /\ call'[c].price = call[c].price
            /\ call'[c].row = call[c].row
        BY <1>0, <3>1 DEF Fault, Goto, Inv, TypeOK, CallState
      <3>3. CallOK(c)
        BY <1>0 DEF Inv
      <3> QED
        BY <2>3, <3>1, <3>2, <3>3 DEF CallOK, HasTicket, HasPrice, HoldsRow, Waiting
    <2> QED
      BY <2>1, <2>2, <2>3
  <1> QED
    BY <1>5, <1>6, <1>7

(* A debit or a credit: the call joins those with a movement.              *)
LEMMA BooksByMove ==
  ASSUME BookInv, Books, NEW c \in Calls, (Debit(c) /\ Affordable(c)) \/ Credit(c)
  PROVE  Books'
  <1>0. Inv /\ call[c].pc \in {"debit", "credit"}
    BY DEF BookInv, Debit, Credit
  <1>1. HasPrice(c) /\ call[c].ticket \in Tickets /\ call[c].price \in Prices
    BY <1>0 DEF Inv, CallOK, HasPrice, HasTicket, Waiting
  <1>2. /\ cash \in Int /\ realised \in Int /\ Cost(c) \in Int
        /\ Proceeds(Ticket(c), call[c].price) \in Int
    BY <1>0, <1>1, ProceedsInt DEF Cost, Ticket, Inv, TypeOK
  <1>3. Debit(c) => call[c].ticket.side = "BUY"
    BY <1>0 DEF Debit, Inv, CallOK, Buying
  <1>4. Credit(c) => call[c].ticket.side = "SELL"
    BY <1>0 DEF Credit, Inv, CallOK, Selling
  <1>5. Pnl(c) \in Int /\ (Debit(c) => Pnl(c) = 0)
    BY <1>0, <1>1, <1>3, <1>4, AmountFacts DEF Pnl, Ticket, HoldsRow, Debit, Credit
  <1>6. PICK pc \in {"find", "reduce"} : Goto(c, pc)
    BY DEF Debit, Credit
  <1>7. /\ c \notin Unaccounted /\ (c \in Unaccounted)'
        /\ call'[c].price = call[c].price /\ Ticket(c)' = Ticket(c) /\ Pnl(c)' = Pnl(c)
        /\ \A d \in Calls \ {c} : call'[d] = call[d]
    BY <1>0, <1>6, GotoKeeps DEF Unaccounted
  <1>8. /\ SumFunction(MovedProceeds)'
             = SumFunction(MovedProceeds) + Proceeds(Ticket(c), call[c].price)
        /\ SumFunction(MovedPnl)' = SumFunction(MovedPnl) + Pnl(c)
    BY <1>2, <1>5, <1>7, MovedJoins
  <1>9. /\ cash' = cash + Proceeds(Ticket(c), call[c].price)
        /\ realised' = realised + Pnl(c)
    <2>1. CASE Debit(c)
      BY <1>0, <1>2, <1>3, <1>5, <2>1 DEF Debit, Credit, Proceeds, Cost, Ticket
    <2>2. CASE Credit(c)
      BY <1>4, <2>2 DEF Credit, Proceeds, Cost, Ticket
    <2> QED
      BY <2>1, <2>2
  <1>10. TradeProceeds' = TradeProceeds /\ TradePnl' = TradePnl
    BY DEF Debit, Credit, TradeProceeds, TradePnl
  <1> QED
    BY <1>2, <1>5, <1>8, <1>9, <1>10, SumsAreInt, OrderExecutionAssumption DEF Books

(* A movement reversed.                                                    *)
LEMMA BooksByUndo ==
  ASSUME BookInv, Books, NEW c \in Calls, Undo(c)
  PROVE  Books'
  <1>0. Inv /\ call[c].pc = "undo" /\ c \in Unaccounted
    BY DEF BookInv, Undo, Unaccounted
  <1>1. call[c].ticket \in Tickets /\ call[c].price \in Prices /\ Pnl(c) \in Int
    BY <1>0, MovedAmounts DEF BookInv, MovedOK
  <1>2. /\ cash \in Int /\ realised \in Int /\ Cost(c) \in Int
        /\ Proceeds(Ticket(c), call[c].price) \in Int
    BY <1>0, <1>1, ProceedsInt DEF Cost, Ticket, Inv, TypeOK
  <1>3. ~(c \in Unaccounted)' /\ \A d \in Calls \ {c} : call'[d] = call[d]
    BY <1>0, GotoKeeps DEF Undo, Unaccounted
  <1>4. /\ SumFunction(MovedProceeds)'
             = SumFunction(MovedProceeds) - Proceeds(Ticket(c), call[c].price)
        /\ SumFunction(MovedPnl)' = SumFunction(MovedPnl) - Pnl(c)
    BY <1>0, <1>3, MovedLeaves
  <1>5. /\ cash' = cash - Proceeds(Ticket(c), call[c].price)
        /\ realised' = realised - Pnl(c)
    <2>1. call[c].ticket.side \in {"BUY", "SELL"} /\ call[c].price * call[c].ticket.qty \in Int
      BY <1>1, TicketFacts, ProceedsInt
    <2> QED
      BY <1>2, <2>1 DEF Undo, Proceeds, Cost, Ticket
  <1>6. TradeProceeds' = TradeProceeds /\ TradePnl' = TradePnl
    BY DEF Undo, TradeProceeds, TradePnl
  <1> QED
    BY <1>1, <1>2, <1>4, <1>5, <1>6, SumsAreInt, OrderExecutionAssumption DEF Books

(* A trade recorded: it accounts for what the call's movement did.         *)
LEMMA BooksByTrade ==
  ASSUME BookInv, Books, NEW c \in Calls, RecordTrade(c)
  PROVE  Books'
  <1> DEFINE t == [id |-> c, order |-> call[c].order, ticket |-> Ticket(c),
                   price |-> call[c].price, pnl |-> Pnl(c)]
  <1>0. Inv /\ call[c].pc = "trade" /\ c \in Unaccounted /\ trades' = trades \cup {t}
    BY DEF BookInv, RecordTrade, Unaccounted
  <1>1. Pnl(c) \in Int /\ Proceeds(Ticket(c), call[c].price) \in Int
    BY <1>0, MovedAmounts DEF BookInv
  <1>2. ~(c \in Unaccounted)' /\ \A d \in Calls \ {c} : call'[d] = call[d]
    BY <1>0, GotoKeeps DEF RecordTrade, Unaccounted
  <1>3. /\ SumFunction(MovedProceeds)'
             = SumFunction(MovedProceeds) - Proceeds(Ticket(c), call[c].price)
        /\ SumFunction(MovedPnl)' = SumFunction(MovedPnl) - Pnl(c)
    BY <1>0, <1>2, MovedLeaves
  <1>4. /\ t.id = c /\ t.pnl = Pnl(c)
        /\ Proceeds(t.ticket, t.price) = Proceeds(Ticket(c), call[c].price)
    OBVIOUS
  <1> HIDE DEF t
  <1>5. t \notin trades
    BY <1>0, <1>4 DEF BookInv, TradersPast
  <1>6. IsFiniteSet(trades)
    BY DEF BookInv, CountsFinite
  <1>7. /\ TradeProceeds'[t] = Proceeds(Ticket(c), call[c].price) /\ TradePnl'[t] = Pnl(c)
        /\ \A u \in trades : /\ TradeProceeds[u] \in Int /\ TradeProceeds'[u] = TradeProceeds[u]
                             /\ TradePnl[u] \in Int /\ TradePnl'[u] = TradePnl[u]
    BY <1>0, <1>4, TradeAmounts DEF TradeProceeds, TradePnl
  <1>8. SumFunctionOnSet(TradeProceeds', trades')
          = SumFunctionOnSet(TradeProceeds, trades) + TradeProceeds'[t]
    BY <1>0, <1>1, <1>5, <1>6, <1>7, SumGain
  <1>9. SumFunctionOnSet(TradePnl', trades')
          = SumFunctionOnSet(TradePnl, trades) + TradePnl'[t]
    BY <1>0, <1>1, <1>5, <1>6, <1>7, SumGain
  <1>10. /\ SumFunction(TradeProceeds)' = SumFunctionOnSet(TradeProceeds', trades')
         /\ SumFunction(TradePnl)' = SumFunctionOnSet(TradePnl', trades')
    BY DEF SumFunction, TradeProceeds, TradePnl
  <1>11. /\ SumFunction(TradeProceeds)'
              = SumFunction(TradeProceeds) + Proceeds(Ticket(c), call[c].price)
         /\ SumFunction(TradePnl)' = SumFunction(TradePnl) + Pnl(c)
    BY <1>7, <1>8, <1>9, <1>10, SumsUnfolded
  <1>12. cash' = cash /\ realised' = realised
    BY DEF RecordTrade
  <1> QED
    BY <1>1, <1>3, <1>11, <1>12, SumsAreInt, OrderExecutionAssumption DEF Books

(* Every other step of a call, and every failure, leaves the books alone.  *)
LEMMA BooksByRest ==
  ASSUME BookInv, Books, NEW c \in Calls, Step(c) \/ Fault(c),
         ~(Debit(c) /\ Affordable(c)), ~Credit(c), ~Undo(c), ~RecordTrade(c)
  PROVE  Books'
  <1>0. Inv /\ \A d \in Calls \ {c} : call'[d] = call[d]
    BY StepStaysHome DEF BookInv
  <1>1. UNCHANGED <<cash, realised, trades>>
    BY DEF Step, Quote, Debit, ReadHolding, Reject, FindPosition, Upsert, Reduce, Commit, Fault, db
  <1>2. /\ (c \in Unaccounted)' <=> c \in Unaccounted
        /\ c \in Unaccounted =>
             call'[c].price = call[c].price /\ Ticket(c)' = Ticket(c) /\ Pnl(c)' = Pnl(c)
    <2>1. CASE Quote(c)
      BY <1>0, <2>1 DEF Quote, Goto, Unaccounted, Inv, TypeOK, CallState
    <2>2. CASE ReadHolding(c)
      BY <1>0, <2>2 DEF ReadHolding, Goto, Unaccounted, Inv, TypeOK, CallState
    <2>3. CASE FindPosition(c)
      <3>1. /\ call'[c].pc = "upsert" /\ call'[c].price = call[c].price
            /\ call'[c].ticket = call[c].ticket /\ call[c].ticket.side = "BUY"
        BY <1>0, <2>3 DEF FindPosition, Inv, TypeOK, CallState, CallOK, Buying
      <3> QED
        BY <2>3, <3>1 DEF FindPosition, Unaccounted, Ticket, Pnl
    <2>4. CASE Debit(c) \/ Reject(c) \/ Upsert(c) \/ Reduce(c) \/ Commit(c)
      <3>1. PICK pc \in {"reject", "refused", "trade", "undo", "unmarked", "done"} :
              /\ Goto(c, pc)
              /\ pc \in {"trade", "undo"} <=> call[c].pc \in {"upsert", "reduce"}
              /\ call[c].pc \in {"debit", "reject", "upsert", "reduce", "commit"}
        BY <2>4 DEF Debit, Reject, Upsert, Reduce, Commit
      <3> QED
        BY <1>0, <3>1, GotoKeeps DEF Unaccounted
    <2>5. CASE Fault(c)
      <3>1. Goto(c, AfterFailure(call[c].pc)) /\ call[c].pc \in Waiting
        BY <2>5 DEF Fault, Active
      <3>2. AfterFailure(call[c].pc) \in {"undo", "stranded"}
              <=> call[c].pc \in {"find", "upsert", "reduce", "trade", "undo"}
        BY <3>1 DEF AfterFailure, Waiting
      <3>3. AfterFailure(call[c].pc) \in {"undo", "stranded", "unmarked", "refused"}
        BY DEF AfterFailure
      <3>4. call[c].pc # "stranded"
        BY <3>1 DEF Waiting
      <3> DEFINE pc == AfterFailure(call[c].pc)
      <3> HIDE DEF pc
      <3>5. call'[c].pc = pc /\ call'[c].price = call[c].price
            /\ Ticket(c)' = Ticket(c) /\ Pnl(c)' = Pnl(c)
        BY <1>0, <3>1, GotoKeeps DEF pc
      <3> QED
        BY <3>2, <3>3, <3>4, <3>5 DEF Unaccounted, pc
    <2> QED
      BY <2>1, <2>2, <2>3, <2>4, <2>5 DEF Step
  <1>3. MovedProceeds' = MovedProceeds /\ MovedPnl' = MovedPnl
    BY <1>0, <1>2, MovedKept
  <1> QED
    BY <1>1, <1>3, BooksKept

LEMMA BooksByStep ==
  ASSUME BookInv, Books, NEW c \in Calls, Step(c) \/ Fault(c)
  PROVE  Books'
  BY BooksByMove, BooksByUndo, BooksByTrade, BooksByRest

(* A call that starts has moved nothing.                                   *)
LEMMA BooksByStart ==
  ASSUME BookInv, Inv', NEW c \in Calls, NEW o \in Orders, Start(c, o)
  PROVE  BookInv' /\ (Books => Books')
  <1>0. /\ Inv /\ CountsFinite /\ TradersPast /\ MovedOK
        /\ call \in [Calls -> CallState] /\ trades \subseteq Trade
    BY DEF BookInv, Inv, TypeOK
  <1>1. /\ call[c].pc = "idle" /\ call'[c].pc \in {"quote", "refused"}
        /\ \A d \in Calls \ {c} : call'[d] = call[d]
        /\ UNCHANGED <<cash, realised, trades>>
    BY <1>0 DEF Start, Goto, CallState, db
  <1>2. {d \in Calls : Started(d)}' = {d \in Calls : Started(d)} \cup {c}
    BY <1>1 DEF Started
  <1>3. CountsFinite'
    BY <1>0, <1>1, <1>2, FS_AddElement DEF CountsFinite
  <1>4. TradersPast'
    BY <1>0, <1>1 DEF TradersPast, Trade
  <1>5. (c \in Unaccounted)' <=> c \in Unaccounted
    BY <1>1 DEF Unaccounted
  <1>6. c \notin Unaccounted
    BY <1>1 DEF Unaccounted
  <1>7. MovedOK'
    BY <1>0, <1>1, <1>5, <1>6 DEF MovedOK, Unaccounted
  <1>8. MovedProceeds' = MovedProceeds /\ MovedPnl' = MovedPnl
    BY <1>1, <1>5, <1>6, MovedKept
  <1> QED
    BY <1>1, <1>3, <1>4, <1>7, <1>8, BooksKept DEF BookInv

(* Steps that touch neither the calls nor the trades nor the balances.     *)
LEMMA BooksElsewhere ==
  ASSUME BookInv, Inv', UNCHANGED <<cash, realised, trades, call>>
  PROVE  BookInv' /\ (Books => Books')
  <1>1. Unaccounted' = Unaccounted /\ MovedProceeds' = MovedProceeds /\ MovedPnl' = MovedPnl
    BY DEF Unaccounted, MovedProceeds, MovedPnl, Ticket, Pnl, Proceeds
  <1>2. CountsFinite' /\ TradersPast' /\ MovedOK'
    BY <1>1 DEF BookInv, CountsFinite, TradersPast, MovedOK, Started
  <1> QED
    BY <1>1, <1>2, BooksKept DEF BookInv

LEMMA BookInvByCrash ==
  ASSUME BookInv, Inv', Crash
  PROVE  BookInv'
  <1>0. /\ Inv /\ CountsFinite /\ TradersPast /\ MovedOK
        /\ call \in [Calls -> CallState] /\ trades \subseteq Trade
    BY DEF BookInv, Inv, TypeOK
  <1>1. /\ UNCHANGED trades
        /\ \A d \in Calls : IF Active(d) THEN call'[d].pc = "crashed" ELSE call'[d] = call[d]
    BY <1>0 DEF Crash, db, CallState
  <1>2. \A d \in Calls : Started(d)' <=> Started(d)
    BY <1>1 DEF Started, Active, Waiting
  <1>3. {d \in Calls : Started(d)}' = {d \in Calls : Started(d)}
    BY <1>2
  <1>4. CountsFinite'
    BY <1>0, <1>1, <1>3 DEF CountsFinite
  <1>5. TradersPast'
    BY <1>0, <1>1 DEF TradersPast, Trade
  <1>6. MovedOK'
    BY <1>0, <1>1 DEF MovedOK, Unaccounted
  <1> QED
    BY <1>4, <1>5, <1>6 DEF BookInv

LEMMA BooksNext ==
  BookInv /\ BooksBalance /\ [Next]_vars => BookInv' /\ BooksBalance'
  <1> SUFFICES ASSUME BookInv, BooksBalance, [Next]_vars PROVE BookInv' /\ BooksBalance'
    OBVIOUS
  <1>1. Inv' /\ faults \in Nat /\ crashes \in Nat
    BY InvNext DEF BookInv, Inv, TypeOK
  <1>2. BooksBalance <=> (crashes = 0 => Books)
    BY DEF BooksBalance, Books
  <1>3. BooksBalance' <=> (crashes' = 0 => Books')
    BY DEF BooksBalance, Books
  <1>4. CASE \E o \in Orders, t \in Tickets : Place(o, t)
    <2>1. UNCHANGED <<cash, realised, trades, call, crashes>>
      BY <1>4 DEF Place, env
    <2> QED
      BY <1>1, <1>2, <1>3, <2>1, BooksElsewhere
  <1>5. CASE \E c \in Calls, o \in Orders : Start(c, o)
    <2>1. UNCHANGED crashes
      BY <1>5 DEF Start
    <2> QED
      BY <1>1, <1>2, <1>3, <1>5, <2>1, BooksByStart
  <1>6. ASSUME NEW c \in Calls, Step(c) \/ Fault(c) PROVE BookInv' /\ BooksBalance'
    <2>1. UNCHANGED crashes
      BY <1>6 DEF Step, Quote, Debit, ReadHolding, Credit, Reject, FindPosition, Upsert, Reduce,
                  RecordTrade, Commit, Undo, Fault, env
    <2>2. BookInv'
      BY <1>1, <1>6, BookInvByStep DEF BookInv
    <2> QED
      BY <1>2, <1>3, <1>6, <2>1, <2>2, BooksByStep
  <1>7. CASE Crash
    <2>1. crashes' # 0
      BY <1>1, <1>7 DEF Crash
    <2> QED
      BY <1>1, <1>3, <1>7, <2>1, BookInvByCrash
  <1>8. CASE UNCHANGED vars
    <2>1. UNCHANGED <<cash, realised, trades, call, crashes>>
      BY <1>8 DEF vars, db, env
    <2> QED
      BY <1>1, <1>2, <1>3, <2>1, BooksElsewhere
  <1> QED
    BY <1>4, <1>5, <1>6, <1>7, <1>8 DEF Next

(* For any number of calls, orders and failures, in any interleaving, and  *)
(* as long as the process has not died: the cash balance and the realised  *)
(* P&L are the starting ones plus what the trades did, plus what the calls *)
(* between their movement and their trade did.  No movement is lost,       *)
(* doubled or reversed twice (executeOrder 97-101, 133-136, 172-175).      *)
THEOREM BooksAlwaysBalance == Spec => []BooksBalance
  <1>1. Init => BookInv /\ BooksBalance
    BY BookInvInit DEF BooksBalance, Books
  <1>2. QED
    BY <1>1, BooksNext, PTL DEF Spec

-----------------------------------------------------------------------------
(* The units held.  On a symbol without overlaps, the copy of the position *)
(* that a call is about to write back is still the one stored, up to its   *)
(* mark; that is what makes each write move exactly the units of its       *)
(* ticket.  b is what was held at the start.                               *)

Copies(read, row) ==
  IF read = NoRow THEN row = NoRow
  ELSE row # NoRow /\ row.id = read.id /\ row.qty = read.qty

CopiesFresh ==
  \A c \in Calls :
    (call[c].pc \in {"upsert", "credit", "reduce"} /\ Sym(c) \notin overlapped) =>
      Copies(call[c].row, positions[Sym(c)])

Solo ==
  \A c, d \in Calls : Active(c) /\ Active(d) /\ c # d /\ Sym(c) = Sym(d) => Sym(c) \in overlapped

UnitsTally(b) ==
  \A s \in Symbols \ overlapped : HeldQty(s) = b[s] + NetQty(s) + PendingQty(s)

HandsInv == BookInv /\ Solo /\ CopiesFresh

LEMMA UnitsInt ==
  ASSUME NEW t \in Tickets
  PROVE  Units(t) \in Int
  <1>1. t.qty \in Int
    BY TicketFacts
  <1> QED
    BY <1>1 DEF Units

LEMMA UnitSums ==
  ASSUME BookInv, NEW s \in Symbols
  PROVE  /\ IsFiniteSet(TradesOf(s)) /\ IsFiniteSet(Untraded(s))
         /\ \A t \in TradesOf(s) : Units(t.ticket) \in Int
         /\ \A c \in Untraded(s) : Units(Ticket(c)) \in Int
         /\ NetQty(s) \in Int /\ PendingQty(s) \in Int /\ HeldQty(s) \in Int
         /\ NetQty(s) = SumFunctionOnSet([t \in TradesOf(s) |-> Units(t.ticket)], TradesOf(s))
         /\ PendingQty(s) = SumFunctionOnSet([c \in Untraded(s) |-> Units(Ticket(c))], Untraded(s))
  <1> DEFINE f == [t \in TradesOf(s) |-> Units(t.ticket)]
             g == [c \in Untraded(s) |-> Units(Ticket(c))]
  <1>1. TradesOf(s) \subseteq trades /\ Untraded(s) \subseteq Unaccounted
    BY DEF TradesOf, Untraded, Unaccounted
  <1>2. IsFiniteSet(TradesOf(s)) /\ IsFiniteSet(Untraded(s))
    BY <1>1, MovedFinite, FS_Subset DEF BookInv, CountsFinite
  <1>3. \A t \in TradesOf(s) : Units(t.ticket) \in Int
    BY <1>1, UnitsInt DEF BookInv, Inv, TypeOK, Trade
  <1>4. \A c \in Untraded(s) : Units(Ticket(c)) \in Int
    BY <1>1, UnitsInt DEF BookInv, MovedOK, Ticket
  <1>5. NetQty(s) = SumFunctionOnSet(f, TradesOf(s))
    BY DEF NetQty, SumFunction
  <1>6. PendingQty(s) = SumFunctionOnSet(g, Untraded(s))
    BY DEF PendingQty, SumFunction
  <1>7. SumFunctionOnSet(f, TradesOf(s)) \in Int
    BY <1>2, <1>3, SumInt
  <1>8. SumFunctionOnSet(g, Untraded(s)) \in Int
    BY <1>2, <1>4, SumInt
  <1>9. HeldQty(s) \in Int
    BY DEF HeldQty, BookInv, Inv, TypeOK, Row
  <1> QED
    BY <1>2, <1>3, <1>4, <1>5, <1>6, <1>7, <1>8, <1>9

(* A step that records no trade leaves the sum over them.                  *)
LEMMA NetKept ==
  ASSUME UNCHANGED trades, NEW s
  PROVE  NetQty(s)' = NetQty(s)
  BY DEF NetQty, TradesOf

(* The calls on s that hold a written position and no trade are the same.  *)
LEMMA PendingKept ==
  ASSUME NEW s, \A d \in Calls : (d \in Untraded(s))' <=> d \in Untraded(s),
         \A d \in Untraded(s) : Ticket(d)' = Ticket(d)
  PROVE  PendingQty(s)' = PendingQty(s)
  <1>1. Untraded(s)' = Untraded(s)
    BY DEF Untraded
  <1>2. [c \in Untraded(s) |-> Units(Ticket(c))]' = [c \in Untraded(s) |-> Units(Ticket(c))]
    BY <1>1 DEF Units
  <1> QED
    BY <1>2 DEF PendingQty

LEMMA PendingJoins ==
  ASSUME BookInv, NEW c \in Calls, \A d \in Calls \ {c} : call'[d] = call[d],
         Ticket(c)' = Ticket(c), Ticket(c) \in Tickets, NEW s \in Symbols, s = Sym(c),
         call[c].pc # "trade", call'[c].pc = "trade"
  PROVE  PendingQty(s)' = PendingQty(s) + Units(Ticket(c))
  <1> DEFINE f == [d \in Untraded(s) |-> Units(Ticket(d))]
             g == [d \in Untraded(s)' |-> Units(Ticket(d)')]
  <1>1. Untraded(s)' = Untraded(s) \cup {c} /\ c \notin Untraded(s)
    BY DEF Untraded, Sym, Ticket
  <1>2. IsFiniteSet(Untraded(s))
    BY UnitSums
  <1>3. \A d \in Untraded(s) : d # c /\ call'[d] = call[d] /\ Ticket(d)' = Ticket(d)
    BY <1>1 DEF Untraded, Ticket
  <1>4. \A d \in Untraded(s) : f[d] \in Int /\ g[d] = f[d]
    BY <1>1, <1>3, UnitSums
  <1>5. g[c] = Units(Ticket(c)) /\ g[c] \in Int
    BY <1>1, UnitsInt
  <1>6. PendingQty(s)' = SumFunctionOnSet(g, Untraded(s)')
    BY DEF PendingQty, SumFunction, Units
  <1>7. PendingQty(s) = SumFunctionOnSet(f, Untraded(s))
    BY UnitSums
  <1> HIDE DEF f, g
  <1>8. SumFunctionOnSet(g, Untraded(s)') = SumFunctionOnSet(f, Untraded(s)) + g[c]
    BY <1>1, <1>2, <1>4, <1>5, SumGain
  <1> QED
    BY <1>5, <1>6, <1>7, <1>8

LEMMA PendingLeaves ==
  ASSUME BookInv, NEW c \in Calls, \A d \in Calls \ {c} : call'[d] = call[d],
         Ticket(c)' = Ticket(c), Ticket(c) \in Tickets, NEW s \in Symbols, s = Sym(c),
         call[c].pc = "trade", call'[c].pc # "trade"
  PROVE  PendingQty(s)' = PendingQty(s) - Units(Ticket(c))
  <1> DEFINE f == [d \in Untraded(s) |-> Units(Ticket(d))]
             g == [d \in Untraded(s)' |-> Units(Ticket(d)')]
             S == Untraded(s)
             T == Untraded(s)'
  <1>1. T = S \ {c} /\ c \in S
    BY DEF Untraded, Sym, Ticket
  <1>2. IsFiniteSet(S)
    BY UnitSums
  <1>3. \A d \in S : d # c => d \in T /\ call'[d] = call[d] /\ Ticket(d)' = Ticket(d)
    BY <1>1 DEF Untraded, Ticket
  <1>4. \A d \in S : f[d] \in Int
    BY UnitSums
  <1>9. \A d \in S : d # c => g[d] = f[d]
    BY <1>3
  <1>5. f[c] = Units(Ticket(c))
    BY <1>1
  <1>6. PendingQty(s)' = SumFunctionOnSet(g, T)
    BY DEF PendingQty, SumFunction, Units
  <1>7. PendingQty(s) = SumFunctionOnSet(f, S)
    BY UnitSums
  <1> HIDE DEF f, g, S, T
  <1>10. SumFunctionOnSet(f, S) = f[c] + SumFunctionOnSet(f, S \ {c})
    BY <1>1, <1>2, <1>4, SumRemove
  <1>11. SumFunctionOnSet(g, S \ {c}) = SumFunctionOnSet(f, S \ {c})
    <2>1. IsFiniteSet(S \ {c}) /\ \A d \in S \ {c} : g[d] = f[d]
      BY <1>2, <1>9, FS_RemoveElement
    <2> QED
      BY <2>1, SumSame
  <1>12. SumFunctionOnSet(f, S \ {c}) \in Int /\ f[c] \in Int
    BY <1>1, <1>2, <1>4, FS_RemoveElement, SumInt
  <1>8. SumFunctionOnSet(g, T) = SumFunctionOnSet(f, S) - f[c]
    BY <1>1, <1>10, <1>11, <1>12
  <1> QED
    BY <1>5, <1>6, <1>7, <1>8

(* The sum over the trades of a symbol, when one is recorded.              *)
LEMMA NetGains ==
  ASSUME BookInv, NEW c \in Calls, RecordTrade(c), Ticket(c) \in Tickets, NEW s \in Symbols
  PROVE  NetQty(s)' = NetQty(s) + (IF s = Sym(c) THEN Units(Ticket(c)) ELSE 0)
  <1> DEFINE t == [id |-> c, order |-> call[c].order, ticket |-> Ticket(c),
                   price |-> call[c].price, pnl |-> Pnl(c)]
  <1>1. trades' = trades \cup {t} /\ t.id = c /\ t.ticket = Ticket(c)
        /\ t.ticket.symbol = Sym(c)
    BY DEF RecordTrade, Sym
  <1> HIDE DEF t
  <1>2. t \notin trades
    BY <1>1 DEF RecordTrade, BookInv, TradersPast
  <1>3. CASE s # Sym(c)
    <2>1. TradesOf(s)' = TradesOf(s)
      BY <1>1, <1>3 DEF TradesOf
    <2>2. NetQty(s)' = NetQty(s) /\ NetQty(s) \in Int
      BY <2>1, UnitSums DEF NetQty
    <2> QED
      BY <1>3, <2>2
  <1>4. CASE s = Sym(c)
    <2> DEFINE f == [u \in TradesOf(s) |-> Units(u.ticket)]
               g == [u \in TradesOf(s)' |-> Units(u.ticket)]
    <2>5. TradesOf(s)' = TradesOf(s) \cup {t} /\ t \notin TradesOf(s)
      BY <1>1, <1>2, <1>4 DEF TradesOf
    <2>6. IsFiniteSet(TradesOf(s))
      BY UnitSums
    <2>7. \A u \in TradesOf(s) : f[u] \in Int /\ g[u] = f[u]
      BY <2>5, UnitSums
    <2>8. g[t] = Units(Ticket(c)) /\ g[t] \in Int
      BY <1>1, <2>5, UnitsInt
    <2>9. NetQty(s) = SumFunctionOnSet(f, TradesOf(s))
      BY UnitSums
    <2>10. NetQty(s)' = SumFunctionOnSet(g, TradesOf(s)')
      BY DEF NetQty, SumFunction, Units
    <2> HIDE DEF f, g
    <2>11. SumFunctionOnSet(g, TradesOf(s)') = SumFunctionOnSet(f, TradesOf(s)) + g[t]
      BY <2>5, <2>6, <2>7, <2>8, SumGain
    <2> QED
      BY <1>4, <2>8, <2>9, <2>10, <2>11
  <1> QED
    BY <1>3, <1>4

(* No call runs beside another on such a symbol, and none writes over what *)
(* another read.                                                           *)
LEMMA HandsInit == Init => HandsInv
  BY BookInvInit DEF Init, HandsInv, Solo, CopiesFresh, IdleCall, Active, Waiting

LEMMA SoloByStep ==
  ASSUME HandsInv, NEW c \in Calls, Step(c) \/ Fault(c)
  PROVE  Solo'
  <1>1. /\ Active(c) /\ Ticket(c)' = Ticket(c) /\ UNCHANGED overlapped
        /\ \A d \in Calls : d # c => call'[d] = call[d]
    BY StepStaysHome DEF HandsInv, BookInv
  <1>2. \A d \in Calls : Sym(d)' = Sym(d) /\ (Active(d)' => Active(d))
    BY <1>1 DEF Sym, Ticket, Active
  <1> QED
    BY <1>1, <1>2 DEF HandsInv, Solo

LEMMA CopiesByStep ==
  ASSUME HandsInv, NEW c \in Calls, Step(c) \/ Fault(c)
  PROVE  CopiesFresh'
  <1>0. /\ Inv /\ call \in [Calls -> CallState] /\ Solo /\ CopiesFresh
        /\ positions \in [Symbols -> Row \cup {NoRow}]
    BY DEF HandsInv, BookInv, Inv, TypeOK
  <1>1. /\ Active(c) /\ Ticket(c)' = Ticket(c) /\ UNCHANGED overlapped
        /\ \A d \in Calls : d # c => call'[d] = call[d]
        /\ \A s \in Symbols : s # Sym(c) => positions'[s] = positions[s]
    BY <1>0, StepStaysHome
  <1>2. SUFFICES ASSUME NEW d \in Calls, call'[d].pc \in {"upsert", "credit", "reduce"},
                        Sym(d)' \notin overlapped
                 PROVE  Copies(call'[d].row, positions'[Sym(d)'])
    BY <1>1 DEF CopiesFresh, Copies
  <1>3. Sym(d)' = Sym(d)
    BY <1>1 DEF Sym, Ticket
  <1>4. CASE d # c
    <2>1. Active(d) /\ call'[d] = call[d]
      BY <1>1, <1>2, <1>4 DEF Active, Waiting
    <2>2. Sym(d) # Sym(c) /\ Sym(d) \in Symbols
      BY <1>0, <1>1, <1>2, <1>3, <1>4, <2>1, TicketFacts
         DEF Solo, Sym, Ticket, Inv, CallOK, HasTicket, Active
    <2> QED
      BY <1>0, <1>1, <1>2, <1>3, <2>1, <2>2 DEF CopiesFresh
  <1>5. CASE d = c
    <2>1. \/ FindPosition(c) \/ (ReadHolding(c) /\ Sellable(c))
          \/ Credit(c)
      <3>1. CASE Quote(c)
        BY <1>0, <1>2, <1>5, <3>1 DEF Quote, Goto, CallState
      <3>5. CASE ReadHolding(c) /\ ~Sellable(c)
        BY <1>0, <1>2, <1>5, <3>5, GotoKeeps DEF ReadHolding
      <3>2. CASE Debit(c) \/ Reject(c) \/ Upsert(c) \/ Reduce(c)
        BY <1>0, <1>2, <1>5, <3>2, GotoKeeps DEF Debit, Reject, Upsert, Reduce
      <3>3. CASE RecordTrade(c) \/ Commit(c) \/ Undo(c)
        BY <1>0, <1>2, <1>5, <3>3, GotoKeeps DEF RecordTrade, Commit, Undo
      <3>4. CASE Fault(c)
        <4>1. /\ Goto(c, AfterFailure(call[c].pc))
              /\ AfterFailure(call[c].pc) \in {"undo", "unmarked", "stranded", "refused"}
          BY <3>4 DEF Fault, AfterFailure
        <4> QED
          BY <1>0, <1>2, <1>5, <4>1, GotoKeeps
      <3>6. CASE Credit(c) \/ FindPosition(c) \/ (ReadHolding(c) /\ Sellable(c))
        BY <3>6
      <3> QED
        BY <3>1, <3>2, <3>3, <3>4, <3>5, <3>6 DEF Step
    <2>2. CASE FindPosition(c) \/ (ReadHolding(c) /\ Sellable(c))
      <3>1. call'[c].row = positions[Sym(c)] /\ positions' = positions
        BY <1>0, <2>2 DEF FindPosition, ReadHolding, CallState, db
      <3> QED
        BY <1>3, <1>5, <3>1 DEF Copies
    <2>3. CASE Credit(c)
      <3>1. call'[c].row = call[c].row /\ positions' = positions /\ call[c].pc = "credit"
        BY <1>0, <2>3 DEF Credit, Goto, CallState
      <3> QED
        BY <1>0, <1>2, <1>3, <1>5, <3>1 DEF CopiesFresh
    <2> QED
      BY <2>1, <2>2, <2>3
  <1> QED
    BY <1>4, <1>5

LEMMA HandsByStart ==
  ASSUME HandsInv, Inv', NEW c \in Calls, NEW o \in Orders, Start(c, o)
  PROVE  HandsInv'
  <1>0. BookInv /\ call \in [Calls -> CallState]
    BY DEF HandsInv, BookInv, Inv, TypeOK
  <1>1. BookInv'
    BY <1>0, BooksByStart
  <1>2. /\ positions' = positions /\ overlapped \subseteq overlapped'
        /\ \A d \in Calls \ {c} : call'[d] = call[d]
        /\ call'[c].pc \in {"quote", "refused"}
    BY <1>0 DEF Start, Goto, CallState, db
  <1>3. \A d \in Calls \ {c} : Sym(d)' = Sym(d) /\ (Active(d)' <=> Active(d))
    BY <1>2 DEF Sym, Ticket, Active
  <1>4. Active(c)' => \A d \in Calls \ {c} : Active(d) /\ Sym(d) = Sym(c)' => Sym(d) \in overlapped'
    <2>1. CASE Startable(o)
      BY <1>0, <2>1 DEF Start, Sym, Ticket, CallState
    <2>2. CASE ~Startable(o)
      BY <1>0, <2>2 DEF Start, Goto, Active, Waiting, CallState
    <2> QED
      BY <2>1, <2>2
  <1>5. Solo'
    <2> SUFFICES ASSUME NEW d \in Calls, NEW e \in Calls, Active(d)', Active(e)', d # e,
                        Sym(d)' = Sym(e)'
                 PROVE  Sym(d)' \in overlapped'
      BY DEF Solo
    <2>1. CASE d # c /\ e # c
      BY <1>2, <1>3, <2>1 DEF HandsInv, Solo
    <2>2. CASE d = c \/ e = c
      BY <1>3, <1>4, <2>2
    <2> QED
      BY <2>1, <2>2
  <1>6. CopiesFresh'
    BY <1>2, <1>3 DEF HandsInv, CopiesFresh, Copies
  <1> QED
    BY <1>1, <1>5, <1>6 DEF HandsInv

LEMMA HandsNext == HandsInv /\ [Next]_vars => HandsInv'
  <1> SUFFICES ASSUME HandsInv, [Next]_vars PROVE HandsInv'
    OBVIOUS
  <1>1. Inv' /\ BookInv /\ call \in [Calls -> CallState]
    BY InvNext DEF HandsInv, BookInv, Inv, TypeOK
  <1>2. CASE \/ \E o \in Orders, t \in Tickets : Place(o, t)
             \/ UNCHANGED vars
    <2>1. UNCHANGED <<cash, realised, trades, call, positions, overlapped>>
      BY <1>2 DEF Place, env, vars, db
    <2>2. Solo' /\ CopiesFresh'
      BY <2>1 DEF HandsInv, Solo, CopiesFresh, Active, Sym, Ticket, Copies
    <2> QED
      BY <1>1, <2>1, <2>2, BooksElsewhere DEF HandsInv
  <1>3. ASSUME NEW c \in Calls, NEW o \in Orders, Start(c, o) PROVE HandsInv'
    BY <1>1, <1>3, HandsByStart
  <1>4. ASSUME NEW c \in Calls, Step(c) \/ Fault(c) PROVE HandsInv'
    BY <1>1, <1>4, BookInvByStep, SoloByStep, CopiesByStep DEF HandsInv, BookInv
  <1>5. CASE Crash
    <2>1. /\ UNCHANGED <<positions, overlapped>>
          /\ \A d \in Calls : IF Active(d) THEN call'[d].pc = "crashed" ELSE call'[d] = call[d]
      BY <1>1, <1>5 DEF Crash, db, CallState
    <2>2. \A d \in Calls : ~Active(d)'
      BY <2>1 DEF Active, Waiting
    <2>3. Solo' /\ CopiesFresh'
      BY <2>2 DEF Solo, CopiesFresh, Active, Waiting
    <2> QED
      BY <1>1, <1>5, <2>3, BookInvByCrash DEF HandsInv
  <1> QED
    BY <1>2, <1>3, <1>4, <1>5 DEF Next

(* Whatever a call does on its symbol leaves the units of the others.      *)
LEMMA UnitsElsewhere ==
  ASSUME BookInv, NEW c \in Calls, Step(c), NEW s \in Symbols, s # Sym(c)
  PROVE  HeldQty(s)' = HeldQty(s) /\ NetQty(s)' = NetQty(s) /\ PendingQty(s)' = PendingQty(s)
  <1>1. /\ Active(c) /\ Ticket(c)' = Ticket(c)
        /\ \A d \in Calls : d # c => call'[d] = call[d]
        /\ positions'[s] = positions[s]
    BY StepStaysHome DEF BookInv
  <1>2. HeldQty(s)' = HeldQty(s)
    BY <1>1 DEF HeldQty
  <1>3. NetQty(s)' = NetQty(s)
    <2>1. CASE RecordTrade(c)
      <3>1. Ticket(c) \in Tickets
        BY <1>1 DEF BookInv, Inv, CallOK, HasTicket, Active, Ticket
      <3>2. NetQty(s)' = NetQty(s) + 0
        BY <2>1, <3>1, NetGains
      <3>3. NetQty(s) \in Int
        BY UnitSums
      <3> QED
        BY <3>2, <3>3
    <2>2. CASE ~RecordTrade(c)
      <3>1. UNCHANGED trades
        BY <2>2 DEF Step, Quote, Debit, ReadHolding, Credit, Reject, FindPosition, Upsert, Reduce,
                    Commit, Undo, db
      <3> QED
        BY <3>1, NetKept
    <2> QED
      BY <2>1, <2>2
  <1>4. PendingQty(s)' = PendingQty(s)
    <2>1. \A d \in Calls : (d \in Untraded(s))' <=> d \in Untraded(s)
      BY <1>1 DEF Untraded, Sym, Ticket
    <2>2. \A d \in Untraded(s) : Ticket(d)' = Ticket(d)
      BY <1>1 DEF Untraded, Ticket
    <2> QED
      BY <2>1, <2>2, PendingKept
  <1> QED
    BY <1>2, <1>3, <1>4

(* A write of the position moves the units of the call's ticket.           *)
LEMMA UnitsWritten ==
  ASSUME HandsInv, NEW c \in Calls, Upsert(c) \/ Reduce(c), Sym(c) \notin overlapped
  PROVE  /\ HeldQty(Sym(c))' = HeldQty(Sym(c)) + Units(Ticket(c))
         /\ call'[c].pc = "trade"
  <1>0. /\ Inv /\ call \in [Calls -> CallState] /\ CallOK(c)
        /\ positions \in [Symbols -> Row \cup {NoRow}]
        /\ call[c].pc \in {"upsert", "reduce"}
    BY DEF HandsInv, BookInv, Inv, TypeOK, Upsert, Reduce
  <1>1. /\ call[c].ticket \in Tickets /\ Sym(c) \in Symbols /\ Ticket(c).qty \in Nat
        /\ Sym(c)' = Sym(c)
    <2>1. call[c].ticket \in Tickets
      BY <1>0 DEF CallOK, HasTicket, Waiting
    <2> QED
      BY <1>0, <2>1, TicketFacts, StepStaysHome DEF Sym, Ticket, Step
  <1> DEFINE old == call[c].row
             row == positions[Sym(c)]
  <1>2. Copies(old, row) /\ row \in Row \cup {NoRow} /\ old \in Row \cup {NoRow}
    BY <1>0, <1>1 DEF HandsInv, CopiesFresh, CallState
  <1>3. CASE Upsert(c)
    <2>1. Ticket(c).side = "BUY" /\ call[c].pc = "upsert"
      BY <1>0, <1>3 DEF Upsert, CallOK, Buying, Ticket
    <2>2. CASE old = NoRow
      <3>1. positions' = [positions EXCEPT ![Sym(c)] = FreshRow(c)] /\ Goto(c, "trade")
        BY <1>2, <1>3, <2>2 DEF Upsert, Copies
      <3>2. positions'[Sym(c)] = FreshRow(c) /\ FreshRow(c) # NoRow /\ FreshRow(c).qty = Ticket(c).qty
        BY <1>0, <1>1, <2>1, <3>1, FreshFacts, NoRowIsNoRow DEF FreshRow
      <3> QED
        BY <1>0, <1>1, <1>2, <2>1, <2>2, <3>1, <3>2, GotoKeeps DEF HeldQty, Units, Copies
    <2>3. CASE old # NoRow
      <3>1. row \in Row /\ old \in Row /\ StillStored(Sym(c), old)
        BY <1>2, <2>3 DEF Copies, StillStored
      <3>2. positions' = [positions EXCEPT ![Sym(c)] = Saved(row, old, Blended(c))]
            /\ Goto(c, "trade")
        BY <1>3, <2>3, <3>1 DEF Upsert
      <3>3. Blended(c) \in Row /\ Blended(c).qty = old.qty + Ticket(c).qty
        BY <1>0, <2>1, <3>1, BlendedFacts DEF Blended
      <3>4. Saved(row, old, Blended(c)) \in Row
        BY <3>1, <3>3, SavedFacts
      <3>5. Saved(row, old, Blended(c)).qty
              = IF Blended(c).qty # old.qty THEN Blended(c).qty ELSE row.qty
        BY <3>1 DEF Saved, Row
      <3>6. Saved(row, old, Blended(c)).qty = row.qty + Ticket(c).qty
        BY <1>1, <1>2, <2>3, <3>1, <3>3, <3>5 DEF Copies, Row
      <3>7. positions'[Sym(c)] = Saved(row, old, Blended(c))
        BY <1>0, <1>1, <3>2
      <3> QED
        BY <1>0, <1>1, <2>1, <3>1, <3>2, <3>4, <3>6, <3>7, GotoKeeps, NoRowIsNoRow DEF HeldQty, Units
    <2> QED
      BY <2>2, <2>3
  <1>4. CASE Reduce(c)
    <2>1. Ticket(c).side # "BUY" /\ call[c].pc = "reduce" /\ old \in Row
      BY <1>0, <1>4 DEF Reduce, CallOK, Selling, HoldsRow, Ticket
    <2>2. row \in Row /\ StillStored(Sym(c), old) /\ row.qty = old.qty /\ row.qty \in Int
      BY <1>2, <2>1, NoRowIsNoRow DEF Copies, StillStored, Row
    <2>3. Reduced(c) \in Row /\ Reduced(c).qty = old.qty - Ticket(c).qty
      BY <1>0, <2>1, ReducedFacts DEF Reduced, Row
    <2>4. CASE Reduced(c).qty = 0
      <3>1. positions'[Sym(c)] = NoRow /\ Goto(c, "trade")
        BY <1>0, <1>1, <1>4, <2>2, <2>4 DEF Reduce
      <3> QED
        BY <1>0, <1>1, <2>1, <2>2, <2>3, <2>4, <3>1, GotoKeeps, NoRowIsNoRow DEF HeldQty, Units
    <2>5. CASE Reduced(c).qty # 0
      <3>1. positions' = [positions EXCEPT ![Sym(c)] = Saved(row, old, Reduced(c))]
            /\ Goto(c, "trade")
        BY <1>4, <2>2, <2>5 DEF Reduce
      <3>2. Saved(row, old, Reduced(c)) \in Row
        BY <2>1, <2>2, <2>3, SavedFacts
      <3>3. Saved(row, old, Reduced(c)).qty
              = IF Reduced(c).qty # old.qty THEN Reduced(c).qty ELSE row.qty
        BY <2>2 DEF Saved, Row
      <3>4. Saved(row, old, Reduced(c)).qty = row.qty - Ticket(c).qty
        BY <1>1, <2>2, <2>3, <3>3
      <3>5. positions'[Sym(c)] = Saved(row, old, Reduced(c))
        BY <1>0, <1>1, <3>1
      <3> QED
        BY <1>0, <1>1, <2>1, <2>2, <3>1, <3>2, <3>4, <3>5, GotoKeeps, NoRowIsNoRow
           DEF HeldQty, Units
    <2> QED
      BY <2>4, <2>5
  <1> QED
    BY <1>3, <1>4

(* So what is held keeps equal to what was held at the start plus what the *)
(* trades, and the writes awaiting their trade, moved.                     *)
LEMMA TallyByStep ==
  ASSUME HandsInv, NEW b \in [Symbols -> Int], UnitsTally(b), NEW c \in Calls, Step(c)
  PROVE  UnitsTally(b)'
  <1>0. /\ BookInv /\ Inv /\ call \in [Calls -> CallState]
    BY DEF HandsInv, BookInv, Inv, TypeOK
  <1>1. /\ Active(c) /\ Ticket(c)' = Ticket(c) /\ UNCHANGED overlapped
        /\ \A d \in Calls \ {c} : call'[d] = call[d]
    BY <1>0, StepStaysHome
  <1>2. Ticket(c) \in Tickets /\ Sym(c) \in Symbols
    BY <1>0, <1>1, TicketFacts DEF Inv, CallOK, HasTicket, Active, Ticket, Sym
  <1>3. SUFFICES ASSUME NEW s \in Symbols \ overlapped
                 PROVE  HeldQty(s)' = b[s] + NetQty(s)' + PendingQty(s)'
    BY <1>1 DEF UnitsTally
  <1>4. /\ HeldQty(s) = b[s] + NetQty(s) + PendingQty(s)
        /\ HeldQty(s) \in Int /\ b[s] \in Int /\ NetQty(s) \in Int /\ PendingQty(s) \in Int
        /\ Units(Ticket(c)) \in Int
    BY <1>0, <1>2, UnitSums, UnitsInt DEF UnitsTally
  <1>5. CASE s # Sym(c)
    BY <1>0, <1>4, <1>5, UnitsElsewhere
  <1>6. CASE s = Sym(c) /\ (Upsert(c) \/ Reduce(c))
    <2>1. HeldQty(s)' = HeldQty(s) + Units(Ticket(c)) /\ call'[c].pc = "trade"
      <3>1. HeldQty(Sym(c))' = HeldQty(Sym(c)) + Units(Ticket(c)) /\ call'[c].pc = "trade"
        BY <1>6, UnitsWritten
      <3>2. Sym(c)' = s
        BY <1>1, <1>6 DEF Sym
      <3> QED
        BY <1>6, <3>1, <3>2 DEF HeldQty
    <2>2. NetQty(s)' = NetQty(s)
      BY <1>6, NetKept DEF Upsert, Reduce
    <2>3. call[c].pc # "trade"
      BY <1>6 DEF Upsert, Reduce
    <2>4. PendingQty(s)' = PendingQty(s) + Units(Ticket(c))
      BY <1>0, <1>1, <1>2, <1>6, <2>1, <2>3, PendingJoins
    <2> HIDE <1>6
    <2> QED
      BY <1>4, <2>1, <2>2, <2>4
  <1>7. CASE s = Sym(c) /\ RecordTrade(c)
    <2>1. NetQty(s)' = NetQty(s) + Units(Ticket(c))
      BY <1>0, <1>2, <1>7, NetGains
    <2>2. call[c].pc = "trade" /\ call'[c].pc = "commit" /\ positions' = positions
      BY <1>0, <1>7, GotoKeeps DEF RecordTrade
    <2>3. PendingQty(s)' = PendingQty(s) - Units(Ticket(c))
      BY <1>0, <1>1, <1>2, <1>7, <2>2, PendingLeaves
    <2>4. HeldQty(s)' = HeldQty(s)
      BY <2>2 DEF HeldQty
    <2> QED
      BY <1>4, <2>1, <2>3, <2>4
  <1>8. CASE s = Sym(c) /\ ~Upsert(c) /\ ~Reduce(c) /\ ~RecordTrade(c)
    <2>1. UNCHANGED <<positions, trades>>
      BY <1>8 DEF Step, Quote, Debit, ReadHolding, Credit, Reject, FindPosition, Commit, Undo, db
    <2>2. call[c].pc # "trade" /\ call'[c].pc # "trade"
      <3>1. CASE Quote(c)
        BY <1>0, <3>1 DEF Quote, Goto, CallState
      <3>2. CASE Debit(c) \/ Credit(c) \/ Reject(c) \/ Commit(c) \/ Undo(c)
        BY <1>0, <3>2, GotoKeeps DEF Debit, Credit, Reject, Commit, Undo
      <3>3. CASE ReadHolding(c)
        BY <1>0, <3>3 DEF ReadHolding, Goto, CallState
      <3>4. CASE FindPosition(c)
        BY <1>0, <3>4 DEF FindPosition, CallState
      <3> QED
        BY <1>8, <3>1, <3>2, <3>3, <3>4, Zenon DEF Step
    <2>3. \A d \in Calls : (d \in Untraded(s))' <=> d \in Untraded(s)
      BY <1>1, <2>2 DEF Untraded, Sym, Ticket
    <2>4. \A d \in Untraded(s) : Ticket(d)' = Ticket(d)
      BY <1>1 DEF Untraded, Ticket
    <2>5. HeldQty(s)' = HeldQty(s) /\ NetQty(s)' = NetQty(s) /\ PendingQty(s)' = PendingQty(s)
      BY <2>1, <2>3, <2>4, NetKept, PendingKept DEF HeldQty
    <2> QED
      BY <1>4, <2>5
  <1> QED
    BY <1>5, <1>6, <1>7, <1>8

(* Steps that write no position, record no trade and bring no call to or   *)
(* from the recording of one.                                              *)
LEMMA TallyElsewhere ==
  ASSUME NEW b, UnitsTally(b), UNCHANGED <<positions, trades>>, overlapped \subseteq overlapped',
         \A d \in Calls : call[d].pc = "trade" \/ call'[d].pc = "trade" => call'[d] = call[d]
  PROVE  UnitsTally(b)'
  <1> SUFFICES ASSUME NEW s \in Symbols \ overlapped
               PROVE  HeldQty(s)' = b[s] + NetQty(s)' + PendingQty(s)'
    BY DEF UnitsTally
  <1>1. \A d \in Calls : (d \in Untraded(s))' <=> d \in Untraded(s)
    BY DEF Untraded, Sym, Ticket
  <1>2. \A d \in Untraded(s) : Ticket(d)' = Ticket(d)
    BY DEF Untraded, Ticket
  <1>3. HeldQty(s)' = HeldQty(s) /\ NetQty(s)' = NetQty(s) /\ PendingQty(s)' = PendingQty(s)
    BY <1>1, <1>2, NetKept, PendingKept DEF HeldQty
  <1> QED
    BY <1>3 DEF UnitsTally

LEMMA TallyByStart ==
  ASSUME Inv, NEW b, UnitsTally(b), NEW c \in Calls, NEW o \in Orders, Start(c, o)
  PROVE  UnitsTally(b)'
  <1>1. /\ UNCHANGED <<positions, trades>> /\ overlapped \subseteq overlapped'
        /\ call[c].pc = "idle" /\ call'[c].pc # "trade"
        /\ \A d \in Calls \ {c} : call'[d] = call[d]
    BY DEF Start, Goto, CallState, db, Inv, TypeOK
  <1> QED
    BY <1>1, TallyElsewhere

(* What is held at the start.                                              *)
LEMMA HeldInit ==
  ASSUME Init, NEW s \in Symbols
  PROVE  HeldQty(s) = InitialQty[s]
  <1>1. positions[s] = SeedRow(s)
    BY DEF Init
  <1>2. SeedRow(s) # NoRow => SeedRow(s).qty = InitialQty[s]
    BY DEF SeedRow
  <1>3. SeedRow(s) = NoRow => InitialQty[s] = 0
    <2> DEFINE p == CHOOSE p \in Prices : TRUE
    <2>3. p \in Prices
      BY OrderExecutionAssumption
    <2>1. p \in Int
      BY <2>3, PriceFacts
    <2> HIDE DEF p
    <2>2. [id |-> NoCall, qty |-> InitialQty[s], avg |-> p, mark |-> p, upnl |-> 0] \in Row
      BY <2>1, OrderExecutionAssumption DEF Row
    <2> QED
      BY <2>2, NoRowIsNoRow DEF SeedRow, p
  <1> QED
    BY <1>1, <1>2, <1>3 DEF HeldQty

LEMMA TallyInit == Init => UnitsTally(InitialQty)
  <1> SUFFICES ASSUME Init, NEW s \in Symbols
               PROVE  HeldQty(s) = InitialQty[s] + NetQty(s) + PendingQty(s)
    BY DEF UnitsTally
  <1>1. TradesOf(s) = {} /\ Untraded(s) = {}
    BY DEF Init, TradesOf, Untraded, IdleCall
  <1>2. NetQty(s) = 0 /\ PendingQty(s) = 0
    <2>1. NetQty(s) = SumFunctionOnSet([t \in TradesOf(s) |-> Units(t.ticket)], {})
      BY <1>1 DEF NetQty, SumFunction
    <2>2. PendingQty(s) = SumFunctionOnSet([c \in Untraded(s) |-> Units(Ticket(c))], {})
      BY <1>1 DEF PendingQty, SumFunction
    <2> QED
      BY <2>1, <2>2, SumEmpty
  <1>3. HeldQty(s) = InitialQty[s]
    BY HeldInit
  <1>4. InitialQty[s] \in Int
    BY OrderExecutionAssumption
  <1> QED
    BY <1>2, <1>3, <1>4

LEMMA HoldingsNext ==
  HandsInv /\ HoldingsMatchTrades /\ [Next]_vars => HoldingsMatchTrades'
  <1> SUFFICES ASSUME HandsInv, HoldingsMatchTrades, [Next]_vars, faults' = 0, crashes' = 0
               PROVE  UnitsTally(InitialQty)'
    BY DEF HoldingsMatchTrades, UnitsTally
  <1>1. faults \in Nat /\ crashes \in Nat /\ call \in [Calls -> CallState]
    BY DEF HandsInv, BookInv, Inv, TypeOK
  <1>2. ~Crash /\ \A c \in Calls : ~Fault(c)
    BY <1>1 DEF Crash, Fault
  <1>3. faults = 0 /\ crashes = 0
    BY <1>2 DEF Next, Place, Start, Step, Quote, Debit, ReadHolding, Credit, Reject, FindPosition,
                Upsert, Reduce, RecordTrade, Commit, Undo, env, vars
  <1>4. UnitsTally(InitialQty) /\ InitialQty \in [Symbols -> Int]
    BY <1>3, OrderExecutionAssumption DEF HoldingsMatchTrades, UnitsTally
  <1>5. CASE \/ \E o \in Orders, t \in Tickets : Place(o, t)
             \/ UNCHANGED vars
    <2>1. UNCHANGED <<call, positions, trades, overlapped>>
      BY <1>5 DEF Place, env, vars, db
    <2> QED
      BY <1>4, <2>1, TallyElsewhere
  <1>6. ASSUME NEW c \in Calls, NEW o \in Orders, Start(c, o) PROVE UnitsTally(InitialQty)'
    BY <1>4, <1>6, TallyByStart DEF HandsInv, BookInv
  <1>7. ASSUME NEW c \in Calls, Step(c) PROVE UnitsTally(InitialQty)'
    BY <1>4, <1>7, TallyByStep
  <1> QED
    BY <1>2, <1>5, <1>6, <1>7 DEF Next

(* For any number of calls on any symbols: where no two executions overlap *)
(* and no call to the database fails, the units held are those held at the *)
(* start plus those the trades moved, plus those of a call whose position  *)
(* is written and whose trade is not (upsertPosition and reducePosition,   *)
(* 222-272).                                                               *)
THEOREM HoldingsAlwaysMatch == Spec => []HoldingsMatchTrades
  <1>1. Init => HandsInv /\ HoldingsMatchTrades
    BY HandsInit, TallyInit DEF HoldingsMatchTrades, UnitsTally
  <1>2. QED
    BY <1>1, HandsNext, HoldingsNext, PTL DEF Spec

-----------------------------------------------------------------------------
(* The refinement.  With one execution under way per symbol and every call *)
(* answered, a call under way is the only one on its order and on its      *)
(* symbol, no write of a position fails, and the price in hand is one the  *)
(* limit allows.  What FillLedger sees then follows from the await that    *)
(* each call has reached.                                                  *)

IsoInv ==
  /\ HandsInv /\ OnceInv /\ overlapped = {}
  /\ \A c \in Calls :
       /\ call[c].pc # "undo"
       /\ HasPrice(c) => Reachable(Ticket(c), call[c].price)

\* Awaits after the decision to fill; awaits at which units are yet to move.
Filling(c) == call[c].pc \in {"find", "upsert", "reduce", "trade", "commit"}
InTransit(c) == call[c].pc \in {"find", "upsert", "reduce"}

\* What is seen of the order and of the symbol of a call under way.
SeenRunning(c, o, s) ==
  /\ TicketSeen(o) = Ticket(c)
  /\ StatusSeen(o) = IF call[c].pc = "reject" THEN "REJECTED"
                     ELSE IF Filling(c) THEN "EXECUTED" ELSE "PENDING"
  /\ PriceSeen(o) = IF Filling(c) THEN call[c].price ELSE 0
  /\ HeldSeen(s) = IF InTransit(c) THEN HeldQty(s) + Units(Ticket(c)) ELSE HeldQty(s)

\* What is seen of an order that no call is running.
SeenStored(o) ==
  /\ StatusSeen(o) = IF orders[o] = NoOrder THEN "ABSENT" ELSE orders[o].status
  /\ PriceSeen(o) = IF StatusSeen(o) = "EXECUTED" THEN orders[o].price ELSE 0

SeenFacts ==
  /\ \A c \in Calls, o \in Orders, s \in Symbols :
       (Active(c) /\ call[c].order = o /\ Sym(c) = s) => SeenRunning(c, o, s)
  /\ \A o \in Orders : (\A c \in Calls : Active(c) => call[c].order # o) => SeenStored(o)

LEMMA IsoInit == Init => IsoInv
  BY HandsInit, OnceInit DEF IsoInv, Init, IdleCall, HasPrice, Waiting

(* Alone on its symbol, a call is alone on its order, which is stored and  *)
(* reads PENDING.                                                          *)
LEMMA AloneOnOrder ==
  ASSUME IsoInv, NEW c \in Calls, Active(c)
  PROVE  /\ call[c].order \in Orders /\ Ticket(c) \in Tickets /\ Sym(c) \in Symbols
         /\ orders[call[c].order] # NoOrder
         /\ orders[call[c].order].ticket = Ticket(c)
         /\ orders[call[c].order].status = "PENDING"
         /\ \A d \in Calls : Active(d) /\ d # c => Sym(d) # Sym(c)
         /\ \A d \in Calls : Active(d) /\ d # c => call[d].order # call[c].order
  <1>1. RunsAlone /\ CallOK(c) /\ overlapped = {}
    BY DEF IsoInv, OnceInv, Inv
  <1>2. call[c].order \in Orders /\ Ticket(c) \in Tickets
    BY <1>1 DEF CallOK, HasTicket, Active, Ticket
  <1>3. Sym(c) \in Symbols
    BY <1>2, TicketFacts DEF Sym
  <1>4. /\ orders[call[c].order] # NoOrder /\ orders[call[c].order].ticket = Ticket(c)
        /\ orders[call[c].order].status = "PENDING"
        /\ \A d \in Calls : Active(d) /\ d # c => Sym(d) # Sym(c)
    BY <1>1 DEF RunsAlone, Ticket
  <1>5. ASSUME NEW d \in Calls, Active(d), call[d].order = call[c].order
        PROVE  Sym(d) = Sym(c)
    <2>1. Ticket(d) = Ticket(c)
      BY <1>1, <1>4, <1>5 DEF RunsAlone, Ticket
    <2> QED
      BY <2>1 DEF Sym
  <1> QED
    BY <1>2, <1>3, <1>4, <1>5

(* No write of a call alone on its symbol misses the row it read, and the  *)
(* order it saves is stored.                                               *)
LEMMA IsoByStep ==
  ASSUME IsoInv, HandsInv', OnceInv', NEW c \in Calls, Step(c)
  PROVE  IsoInv'
  <1>0. /\ Inv /\ HandsInv /\ call \in [Calls -> CallState] /\ overlapped = {}
        /\ call[c].pc # "undo"
    BY DEF IsoInv, OnceInv, Inv, TypeOK
  <1>1. /\ Active(c) /\ Ticket(c)' = Ticket(c) /\ UNCHANGED overlapped
        /\ \A d \in Calls : d # c => call'[d] = call[d]
    BY <1>0, StepStaysHome
  <1>2. orders[call[c].order] # NoOrder
    BY <1>1, AloneOnOrder
  <1>3. call'[c].pc # "undo" /\ (HasPrice(c)' => Reachable(Ticket(c), call'[c].price))
    <2>1. CASE Quote(c)
      <3>1. PICK ltp \in Prices :
              IF Reachable(Ticket(c), ltp)
              THEN call' = [call EXCEPT ![c].price = ltp,
                     ![c].pc = IF Ticket(c).side = "BUY" THEN "debit" ELSE "holding"]
              ELSE Goto(c, "refused")
        BY <2>1 DEF Quote
      <3>2. CASE Reachable(Ticket(c), ltp)
        <4>1. call'[c].price = ltp /\ call'[c].pc # "undo"
          BY <1>0, <3>1, <3>2 DEF CallState
        <4> QED
          BY <3>2, <4>1
      <3>3. CASE ~Reachable(Ticket(c), ltp)
        <4>1. call'[c].pc = "refused"
          BY <1>0, <3>1, <3>3, GotoKeeps
        <4> QED
          BY <4>1 DEF HasPrice, Waiting
      <3> QED
        BY <3>2, <3>3
    <2>2. CASE ~Quote(c)
      <3>1. HasPrice(c)
        BY <2>2 DEF Step, Debit, ReadHolding, Credit, Reject, FindPosition, Upsert, Reduce,
                    RecordTrade, Commit, Undo, HasPrice, Waiting
      <3>2. CASE Debit(c) \/ Credit(c) \/ Reject(c) \/ RecordTrade(c) \/ Commit(c)
        <4>1. call'[c].pc # "undo" /\ call'[c].price = call[c].price
          BY <1>0, <3>2, GotoKeeps DEF Debit, Credit, Reject, RecordTrade, Commit
        <4> QED
          BY <1>1, <3>1, <4>1 DEF IsoInv
      <3>3. CASE ReadHolding(c) \/ FindPosition(c)
        <4>1. call'[c].pc # "undo" /\ call'[c].price = call[c].price
          BY <1>0, <3>3 DEF ReadHolding, FindPosition, Goto, CallState
        <4> QED
          BY <1>1, <3>1, <4>1 DEF IsoInv
      <3>4. CASE Upsert(c) \/ Reduce(c)
        <4>1. call'[c].pc = "trade"
          BY <1>0, <3>4, UnitsWritten
        <4>2. call'[c].price = call[c].price
          BY <1>0, <3>4, GotoKeeps DEF Upsert, Reduce
        <4> QED
          BY <1>1, <3>1, <4>1, <4>2 DEF IsoInv
      <3>5. CASE Undo(c)
        BY <1>0, <3>5 DEF Undo
      <3> QED
        BY <2>2, <3>2, <3>3, <3>4, <3>5 DEF Step
    <2> QED
      BY <2>1, <2>2
  <1>4. \A d \in Calls \ {c} : /\ call'[d].pc # "undo"
                               /\ HasPrice(d)' => Reachable(Ticket(d)', call'[d].price)
    BY <1>1 DEF IsoInv, HasPrice, Ticket
  <1>5. \A t, p : Reachable(t, p)' = Reachable(t, p)
    BY DEF Reachable
  <1> QED
    BY <1>0, <1>1, <1>3, <1>4 DEF IsoInv, Reachable

LEMMA IsoNext == IsoInv /\ [Next /\ Isolated]_vars => IsoInv'
  <1> SUFFICES ASSUME IsoInv, [Next /\ Isolated]_vars PROVE IsoInv'
    OBVIOUS
  <1>1. HandsInv' /\ OnceInv' /\ overlapped' = {} /\ call \in [Calls -> CallState]
    BY HandsNext, OnceNext DEF IsoInv, Isolated, OnceInv, Inv, TypeOK, vars, env
  <1>2. CASE \/ \E o \in Orders, t \in Tickets : Place(o, t)
             \/ UNCHANGED vars
    <2>1. UNCHANGED call
      BY <1>2 DEF Place, vars
    <2> QED
      BY <1>1, <2>1 DEF IsoInv, HasPrice, Ticket, Reachable
  <1>3. ASSUME NEW c \in Calls, NEW o \in Orders, Start(c, o) PROVE IsoInv'
    <2>1. /\ \A d \in Calls \ {c} : call'[d] = call[d]
          /\ call'[c].pc \in {"quote", "refused"}
      BY <1>1, <1>3 DEF Start, Goto, CallState
    <2> QED
      BY <1>1, <2>1 DEF IsoInv, HasPrice, Ticket, Reachable, Waiting
  <1>4. ASSUME NEW c \in Calls, Step(c) PROVE IsoInv'
    BY <1>1, <1>4, IsoByStep
  <1>5. (faults' = 0 /\ crashes' = 0) \/ UNCHANGED vars
    BY DEF Isolated
  <1>6. ASSUME ~UNCHANGED vars PROVE ~Crash /\ \A c \in Calls : ~Fault(c)
    BY <1>5, <1>6 DEF Crash, Fault, IsoInv, OnceInv, Inv, TypeOK
  <1> QED
    BY <1>2, <1>3, <1>4, <1>6 DEF Next

(* The abstract state, read off the await that each call has reached.      *)
LEMMA SeenFromAwaits == IsoInv => SeenFacts
  <1> SUFFICES ASSUME IsoInv PROVE SeenFacts
    OBVIOUS
  <1>0. \A d \in Calls, o \in Orders : d \in Deciding(o) => Active(d) /\ call[d].order = o
    BY DEF Deciding, Active, Waiting
  <1>1. ASSUME NEW o \in Orders, \A c \in Calls : Active(c) => call[c].order # o
        PROVE  SeenStored(o)
    <2>1. Deciding(o) = {}
      BY <1>0, <1>1 DEF Deciding
    <2> QED
      BY <2>1 DEF SeenStored, StatusSeen, PriceSeen
  <1>2. ASSUME NEW c \in Calls, Active(c), NEW o \in Orders, o = call[c].order,
               NEW s \in Symbols, s = Sym(c)
        PROVE  SeenRunning(c, o, s)
    <2>1. /\ Ticket(c) \in Tickets
          /\ orders[o] # NoOrder /\ orders[o].ticket = Ticket(c) /\ orders[o].status = "PENDING"
          /\ \A d \in Calls : Active(d) /\ d # c => Sym(d) # s /\ call[d].order # o
      BY <1>2, AloneOnOrder
    <2>2. TicketSeen(o) = Ticket(c)
      BY <2>1 DEF TicketSeen
    <2>3. Deciding(o) = IF call[c].pc = "reject" \/ Filling(c) THEN {c} ELSE {}
      BY <1>0, <1>2, <2>1 DEF Deciding, Filling
    <2>4. StatusSeen(o) = IF call[c].pc = "reject" THEN "REJECTED"
                          ELSE IF Filling(c) THEN "EXECUTED" ELSE "PENDING"
      BY <2>1, <2>3 DEF StatusSeen
    <2>5. PriceSeen(o) = IF Filling(c) THEN call[c].price ELSE 0
      <3>1. CASE Filling(c)
        <4>1. call[c].pc # "reject"
          BY <3>1 DEF Filling
        <4>2. Deciding(o) = {c} /\ StatusSeen(o) = "EXECUTED"
          BY <2>3, <2>4, <3>1, <4>1
        <4>3. (CHOOSE d \in Deciding(o) : TRUE) = c
          BY <4>2
        <4> QED
          BY <3>1, <4>2, <4>3 DEF PriceSeen
      <3>2. CASE ~Filling(c)
        BY <2>4, <3>2 DEF PriceSeen
      <3> QED
        BY <3>1, <3>2
    <2>6. HeldSeen(s) = IF InTransit(c) THEN HeldQty(s) + Units(Ticket(c)) ELSE HeldQty(s)
      <3> DEFINE f == [d \in Moving(s) |-> Units(Ticket(d))]
      <3>1. Moving(s) = IF InTransit(c) THEN {c} ELSE {}
        BY <1>2, <2>1 DEF Moving, InTransit, Active, Waiting
      <3>2. HeldSeen(s) = HeldQty(s) + SumFunctionOnSet(f, Moving(s))
        BY DEF HeldSeen, SumFunction
      <3>3. HeldQty(s) \in Int
        BY <2>1, UnitSums DEF IsoInv, HandsInv
      <3>4. CASE InTransit(c)
        <4>1. f[c] = Units(Ticket(c)) /\ f[c] \in Int
          BY <2>1, <3>1, <3>4, UnitsInt
        <4> HIDE DEF f
        <4>2. IsFiniteSet({}) /\ SumFunctionOnSet(f, {}) = 0
          BY FS_EmptySet, SumEmpty
        <4>3. Moving(s) = {} \cup {c}
          BY <3>1, <3>4
        <4> DEFINE M == Moving(s)
        <4>4. SumFunctionOnSet(f, M) = SumFunctionOnSet(f, {}) + f[c]
          <5>1. M = {} \cup {c}
            BY <4>3
          <5> HIDE DEF M
          <5> QED
            BY <4>1, <4>2, <5>1, SumGain
        <4>5. SumFunctionOnSet(f, Moving(s)) = Units(Ticket(c))
          BY <4>1, <4>2, <4>4
        <4> QED
          BY <3>2, <3>4, <4>5
      <3>5. CASE ~InTransit(c)
        <4>1. Moving(s) = {}
          BY <3>1, <3>5
        <4> HIDE DEF f
        <4>2. SumFunctionOnSet(f, {}) = 0
          BY SumEmpty
        <4> QED
          BY <3>2, <3>3, <3>5, <4>1, <4>2
      <3> QED
        BY <3>4, <3>5
    <2> QED
      BY <2>1, <2>2, <2>4, <2>5, <2>6 DEF SeenRunning
  <1> QED
    BY <1>1, <1>2 DEF SeenFacts

-----------------------------------------------------------------------------
(* What a step of one call leaves of the abstract state.                   *)

LedgerView == <<cash, [s \in Symbols |-> HeldSeen(s)], [o \in Orders |-> StatusSeen(o)],
                [o \in Orders |-> TicketSeen(o)], [o \in Orders |-> PriceSeen(o)]>>

LEMMA HeldKept ==
  ASSUME NEW s, positions'[s] = positions[s],
         \A d \in Calls : (d \in Moving(s))' <=> d \in Moving(s),
         \A d \in Moving(s) : Ticket(d)' = Ticket(d)
  PROVE  HeldSeen(s)' = HeldSeen(s)
  <1>1. Moving(s)' = Moving(s)
    BY DEF Moving
  <1>2. [c \in Moving(s) |-> Units(Ticket(c))]' = [c \in Moving(s) |-> Units(Ticket(c))]
    BY <1>1 DEF Units
  <1>3. HeldQty(s)' = HeldQty(s)
    BY DEF HeldQty
  <1> QED
    BY <1>2, <1>3 DEF HeldSeen

LEMMA FateKept ==
  ASSUME NEW o, orders'[o] = orders[o],
         \A d \in Calls : (d \in Deciding(o))' <=> d \in Deciding(o),
         \A d \in Deciding(o) : call'[d] = call[d]
  PROVE  StatusSeen(o)' = StatusSeen(o) /\ PriceSeen(o)' = PriceSeen(o)
  <1>1. Deciding(o)' = Deciding(o)
    BY DEF Deciding
  <1>2. StatusSeen(o)' = StatusSeen(o)
    BY <1>1 DEF StatusSeen
  <1>3. Deciding(o) # {} => (CHOOSE c \in Deciding(o) : TRUE) \in Deciding(o)
    OBVIOUS
  <1> QED
    BY <1>1, <1>2, <1>3 DEF PriceSeen

(* The orders and the symbols of the other calls look the same.            *)
LEMMA SeenElsewhere ==
  ASSUME IsoInv, NEW c \in Calls, Step(c)
  PROVE  /\ \A o \in Orders : TicketSeen(o)' = TicketSeen(o)
         /\ \A o \in Orders : o # call[c].order =>
              StatusSeen(o)' = StatusSeen(o) /\ PriceSeen(o)' = PriceSeen(o)
         /\ \A s \in Symbols : s # Sym(c) => HeldSeen(s)' = HeldSeen(s)
  <1>0. Inv
    BY DEF IsoInv, OnceInv
  <1>1. /\ Active(c) /\ Ticket(c)' = Ticket(c) /\ UNCHANGED overlapped
        /\ \A d \in Calls : d # c => call'[d] = call[d]
        /\ \A s \in Symbols : s # Sym(c) => positions'[s] = positions[s]
    BY <1>0, StepStaysHome
  <1>2. /\ \A o \in Orders : /\ orders'[o] = NoOrder <=> orders[o] = NoOrder
                             /\ orders[o] # NoOrder => orders'[o].ticket = orders[o].ticket
        /\ call'[c].order = call[c].order
    BY <1>0, EngineKeeps
  <1>3. \A o \in Orders : TicketSeen(o)' = TicketSeen(o)
    BY <1>2 DEF TicketSeen
  <1>4. ASSUME NEW o \in Orders, o # call[c].order
        PROVE  StatusSeen(o)' = StatusSeen(o) /\ PriceSeen(o)' = PriceSeen(o)
    <2>1. orders'[o] = orders[o]
      BY <1>0, <1>4, MarksItsOwn
    <2>2. /\ \A d \in Calls : (d \in Deciding(o))' <=> d \in Deciding(o)
          /\ \A d \in Deciding(o) : call'[d] = call[d]
      BY <1>1, <1>2, <1>4 DEF Deciding
    <2> QED
      BY <2>1, <2>2, FateKept
  <1>5. ASSUME NEW s \in Symbols, s # Sym(c) PROVE HeldSeen(s)' = HeldSeen(s)
    <2>1. /\ \A d \in Calls : (d \in Moving(s))' <=> d \in Moving(s)
          /\ \A d \in Moving(s) : Ticket(d)' = Ticket(d)
      BY <1>1, <1>5 DEF Moving, Sym, Ticket
    <2> QED
      BY <1>1, <1>5, <2>1, HeldKept
  <1> QED
    BY <1>3, <1>4, <1>5

(* The order and the symbol of the call itself, before and after its step. *)
LEMMA SeenOfOwn ==
  ASSUME IsoInv, IsoInv', NEW c \in Calls, Step(c),
         NEW o \in Orders, o = call[c].order, NEW s \in Symbols, s = Sym(c)
  PROVE  /\ SeenRunning(c, o, s)
         /\ call'[c].order = o /\ Ticket(c)' = Ticket(c) /\ Sym(c)' = s
         /\ Active(c)' => SeenRunning(c, o, s)'
         /\ ~Active(c)' => SeenStored(o)'
  <1>0. Inv
    BY DEF IsoInv, OnceInv
  <1>1. /\ Active(c) /\ Ticket(c)' = Ticket(c)
        /\ \A d \in Calls : d # c => call'[d] = call[d]
    BY <1>0, StepStaysHome
  <1>2. call'[c].order = o /\ Sym(c)' = s
    BY <1>0, <1>1, EngineKeeps DEF Sym
  <1>3. SeenRunning(c, o, s)
    BY <1>1, SeenFromAwaits DEF SeenFacts
  <1>4. (IsoInv => SeenFacts)'
    BY SeenFromAwaits, PTL
  <1>5. \A d \in Calls : Active(d) /\ d # c => call[d].order # o
    BY <1>1, AloneOnOrder
  <1>6. \A d \in Calls : Active(d)' /\ d # c => call'[d].order # o
    BY <1>1, <1>5 DEF Active
  <1>7. SeenFacts'
    BY <1>4
  <1>8. /\ Active(c)' => SeenRunning(c, o, s)'
        /\ (\A d \in Calls : Active(d)' => call'[d].order # o) => SeenStored(o)'
    BY <1>2, <1>7 DEF SeenFacts
  <1> QED
    BY <1>1, <1>2, <1>3, <1>6, <1>8

(* A step that leaves what is seen of its own order and symbol, and the    *)
(* cash, is a stutter of FillLedger.                                       *)
LEMMA LooksTheSame ==
  ASSUME IsoInv, NEW c \in Calls, Step(c),
         NEW o \in Orders, o = call[c].order, NEW s \in Symbols, s = Sym(c),
         cash' = cash, StatusSeen(o)' = StatusSeen(o), PriceSeen(o)' = PriceSeen(o),
         HeldSeen(s)' = HeldSeen(s)
  PROVE  UNCHANGED LedgerView
  <1>1. /\ \A p \in Orders : /\ TicketSeen(p)' = TicketSeen(p) /\ StatusSeen(p)' = StatusSeen(p)
                             /\ PriceSeen(p)' = PriceSeen(p)
        /\ \A r \in Symbols : HeldSeen(r)' = HeldSeen(r)
    BY SeenElsewhere
  <1> QED
    BY <1>1 DEF LedgerView

(* A step that moves its cash, units and status as its ticket says fills   *)
(* the order.                                                              *)
LEMMA LooksFilled ==
  ASSUME IsoInv, NEW c \in Calls, Step(c), HasPrice(c),
         NEW o \in Orders, o = call[c].order, NEW s \in Symbols, s = Sym(c),
         SeenRunning(c, o, s), StatusSeen(o) = "PENDING", StatusSeen(o)' = "EXECUTED",
         PriceSeen(o)' = call[c].price, HeldSeen(s)' = HeldSeen(s) + Units(Ticket(c)),
         IF Ticket(c).side = "BUY" THEN cash >= Cost(c) /\ cash' = cash - Cost(c)
         ELSE HeldSeen(s) >= Ticket(c).qty /\ cash' = cash + Cost(c)
  PROVE  Ledger!Fill(o, call[c].price) /\ call[c].price \in Prices
  <1> DEFINE p == call[c].price
             t == Ticket(c)
             sign == IF t.side = "BUY" THEN 1 ELSE -1
  <1>1. p \in Prices /\ t \in Tickets /\ Reachable(t, p) /\ cash \in Int
    BY DEF IsoInv, OnceInv, Inv, TypeOK, CallOK, HasPrice, HasTicket, Ticket
  <1>2. p \in Nat /\ t.qty \in Nat /\ t.symbol = s
    BY <1>1, PriceFacts, TicketFacts DEF Sym
  <1>3. /\ cash' = cash - sign * p * t.qty
        /\ sign * t.qty = Units(t)
    <2>1. \A m, n \in Nat : /\ 1 * m * n = m * n /\ -1 * m * n = -(m * n)
                            /\ m * n \in Int /\ 1 * n = n /\ -1 * n = -n
      OBVIOUS
    <2>2. Cost(c) = p * t.qty
      BY DEF Cost
    <2> HIDE DEF p, t
    <2> QED
      BY <1>1, <1>2, <2>1, <2>2 DEF Units, t
  <1>4. TicketSeen(o) = t
    BY DEF SeenRunning
  <1>5. /\ \A q \in Orders : TicketSeen(q)' = TicketSeen(q)
        /\ \A q \in Orders : q # o => StatusSeen(q)' = StatusSeen(q) /\ PriceSeen(q)' = PriceSeen(q)
        /\ \A r \in Symbols : r # s => HeldSeen(r)' = HeldSeen(r)
    BY SeenElsewhere
  <1> HIDE DEF sign
  <1>6. [r \in Symbols |-> HeldSeen(r)]'
          = [[r \in Symbols |-> HeldSeen(r)] EXCEPT ![t.symbol] = @ + sign * t.qty]
    BY <1>2, <1>3, <1>5
  <1>7. /\ [q \in Orders |-> StatusSeen(q)]'
             = [[q \in Orders |-> StatusSeen(q)] EXCEPT ![o] = "EXECUTED"]
        /\ [q \in Orders |-> PriceSeen(q)]' = [[q \in Orders |-> PriceSeen(q)] EXCEPT ![o] = p]
        /\ UNCHANGED [q \in Orders |-> TicketSeen(q)]
    BY <1>5
  <1>8. Ledger!Reached(t, p)
    BY <1>1 DEF Reachable, Ledger!Reached
  <1>9. Ledger!Covered(t, p)
    BY <1>2 DEF Ledger!Covered, Cost
  <1> QED
    BY <1>1, <1>3, <1>4, <1>6, <1>7, <1>8, <1>9 DEF Ledger!Fill, sign

(* A step that only turns the status REJECTED, for want of cash or units,  *)
(* rejects the order.                                                      *)
LEMMA LooksRejected ==
  ASSUME IsoInv, NEW c \in Calls, Step(c), HasPrice(c),
         NEW o \in Orders, o = call[c].order, NEW s \in Symbols, s = Sym(c),
         SeenRunning(c, o, s), StatusSeen(o) = "PENDING", StatusSeen(o)' = "REJECTED",
         PriceSeen(o)' = PriceSeen(o), HeldSeen(s)' = HeldSeen(s), cash' = cash,
         IF Ticket(c).side = "BUY" THEN ~(cash >= Cost(c)) ELSE ~(HeldSeen(s) >= Ticket(c).qty)
  PROVE  Ledger!Reject(o)
  <1> DEFINE p == call[c].price
             t == Ticket(c)
  <1>1. p \in Prices /\ t \in Tickets /\ Reachable(t, p)
    BY DEF IsoInv, OnceInv, Inv, TypeOK, CallOK, HasPrice, HasTicket, Ticket
  <1>2. t.symbol = s /\ TicketSeen(o) = t
    BY DEF Sym, SeenRunning
  <1>3. /\ \A q \in Orders : TicketSeen(q)' = TicketSeen(q) /\ PriceSeen(q)' = PriceSeen(q)
        /\ \A q \in Orders : q # o => StatusSeen(q)' = StatusSeen(q)
        /\ \A r \in Symbols : HeldSeen(r)' = HeldSeen(r)
    BY SeenElsewhere
  <1>4. /\ [q \in Orders |-> StatusSeen(q)]'
             = [[q \in Orders |-> StatusSeen(q)] EXCEPT ![o] = "REJECTED"]
        /\ UNCHANGED <<[q \in Orders |-> TicketSeen(q)], [q \in Orders |-> PriceSeen(q)],
                       [r \in Symbols |-> HeldSeen(r)]>>
    BY <1>3
  <1>5. Ledger!Reached(t, p)
    BY <1>1 DEF Reachable, Ledger!Reached
  <1>6. ~Ledger!Covered(t, p)
    BY <1>2 DEF Ledger!Covered, Cost
  <1> QED
    BY <1>1, <1>2, <1>4, <1>5, <1>6 DEF Ledger!Reject

-----------------------------------------------------------------------------
(* Each await is a fill, a rejection or a stutter of FillLedger.           *)

LEMMA QuoteStutters ==
  ASSUME IsoInv, IsoInv', NEW c \in Calls, Quote(c)
  PROVE  UNCHANGED LedgerView
  <1>0. Inv /\ call \in [Calls -> CallState] /\ Step(c) /\ Active(c)
    BY DEF IsoInv, OnceInv, Inv, TypeOK, Step, Quote, Active, Waiting
  <1>1. PICK o \in Orders, s \in Symbols : o = call[c].order /\ s = Sym(c)
    BY <1>0, AloneOnOrder
  <1>2. /\ SeenRunning(c, o, s) /\ (Active(c)' => SeenRunning(c, o, s)')
        /\ (~Active(c)' => SeenStored(o)')
    BY <1>0, <1>1, SeenOfOwn
  <1>3. /\ call[c].pc = "quote" /\ call'[c].pc \in {"debit", "holding", "refused"}
        /\ UNCHANGED <<cash, positions, orders>>
    BY <1>0 DEF Quote, Goto, CallState, db
  <1>4. orders[o] # NoOrder /\ orders[o].status = "PENDING"
    BY <1>0, <1>1, AloneOnOrder
  <1>5. StatusSeen(o) = "PENDING" /\ PriceSeen(o) = 0
    BY <1>2, <1>3 DEF SeenRunning, Filling
  <1>6. StatusSeen(o)' = "PENDING" /\ PriceSeen(o)' = 0
    <2>1. CASE Active(c)'
      BY <1>2, <1>3, <2>1 DEF SeenRunning, Filling
    <2>2. CASE ~Active(c)'
      BY <1>2, <1>3, <1>4, <2>2 DEF SeenStored
    <2> QED
      BY <2>1, <2>2
  <1>7. HeldSeen(s)' = HeldSeen(s)
    <2>1. \A d \in Calls : d # c => call'[d] = call[d]
      BY <1>0, StepStaysHome
    <2>2. \A d \in Calls : (d \in Moving(s))' <=> d \in Moving(s)
      BY <1>3, <2>1 DEF Moving, Sym, Ticket
    <2>3. \A d \in Moving(s) : Ticket(d)' = Ticket(d)
      BY <1>3, <2>1 DEF Moving, Ticket
    <2> QED
      BY <1>3, <2>2, <2>3, HeldKept
  <1> QED
    BY <1>0, <1>1, <1>3, <1>5, <1>6, <1>7, LooksTheSame

LEMMA DebitDecides ==
  ASSUME IsoInv, IsoInv', NEW c \in Calls, Debit(c)
  PROVE  Ledger!Next
  <1>0. Inv /\ Step(c) /\ Active(c) /\ HasPrice(c) /\ Ticket(c).side = "BUY" /\ cash \in Int
    BY DEF IsoInv, OnceInv, Inv, TypeOK, CallOK, Buying, Ticket, Step, Debit, HasPrice,
           Active, Waiting
  <1>1. PICK o \in Orders, s \in Symbols : o = call[c].order /\ s = Sym(c)
    BY <1>0, AloneOnOrder
  <1>2. /\ SeenRunning(c, o, s) /\ Ticket(c)' = Ticket(c)
        /\ (Active(c)' => SeenRunning(c, o, s)')
    BY <1>0, <1>1, SeenOfOwn
  <1>3. /\ call[c].pc = "debit" /\ call'[c].price = call[c].price /\ positions' = positions
        /\ IF Affordable(c) THEN call'[c].pc = "find" /\ cash' = cash - Cost(c)
           ELSE call'[c].pc = "reject" /\ cash' = cash
    BY <1>0, GotoKeeps DEF Debit
  <1>4. StatusSeen(o) = "PENDING" /\ PriceSeen(o) = 0 /\ HeldSeen(s) = HeldQty(s)
    BY <1>2, <1>3 DEF SeenRunning, Filling, InTransit
  <1>5. SeenRunning(c, o, s)' /\ HeldQty(s)' = HeldQty(s)
    BY <1>2, <1>3 DEF Active, Waiting, HeldQty
  <1>6. CASE Affordable(c)
    <2>1. StatusSeen(o)' = "EXECUTED" /\ PriceSeen(o)' = call[c].price
          /\ HeldSeen(s)' = HeldSeen(s) + Units(Ticket(c))
      BY <1>2, <1>3, <1>4, <1>5, <1>6 DEF SeenRunning, Filling, InTransit, Units
    <2>2. cash >= Cost(c) /\ cash' = cash - Cost(c)
      BY <1>3, <1>6 DEF Affordable
    <2> QED
      BY <1>0, <1>1, <1>2, <1>4, <2>1, <2>2, LooksFilled DEF Ledger!Next
  <1>7. CASE ~Affordable(c)
    <2>1. StatusSeen(o)' = "REJECTED" /\ PriceSeen(o)' = 0 /\ HeldSeen(s)' = HeldSeen(s)
      BY <1>2, <1>3, <1>4, <1>5, <1>7 DEF SeenRunning, Filling, InTransit
    <2>2. ~(cash >= Cost(c)) /\ cash' = cash
      BY <1>3, <1>7 DEF Affordable
    <2>3. Ledger!Reject(o)
      BY <1>0, <1>1, <1>2, <1>4, <2>1, <2>2, LooksRejected
    <2> QED
      BY <2>3 DEF Ledger!Next
  <1> QED
    BY <1>6, <1>7

LEMMA HoldingDecides ==
  ASSUME IsoInv, IsoInv', NEW c \in Calls, ReadHolding(c)
  PROVE  Ledger!Next \/ UNCHANGED LedgerView
  <1>0. /\ Inv /\ call \in [Calls -> CallState] /\ Step(c) /\ Active(c) /\ HasPrice(c)
        /\ Ticket(c).side # "BUY" /\ positions \in [Symbols -> Row \cup {NoRow}]
    BY DEF IsoInv, OnceInv, Inv, TypeOK, CallOK, Selling, Ticket, Step, ReadHolding, HasPrice,
           Active, Waiting
  <1>1. PICK o \in Orders, s \in Symbols : o = call[c].order /\ s = Sym(c)
    BY <1>0, AloneOnOrder
  <1>2. /\ SeenRunning(c, o, s) /\ Ticket(c)' = Ticket(c)
        /\ (Active(c)' => SeenRunning(c, o, s)')
    BY <1>0, <1>1, SeenOfOwn
  <1>3. /\ call[c].pc = "holding" /\ UNCHANGED <<cash, positions>>
        /\ call'[c].pc = IF Sellable(c) THEN "credit" ELSE "reject"
    BY <1>0 DEF ReadHolding, Goto, CallState, db
  <1>4. StatusSeen(o) = "PENDING" /\ PriceSeen(o) = 0 /\ HeldSeen(s) = HeldQty(s)
    BY <1>2, <1>3 DEF SeenRunning, Filling, InTransit
  <1>5. SeenRunning(c, o, s)' /\ HeldQty(s)' = HeldQty(s)
    BY <1>2, <1>3 DEF Active, Waiting, HeldQty
  <1>6. CASE Sellable(c)
    <2>1. StatusSeen(o)' = "PENDING" /\ PriceSeen(o)' = 0 /\ HeldSeen(s)' = HeldSeen(s)
      BY <1>2, <1>3, <1>4, <1>5, <1>6 DEF SeenRunning, Filling, InTransit
    <2> QED
      BY <1>0, <1>1, <1>3, <1>4, <2>1, LooksTheSame
  <1>7. CASE ~Sellable(c)
    <2>1. StatusSeen(o)' = "REJECTED" /\ PriceSeen(o)' = 0 /\ HeldSeen(s)' = HeldSeen(s)
      BY <1>2, <1>3, <1>4, <1>5, <1>7 DEF SeenRunning, Filling, InTransit
    <2>2. ~(HeldSeen(s) >= Ticket(c).qty)
      <3>1. Ticket(c).qty \in Nat /\ Ticket(c).qty > 0
        BY <1>0, AloneOnOrder, TicketFacts
      <3> QED
        BY <1>1, <1>4, <1>7, <3>1 DEF Sellable, HeldQty
    <2>3. Ledger!Reject(o)
      BY <1>0, <1>1, <1>2, <1>3, <1>4, <2>1, <2>2, LooksRejected
    <2> QED
      BY <2>3 DEF Ledger!Next
  <1> QED
    BY <1>6, <1>7

LEMMA CreditFills ==
  ASSUME IsoInv, IsoInv', NEW c \in Calls, Credit(c)
  PROVE  Ledger!Next
  <1>0. /\ Inv /\ Step(c) /\ Active(c) /\ HasPrice(c)
        /\ Ticket(c).side # "BUY" /\ call[c].row \in Row /\ call[c].row.qty >= Ticket(c).qty
    <2>1. /\ Inv /\ CallOK(c) /\ call[c].pc = "credit" /\ Step(c) /\ Active(c)
          /\ Ticket(c) \in Tickets
      BY AloneOnOrder DEF IsoInv, OnceInv, Inv, Step, Credit, Active, Waiting
    <2>2. Ticket(c).side # "BUY" /\ call[c].ticket.side = "SELL"
      BY <2>1 DEF CallOK, Selling, Ticket
    <2> QED
      BY <2>1, <2>2 DEF CallOK, HoldsRow, HasPrice, Waiting, Ticket
  <1>1. PICK o \in Orders, s \in Symbols : o = call[c].order /\ s = Sym(c)
    BY <1>0, AloneOnOrder
  <1>2. /\ SeenRunning(c, o, s) /\ Ticket(c)' = Ticket(c)
        /\ (Active(c)' => SeenRunning(c, o, s)')
    BY <1>0, <1>1, SeenOfOwn
  <1>3. /\ call[c].pc = "credit" /\ call'[c].price = call[c].price /\ positions' = positions
        /\ call'[c].pc = "reduce" /\ cash' = cash + Cost(c)
    BY <1>0, GotoKeeps DEF Credit
  <1>4. StatusSeen(o) = "PENDING" /\ PriceSeen(o) = 0 /\ HeldSeen(s) = HeldQty(s)
    BY <1>2, <1>3 DEF SeenRunning, Filling, InTransit
  <1>5. SeenRunning(c, o, s)' /\ HeldQty(s)' = HeldQty(s)
    BY <1>2, <1>3 DEF Active, Waiting, HeldQty
  <1>6. StatusSeen(o)' = "EXECUTED" /\ PriceSeen(o)' = call[c].price
        /\ HeldSeen(s)' = HeldSeen(s) + Units(Ticket(c))
    BY <1>2, <1>3, <1>4, <1>5 DEF SeenRunning, Filling, InTransit, Units
  <1>7. HeldSeen(s) >= Ticket(c).qty
    <2>1. Copies(call[c].row, positions[s])
      BY <1>1, <1>3 DEF IsoInv, HandsInv, CopiesFresh
    <2> QED
      BY <1>0, <1>4, <2>1, NoRowIsNoRow DEF Copies, HeldQty
  <1> QED
    BY <1>0, <1>1, <1>2, <1>3, <1>4, <1>6, <1>7, LooksFilled DEF Ledger!Next

(* A call that ends without moving units leaves those seen.                *)
LEMMA HeldAtEnd ==
  ASSUME IsoInv, NEW c \in Calls, Step(c), NEW s \in Symbols, UNCHANGED positions,
         ~InTransit(c), ~InTransit(c)'
  PROVE  HeldSeen(s)' = HeldSeen(s)
  <1>1. \A d \in Calls : d # c => call'[d] = call[d]
    BY StepStaysHome DEF IsoInv, OnceInv
  <1>2. \A d \in Calls : (d \in Moving(s))' <=> d \in Moving(s)
    BY <1>1 DEF Moving, InTransit, Sym, Ticket
  <1>3. \A d \in Moving(s) : Ticket(d)' = Ticket(d)
    BY <1>1 DEF Moving, InTransit, Ticket
  <1> QED
    BY <1>2, <1>3, HeldKept

LEMMA RejectStutters ==
  ASSUME IsoInv, IsoInv', NEW c \in Calls, Reject(c)
  PROVE  UNCHANGED LedgerView
  <1>0. /\ Inv /\ Step(c) /\ Active(c) /\ orders \in [Orders -> OrderDoc \cup {NoOrder}]
    BY DEF IsoInv, OnceInv, Inv, TypeOK, Step, Reject, Active, Waiting
  <1>1. PICK o \in Orders, s \in Symbols : o = call[c].order /\ s = Sym(c)
    BY <1>0, AloneOnOrder
  <1>2. /\ call[c].pc = "reject" /\ call'[c].pc = "refused" /\ UNCHANGED <<cash, positions>>
        /\ orders[o] # NoOrder /\ orders' = [orders EXCEPT ![o].status = "REJECTED"]
    BY <1>0, <1>1, AloneOnOrder, GotoKeeps DEF Reject
  <1>3. SeenRunning(c, o, s) /\ SeenStored(o)'
    BY <1>0, <1>1, <1>2, SeenOfOwn DEF Active, Waiting
  <1>4. orders'[o].status = "REJECTED" /\ orders'[o] # NoOrder
    <2>1. orders[o] \in OrderDoc
      BY <1>0, <1>2
    <2>2. orders'[o] \in OrderDoc /\ orders'[o].status = "REJECTED"
      BY <1>0, <1>2, <2>1 DEF OrderDoc
    <2> QED
      BY <2>2, NoOrderAssumption
  <1>5. StatusSeen(o) = "REJECTED" /\ PriceSeen(o) = 0
    BY <1>2, <1>3 DEF SeenRunning, Filling
  <1>6. StatusSeen(o)' = "REJECTED" /\ PriceSeen(o)' = 0
    BY <1>3, <1>4 DEF SeenStored
  <1>7. HeldSeen(s)' = HeldSeen(s)
    BY <1>0, <1>2, HeldAtEnd DEF InTransit
  <1> QED
    BY <1>0, <1>1, <1>2, <1>5, <1>6, <1>7, LooksTheSame

LEMMA CommitStutters ==
  ASSUME IsoInv, IsoInv', NEW c \in Calls, Commit(c)
  PROVE  UNCHANGED LedgerView
  <1>0. /\ Inv /\ Step(c) /\ Active(c) /\ orders \in [Orders -> OrderDoc \cup {NoOrder}]
    BY DEF IsoInv, OnceInv, Inv, TypeOK, Step, Commit, Active, Waiting
  <1>1. PICK o \in Orders, s \in Symbols : o = call[c].order /\ s = Sym(c)
    BY <1>0, AloneOnOrder
  <1>2. /\ call[c].pc = "commit" /\ call'[c].pc = "done" /\ UNCHANGED <<cash, positions>>
        /\ orders[o] # NoOrder
    BY <1>0, <1>1, AloneOnOrder, GotoKeeps DEF Commit
  <1>3. SeenRunning(c, o, s) /\ SeenStored(o)'
    BY <1>0, <1>1, <1>2, SeenOfOwn DEF Active, Waiting
  <1>4. /\ orders'[o].status = "EXECUTED" /\ orders'[o].price = call[c].price
        /\ orders'[o] # NoOrder
    BY <1>0, <1>1, <1>2, CommitMarks, EngineKeeps
  <1>5. StatusSeen(o) = "EXECUTED" /\ PriceSeen(o) = call[c].price
    BY <1>2, <1>3 DEF SeenRunning, Filling
  <1>6. StatusSeen(o)' = "EXECUTED" /\ PriceSeen(o)' = call[c].price
    BY <1>3, <1>4 DEF SeenStored
  <1>7. HeldSeen(s)' = HeldSeen(s)
    BY <1>0, <1>2, HeldAtEnd DEF InTransit
  <1> QED
    BY <1>0, <1>1, <1>2, <1>5, <1>6, <1>7, LooksTheSame

(* The awaits between the movement of the cash and the commit.             *)
LEMMA WritesStutter ==
  ASSUME IsoInv, IsoInv', NEW c \in Calls,
         FindPosition(c) \/ Upsert(c) \/ Reduce(c) \/ RecordTrade(c)
  PROVE  UNCHANGED LedgerView
  <1>0. /\ Inv /\ HandsInv /\ overlapped = {} /\ call \in [Calls -> CallState] /\ Step(c)
        /\ Active(c)
    BY DEF IsoInv, OnceInv, Inv, TypeOK, Step, FindPosition, Upsert, Reduce, RecordTrade,
           Active, Waiting
  <1>1. PICK o \in Orders, s \in Symbols : o = call[c].order /\ s = Sym(c)
    BY <1>0, AloneOnOrder
  <1>2. /\ Filling(c) /\ Filling(c)' /\ call'[c].price = call[c].price /\ UNCHANGED cash
        /\ call[c].pc # "reject" /\ call'[c].pc # "reject"
    <2>1. CASE FindPosition(c)
      BY <1>0, <2>1 DEF FindPosition, Filling, CallState, db
    <2>2. CASE Upsert(c) \/ Reduce(c)
      <3>1. call'[c].pc = "trade"
        BY <1>0, <2>2, UnitsWritten
      <3> QED
        BY <1>0, <2>2, <3>1, GotoKeeps DEF Upsert, Reduce, Filling
    <2>3. CASE RecordTrade(c)
      BY <1>0, <2>3, GotoKeeps DEF RecordTrade, Filling
    <2> QED
      BY <2>1, <2>2, <2>3
  <1>3. SeenRunning(c, o, s) /\ SeenRunning(c, o, s)' /\ Ticket(c)' = Ticket(c) /\ Sym(c)' = s
    BY <1>0, <1>1, <1>2, SeenOfOwn DEF Active, Waiting, Filling
  <1>4. /\ StatusSeen(o) = "EXECUTED" /\ PriceSeen(o) = call[c].price
        /\ StatusSeen(o)' = "EXECUTED" /\ PriceSeen(o)' = call[c].price
    BY <1>2, <1>3 DEF SeenRunning
  <1>5. HeldSeen(s)' = HeldSeen(s)
    <2>1. CASE FindPosition(c)
      <3>1. InTransit(c) /\ InTransit(c)' /\ HeldQty(s)' = HeldQty(s)
        BY <1>0, <2>1 DEF FindPosition, InTransit, CallState, HeldQty, db
      <3> QED
        BY <1>3, <3>1 DEF SeenRunning, Units
    <2>2. CASE Upsert(c) \/ Reduce(c)
      <3>1. /\ HeldQty(Sym(c))' = HeldQty(Sym(c)) + Units(Ticket(c))
            /\ call'[c].pc = "trade"
        BY <1>0, <2>2, UnitsWritten
      <3>2. HeldQty(s)' = HeldQty(s) + Units(Ticket(c))
        BY <1>1, <1>3, <3>1 DEF HeldQty
      <3>3. InTransit(c) /\ ~InTransit(c)'
        BY <2>2, <3>1 DEF Upsert, Reduce, InTransit
      <3> QED
        BY <1>3, <3>2, <3>3 DEF SeenRunning
    <2>3. CASE RecordTrade(c)
      <3>1. ~InTransit(c) /\ ~InTransit(c)' /\ UNCHANGED positions
        BY <1>0, <2>3, GotoKeeps DEF RecordTrade, InTransit
      <3> QED
        BY <1>0, <3>1, HeldAtEnd
    <2> QED
      BY <2>1, <2>2, <2>3
  <1> QED
    BY <1>0, <1>1, <1>2, <1>4, <1>5, LooksTheSame

LEMMA PlacePlaces ==
  ASSUME IsoInv, NEW o \in Orders, NEW t \in Tickets, Place(o, t)
  PROVE  Ledger!Place(o, t)
  <1>1. /\ orders[o] = NoOrder /\ UNCHANGED <<cash, positions, call>>
        /\ orders' = [orders EXCEPT ![o] = [ticket |-> t, status |-> "PENDING", price |-> 0]]
        /\ orders \in [Orders -> OrderDoc \cup {NoOrder}]
    BY DEF Place, NewOrder, IsoInv, OnceInv, Inv, TypeOK
  <1>2. orders'[o] # NoOrder /\ orders'[o].status = "PENDING" /\ orders'[o].ticket = t
    <2>1. [ticket |-> t, status |-> "PENDING", price |-> 0] \in OrderDoc
      BY DEF OrderDoc
    <2> QED
      BY <1>1, <2>1, NoOrderAssumption
  <1>3. \A d \in Calls : Active(d) => call[d].order # o
    BY <1>1, AloneOnOrder
  <1>4. Deciding(o) = {} /\ Deciding(o)' = {}
    BY <1>1, <1>3 DEF Deciding, Active, Waiting
  <1>5. /\ StatusSeen(o) = "ABSENT" /\ PriceSeen(o) = 0
        /\ StatusSeen(o)' = "PENDING" /\ PriceSeen(o)' = 0 /\ TicketSeen(o)' = t
    BY <1>1, <1>2, <1>4 DEF StatusSeen, PriceSeen, TicketSeen
  <1>6. ASSUME NEW p \in Orders, p # o
        PROVE  /\ StatusSeen(p)' = StatusSeen(p) /\ PriceSeen(p)' = PriceSeen(p)
               /\ TicketSeen(p)' = TicketSeen(p)
    <2>1. orders'[p] = orders[p]
      BY <1>1, <1>6
    <2>2. StatusSeen(p)' = StatusSeen(p) /\ PriceSeen(p)' = PriceSeen(p)
      BY <1>1, <2>1, FateKept DEF Deciding
    <2> QED
      BY <2>1, <2>2 DEF TicketSeen
  <1>7. ASSUME NEW s \in Symbols PROVE HeldSeen(s)' = HeldSeen(s)
    BY <1>1, HeldKept DEF Moving, Sym, Ticket
  <1>8. /\ [q \in Orders |-> StatusSeen(q)]'
             = [[q \in Orders |-> StatusSeen(q)] EXCEPT ![o] = "PENDING"]
        /\ [q \in Orders |-> TicketSeen(q)]' = [[q \in Orders |-> TicketSeen(q)] EXCEPT ![o] = t]
        /\ UNCHANGED <<[q \in Orders |-> PriceSeen(q)], [r \in Symbols |-> HeldSeen(r)]>>
    BY <1>5, <1>6, <1>7
  <1> QED
    BY <1>1, <1>5, <1>8 DEF Ledger!Place

LEMMA StartStutters ==
  ASSUME IsoInv, NEW c \in Calls, NEW o \in Orders, Start(c, o)
  PROVE  UNCHANGED LedgerView
  <1>1. /\ UNCHANGED <<cash, positions, orders>> /\ call[c].pc = "idle"
        /\ call'[c].pc \in {"quote", "refused"}
        /\ \A d \in Calls : d # c => call'[d] = call[d]
    BY DEF Start, Goto, IsoInv, OnceInv, Inv, TypeOK, CallState, db
  <1>2. ASSUME NEW p \in Orders
        PROVE  /\ StatusSeen(p)' = StatusSeen(p) /\ PriceSeen(p)' = PriceSeen(p)
               /\ TicketSeen(p)' = TicketSeen(p)
    <2>1. /\ \A d \in Calls : (d \in Deciding(p))' <=> d \in Deciding(p)
          /\ \A d \in Deciding(p) : call'[d] = call[d]
      BY <1>1 DEF Deciding
    <2> QED
      BY <1>1, <2>1, FateKept DEF TicketSeen
  <1>3. ASSUME NEW s \in Symbols PROVE HeldSeen(s)' = HeldSeen(s)
    <2>1. /\ \A d \in Calls : (d \in Moving(s))' <=> d \in Moving(s)
          /\ \A d \in Moving(s) : Ticket(d)' = Ticket(d)
      BY <1>1 DEF Moving, Sym, Ticket
    <2> QED
      BY <1>1, <2>1, HeldKept
  <1> QED
    BY <1>1, <1>2, <1>3 DEF LedgerView

LEMMA SeenInit == Init => Ledger!Init
  <1> SUFFICES ASSUME Init PROVE Ledger!Init
    OBVIOUS
  <1>1. IsoInv /\ cash = InitialCash /\ \A c \in Calls : call[c].pc = "idle"
    BY IsoInit DEF Init, IdleCall
  <1>2. ASSUME NEW o \in Orders
        PROVE  StatusSeen(o) = "ABSENT" /\ TicketSeen(o) = NoOrder /\ PriceSeen(o) = 0
    BY DEF Init, StatusSeen, TicketSeen, PriceSeen
  <1>3. ASSUME NEW s \in Symbols PROVE HeldSeen(s) = InitialQty[s]
    <2> DEFINE f == [c \in Moving(s) |-> Units(Ticket(c))]
    <2>1. Moving(s) = {}
      BY <1>1 DEF Moving
    <2>2. HeldSeen(s) = HeldQty(s) + SumFunctionOnSet(f, {})
      BY <2>1 DEF HeldSeen, SumFunction
    <2> HIDE DEF f
    <2>3. SumFunctionOnSet(f, {}) = 0 /\ HeldQty(s) = InitialQty[s] /\ InitialQty[s] \in Int
      BY SumEmpty, HeldInit, OrderExecutionAssumption
    <2> QED
      BY <2>2, <2>3
  <1>4. InitialQty = [s \in Symbols |-> InitialQty[s]]
    BY OrderExecutionAssumption
  <1> QED
    BY <1>1, <1>2, <1>3, <1>4 DEF Ledger!Init

LEMMA SeenNext ==
  IsoInv /\ IsoInv' /\ [Next /\ Isolated]_vars => [Ledger!Next]_(Ledger!ledger)
  <1> SUFFICES ASSUME IsoInv, IsoInv', [Next /\ Isolated]_vars
               PROVE  Ledger!Next \/ UNCHANGED LedgerView
    BY DEF LedgerView, Ledger!ledger
  <1>1. CASE UNCHANGED vars
    <2>1. UNCHANGED <<cash, positions, orders, call>>
      BY <1>1 DEF vars, db
    <2>2. \A o \in Orders : StatusSeen(o)' = StatusSeen(o) /\ PriceSeen(o)' = PriceSeen(o)
                            /\ TicketSeen(o)' = TicketSeen(o)
      BY <2>1, FateKept DEF Deciding, TicketSeen
    <2>3. \A s \in Symbols : HeldSeen(s)' = HeldSeen(s)
      BY <2>1, HeldKept DEF Moving, Sym, Ticket
    <2> QED
      BY <2>1, <2>2, <2>3 DEF LedgerView
  <1>2. ASSUME NEW o \in Orders, NEW t \in Tickets, Place(o, t) PROVE Ledger!Next
    BY <1>2, PlacePlaces DEF Ledger!Next
  <1>3. ASSUME NEW c \in Calls, NEW o \in Orders, Start(c, o) PROVE UNCHANGED LedgerView
    BY <1>3, StartStutters
  <1>4. ASSUME NEW c \in Calls, Step(c) PROVE Ledger!Next \/ UNCHANGED LedgerView
    <2>1. ~Undo(c)
      BY DEF IsoInv, Undo
    <2> QED
      BY <1>4, <2>1, QuoteStutters, DebitDecides, HoldingDecides, CreditFills, RejectStutters,
         CommitStutters, WritesStutter DEF Step
  <1>5. ASSUME ~UNCHANGED vars PROVE ~Crash /\ \A c \in Calls : ~Fault(c)
    BY <1>5 DEF Isolated, Crash, Fault, IsoInv, OnceInv, Inv, TypeOK
  <1> QED
    BY <1>1, <1>2, <1>3, <1>4, <1>5 DEF Next

(* For any number of calls, orders and symbols, and whatever the amounts:  *)
(* as long as the executions on one symbol do not overlap and no write     *)
(* fails, executeOrder's eleven awaits (49-188) are one atomic fill or one *)
(* rejection, made when the cash moves or is found wanting, even while     *)
(* orders on other symbols spend the same cash.                            *)
THEOREM FillingIsAtomic == IsolatedSpec => FillsAtomically
  <1>1. IsolatedSpec => []IsoInv
    BY IsoInit, IsoNext, PTL DEF IsolatedSpec
  <1>2. QED
    BY <1>1, SeenInit, SeenNext, PTL DEF IsolatedSpec, FillsAtomically, Ledger!LedgerSpec
=============================================================================
