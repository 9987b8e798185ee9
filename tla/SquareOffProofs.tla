-------------------------- MODULE SquareOffProofs --------------------------
(***************************************************************************)
(* What holds of the square-off for any number of positions, orders and    *)
(* calls, while the user trades as he likes.                               *)
(*                                                                         *)
(* The argument has five parts, each resting on those before it:           *)
(*   Traced       calls, orders and trades name one another truly;         *)
(*   JobOK        where the loop is, and what it has accounted for;        *)
(*   Undisturbed  what is left open if nobody else trades, nothing fails;  *)
(*   InStock      what the snapshot counts is held, until units are sold;  *)
(*   Scarce       and no more is held, until the user buys.                *)
(***************************************************************************)
EXTENDS SquareOff, OrderExecutionProofs

(* Any quantity that is held may be ordered to be sold.  It is so in the   *)
(* program; an instance for TLC lists in Tickets those it can reach.       *)
Closable ==
  \A s \in Symbols, q \in Nat \ {0} : SellTicket([symbol |-> s, qty |-> q]) \in Tickets

Traced ==
  /\ \A c \in Calls :
       /\ call[c].order # NoOrder =>
            /\ call[c].order \in Orders /\ orders[call[c].order] # NoOrder
            /\ call[c].ticket = orders[call[c].order].ticket
       /\ call[c].order = NoOrder =>
            call[c].ticket = NoOrder /\ call[c].pc \in {"idle", "refused"}
       /\ call[c].pc = "idle" => call[c].order = NoOrder
  /\ \A t \in trades : Started(t.id) /\ call[t.id].ticket = t.ticket
  /\ \A c, d \in Calls : Active(c) /\ Active(d) /\ c # d /\ Sym(c) = Sym(d) =>
       Sym(c) \in overlapped

JobOK ==
  /\ job \in JobState
  /\ job.pc = "idle" => job.snap = {}
  /\ \A lot \in job.snap : lot.qty > 0
  /\ \A lot, other \in job.snap : lot.symbol = other.symbol => lot = other
  /\ job.todo \cup job.closed \cup job.failed \subseteq job.snap
  /\ job.pc \in {"next", "done"} => job.snap = job.todo \cup job.closed \cup job.failed
  /\ job.pc = "done" => job.todo = {}
  /\ job.pc \in {"execute", "wait"} =>
       /\ job.lot \in job.snap \ job.todo
       /\ job.snap = job.todo \cup job.closed \cup job.failed \cup {job.lot}
       /\ job.order \in CloseOrders /\ orders[job.order] # NoOrder
       /\ orders[job.order].ticket = SellTicket(job.lot)
  /\ job.pc = "wait" =>
       job.run \in Closers /\ Started(job.run) /\ call[job.run].order \in {NoOrder, job.order}
  /\ \A lot \in job.closed : \E t \in trades : t.id \in Closers /\ t.ticket = SellTicket(lot)

OursOnly ==
  /\ \A o \in CloseOrders : orders[o] # NoOrder =>
       job.pc # "idle" /\ \E lot \in job.snap : orders[o].ticket = SellTicket(lot)
  /\ \A c \in Closers :
       /\ Active(c) => job.pc = "wait" /\ job.run = c
       /\ call[c].order \in CloseOrders \cup {NoOrder}

JobInv == Inv /\ TradeMeansPaid /\ Traced /\ JobOK /\ OursOnly

-----------------------------------------------------------------------------
(* The kinds of step there are.                                            *)

Quiet == UNCHANGED <<db, call, crashes, overlapped>> /\ faults' \in Nat
Placed == \E o \in Orders, t \in Tickets : Place(o, t)
Began == \E c \in Calls, o \in Orders : orders[o] # NoOrder /\ Start(c, o)
Ran == \E c \in Calls : Step(c) \/ Fault(c)

LEMMA LotsAreTickets ==
  ASSUME Closable, NEW lot \in Lot, lot.qty > 0
  PROVE  SellTicket(lot) \in Tickets
  <1>1. lot = [symbol |-> lot.symbol, qty |-> lot.qty] /\ lot.symbol \in Symbols
        /\ lot.qty \in Nat \ {0}
    BY DEF Lot
  <1>2. QED
    BY <1>1 DEF Closable

LEMMA Kinds ==
  ASSUME Closable, Inv, JobOK, [SquareOffNext]_svars
  PROVE  Quiet \/ Placed \/ Began \/ Ran \/ Crash
  <1>1. CASE UNCHANGED vars
    BY <1>1 DEF vars, db, env, Quiet, Inv, TypeOK
  <1>2. CASE CreateFails \/ CloseEnded
    <2>1. faults \in Nat
      BY DEF Inv, TypeOK
    <2>2. faults' = faults \/ faults' = faults + 1
      BY <1>2, Zenon DEF CreateFails, CloseEnded
    <2>3. UNCHANGED <<db, call, crashes, overlapped>>
      BY <1>2, Zenon DEF CreateFails, CloseEnded
    <2>4. QED
      BY <2>1, <2>2, <2>3 DEF Quiet
  <1>3. CASE CreateClose
    <2>1. PICK lot \in job.todo, o \in CloseOrders : NewOrder(o, CloseTicket(lot))
      BY <1>3 DEF CreateClose
    <2>2. lot \in Lot /\ lot.qty > 0 /\ o \in Orders
      BY SquareOffAssumption DEF JobOK, JobState
    <2>3. Place(o, CloseTicket(lot)) /\ CloseTicket(lot) \in Tickets
      BY <1>3, <2>1, <2>2, LotsAreTickets DEF CreateClose, Place, CloseTicket
    <2>4. QED
      BY <2>2, <2>3 DEF Placed
  <1>4. CASE RunClose
    <2>1. PICK c \in Closers : Start(c, job.order) /\ job.pc = "execute"
      BY <1>4 DEF RunClose
    <2>2. QED
      BY <2>1, SquareOffAssumption DEF JobOK, Began
  <1>5. CASE UserStep
    <2>1. Placed \/ Began
      BY <1>5, SquareOffAssumption DEF UserStep, Placed, Began
    <2>2. QED
      BY <2>1
  <1>6. QED
    BY <1>1, <1>2, <1>3, <1>4, <1>5
    DEF SquareOffNext, JobStep, Snapshot, Finish, EngineStep, Ran, ProcessCrash, svars

LEMMA InvGoesOn ==
  ASSUME Closable, Inv, TradeMeansPaid, JobOK, [SquareOffNext]_svars
  PROVE  Inv' /\ TradeMeansPaid'
  <1>1. CASE Quiet
    <2>1. UNCHANGED <<cash, realised, positions, orders, trades, call, crashes, overlapped>>
      BY <1>1 DEF Quiet, db
    <2>2. \A c \in Calls : CallOK(c)'
      BY <2>1, OthersKeepTheirs
    <2>3. QED
      BY <1>1, <2>1, <2>2 DEF Quiet, Inv, TypeOK, NeverShort, TradeMeansPaid
  <1>2. CASE Placed \/ Began \/ Ran \/ Crash
    <2>1. Next
      BY <1>2 DEF Placed, Began, Ran, Next
    <2>2. QED
      BY <2>1, InvNext, PaidNext
  <1>3. QED
    BY <1>1, <1>2, Kinds

-----------------------------------------------------------------------------
(* Calls, orders and trades.                                               *)

(* A step of a call under way never makes it idle, or refused without an   *)
(* order.                                                                  *)
LEMMA TracedNext ==
  ASSUME Closable, JobInv, [SquareOffNext]_svars
  PROVE  Traced'
  <1> USE DEF JobInv
  <1>1. CASE Quiet
    BY <1>1 DEF Quiet, db, Traced, Active, Sym, Ticket, Started
  <1>2. CASE Placed
    <2>1. PICK o \in Orders, t \in Tickets : Place(o, t)
      BY <1>2 DEF Placed
    <2>2. UNCHANGED <<call, trades, overlapped>>
          /\ \A p \in Orders : orders[p] # NoOrder => orders'[p] = orders[p]
      BY <2>1 DEF Place, NewOrder, env, Inv, TypeOK
    <2>3. QED
      BY <2>2 DEF Traced, Active, Sym, Ticket, Started
  <1>3. CASE Began
    <2>1. PICK c \in Calls, o \in Orders : orders[o] # NoOrder /\ Start(c, o)
      BY <1>3 DEF Began
    <2>2. UNCHANGED <<orders, trades>>
      BY <2>1 DEF Start, db
    <2>3. ASSUME NEW d \in Calls
          PROVE  /\ call'[d].order # NoOrder =>
                      /\ call'[d].order \in Orders /\ orders'[call'[d].order] # NoOrder
                      /\ call'[d].ticket = orders'[call'[d].order].ticket
                 /\ call'[d].order = NoOrder =>
                      call'[d].ticket = NoOrder /\ call'[d].pc \in {"idle", "refused"}
                 /\ call'[d].pc = "idle" => call'[d].order = NoOrder
      BY <2>1, <2>2, <2>3, StartGives, OrderExecutionAssumption DEF Traced
    <2>4. \A t \in trades : t.id \in Calls
      BY DEF Inv, TypeOK, Trade
    <2>5. \A t \in trades' : Started(t.id)' /\ call'[t.id].ticket = t.ticket
      BY <2>1, <2>2, <2>4, StartGives DEF Traced, Started
    <2>6. ASSUME NEW d \in Calls, NEW e \in Calls, d # e, Active(d)', Active(e)',
                 Sym(d)' = Sym(e)'
          PROVE  Sym(d)' \in overlapped'
      <3>1. CASE d # c /\ e # c
        BY <2>1, <2>6, <3>1, StartGives DEF Traced, Active, Sym, Ticket
      <3>2. ASSUME NEW a \in Calls, a # c, Active(a)', Active(c)', Sym(a)' = Sym(c)'
            PROVE  Sym(a)' \in overlapped'
        BY <2>1, <3>2, StartGives DEF Active, Sym, Ticket, Waiting
      <3>3. QED
        BY <2>6, <3>1, <3>2
    <2>7. QED
      BY <2>3, <2>5, <2>6 DEF Traced
  <1>4. CASE Ran
    <2>1. PICK c \in Calls : Step(c) \/ Fault(c)
      BY <1>4 DEF Ran
    <2>2. /\ \A o \in Orders :
              /\ orders'[o] = NoOrder <=> orders[o] = NoOrder
              /\ orders[o] # NoOrder => orders'[o].ticket = orders[o].ticket
          /\ \A d \in Calls :
              /\ Started(d)' <=> Started(d)
              /\ call'[d].order = call[d].order /\ call'[d].ticket = call[d].ticket
          /\ \A t \in trades' :
              \/ t \in trades
              \/ t.id = c /\ t.order = call[c].order /\ t.ticket = call[c].ticket /\ Started(c)
      BY <2>1, EngineKeeps
    <2>3. Active(c) /\ call[c].order # NoOrder
          /\ (\A d \in Calls : d # c => call'[d] = call[d]) /\ UNCHANGED overlapped
      BY <2>1, StepStaysHome, OrderExecutionAssumption DEF Inv, CallOK, HasTicket, Active
    <2>4. \A t \in trades : t.id \in Calls
      BY DEF Inv, TypeOK, Trade
    <2>5. \A t \in trades' : Started(t.id)' /\ call'[t.id].ticket = t.ticket
      BY <2>2, <2>4 DEF Traced
    <2>6. \A d, e \in Calls : Active(d)' /\ Active(e)' /\ d # e /\ Sym(d)' = Sym(e)' =>
            Sym(d)' \in overlapped'
      BY <2>2, <2>3 DEF Traced, Active, Sym, Ticket
    <2>7. ASSUME NEW d \in Calls
          PROVE  /\ call'[d].order # NoOrder =>
                      /\ call'[d].order \in Orders /\ orders'[call'[d].order] # NoOrder
                      /\ call'[d].ticket = orders'[call'[d].order].ticket
                 /\ call'[d].order = NoOrder =>
                      call'[d].ticket = NoOrder /\ call'[d].pc \in {"idle", "refused"}
                 /\ call'[d].pc = "idle" => call'[d].order = NoOrder
      BY <2>2, <2>3 DEF Traced, Started
    <2>8. QED
      BY <2>5, <2>6, <2>7 DEF Traced
  <1>5. CASE Crash
    <2>1. \A t \in trades : t.id \in Calls
      BY DEF Inv, TypeOK, Trade
    <2>2. QED
      BY <1>5, <2>1, CrashKeeps DEF Traced, Started
  <1>6. QED
    BY <1>1, <1>2, <1>3, <1>4, <1>5, Kinds

-----------------------------------------------------------------------------
(* The loop.                                                               *)

(* Orders keep their tickets, trades stay, and a call that has started     *)
(* keeps what it executes.                                                 *)
Kept ==
  /\ trades \subseteq trades'
  /\ \A o \in Orders : orders[o] # NoOrder =>
       orders'[o] # NoOrder /\ orders'[o].ticket = orders[o].ticket
  /\ \A d \in Calls : Started(d) =>
       /\ Started(d)' /\ call'[d].order = call[d].order /\ call'[d].ticket = call[d].ticket
       /\ Active(d)' => Active(d)

LEMMA KeptNext ==
  ASSUME Closable, JobInv, [SquareOffNext]_svars
  PROVE  Kept
  <1> USE DEF JobInv
  <1>1. CASE Quiet
    BY <1>1 DEF Quiet, db, Kept, Started, Active
  <1>2. CASE Placed
    BY <1>2 DEF Placed, Place, NewOrder, env, Kept, Started, Active, Inv, TypeOK
  <1>3. CASE Began
    BY <1>3, StartGives DEF Began, db, Kept, Started, Active
  <1>4. CASE Ran
    <2>1. PICK c \in Calls : Step(c) \/ Fault(c)
      BY <1>4 DEF Ran
    <2>2. trades \subseteq trades'
      <3>1. CASE RecordTrade(c)
        BY <3>1 DEF RecordTrade
      <3>2. CASE ~RecordTrade(c)
        BY <2>1, <3>2 DEF Step, Fault, Quote, Debit, ReadHolding, Credit, Reject, FindPosition,
                          Upsert, Reduce, Commit, Undo, db
      <3>3. QED
        BY <3>1, <3>2
    <2>3. QED
      BY <2>1, <2>2, EngineKeeps, StepStaysHome DEF Kept, Started, Active
  <1>5. CASE Crash
    BY <1>5, CrashKeeps DEF Kept
  <1>6. QED
    BY <1>1, <1>2, <1>3, <1>4, <1>5, Kinds

(* While the loop stands still.                                            *)
LEMMA LoopWaits ==
  ASSUME Closable, JobInv, [SquareOffNext]_svars, UNCHANGED job,
         \A o \in CloseOrders : orders[o] = NoOrder => orders'[o] = NoOrder,
         \A c \in Closers : ~Started(c) => ~Started(c)'
  PROVE  JobOK' /\ OursOnly'
  <1>1. Kept /\ Traced'
    BY KeptNext, TracedNext
  <1>2. Closers \subseteq Calls /\ CloseOrders \subseteq Orders
    BY SquareOffAssumption
  <1>3. JobOK'
    BY <1>1, <1>2 DEF JobInv, JobOK, Kept
  <1>4. ASSUME NEW c \in Closers
        PROVE  (Active(c)' => Active(c)) /\ call'[c].order \in CloseOrders \cup {NoOrder}
    <2>1. CASE Started(c)
      BY <1>1, <1>2, <2>1 DEF Kept, JobInv, OursOnly
    <2>2. CASE ~Started(c)
      BY <1>1, <1>2, <2>2 DEF Traced, Started, Active, Waiting
    <2>3. QED
      BY <2>1, <2>2
  <1>5. \A o \in CloseOrders : orders'[o] # NoOrder =>
          orders[o] # NoOrder /\ orders'[o].ticket = orders[o].ticket
    BY <1>1, <1>2 DEF Kept
  <1>6. QED
    BY <1>3, <1>4, <1>5 DEF JobInv, OursOnly

LEMMA EngineJob ==
  ASSUME Closable, JobInv, [SquareOffNext]_svars,
         EngineStep \/ UNCHANGED svars \/ UserStep
  PROVE  JobOK' /\ OursOnly'
  <1>1. CASE EngineStep
    <2>1. PICK c \in Calls : (Step(c) \/ Fault(c)) /\ UNCHANGED job
      BY <1>1 DEF EngineStep
    <2>2. /\ \A o \in Orders : orders'[o] = NoOrder <=> orders[o] = NoOrder
          /\ \A d \in Calls : Started(d)' <=> Started(d)
      BY <2>1, EngineKeeps DEF JobInv
    <2>3. QED
      BY <2>1, <2>2, LoopWaits, SquareOffAssumption
  <1>2. CASE UNCHANGED svars
    BY <1>2, LoopWaits DEF svars, vars, db, Started
  <1>3. CASE UserStep
    <2>1. ASSUME NEW o \in Orders \ CloseOrders, NEW t \in UserTickets, Place(o, t)
          PROVE  /\ \A p \in CloseOrders : orders[p] = NoOrder => orders'[p] = NoOrder
                 /\ \A c \in Closers : ~Started(c) => ~Started(c)'
      BY <2>1, SquareOffAssumption DEF Place, NewOrder, Started, JobInv, Inv, TypeOK
    <2>2. ASSUME NEW c \in Calls \ Closers, NEW o \in Orders, orders[o] # NoOrder, Start(c, o)
          PROVE  /\ \A p \in CloseOrders : orders[p] = NoOrder => orders'[p] = NoOrder
                 /\ \A d \in Closers : ~Started(d) => ~Started(d)'
      BY <2>2, StartGives, SquareOffAssumption DEF db, Started, JobInv
    <2>3. QED
      BY <1>3, <2>1, <2>2, LoopWaits DEF UserStep
  <1>4. QED
    BY <1>1, <1>2, <1>3

LEMMA CrashJob ==
  ASSUME Closable, JobInv, [SquareOffNext]_svars, ProcessCrash
  PROVE  JobOK' /\ OursOnly'
  <1> USE DEF JobInv
  <1>1. Crash /\ Kept
    BY KeptNext DEF ProcessCrash
  <1>2. CASE UNCHANGED job
    BY <1>1, <1>2, CrashKeeps, LoopWaits, SquareOffAssumption
  <1>3. CASE job' = [job EXCEPT !.pc = "lost"]
    <2>1. JobOK'
      BY <1>1, <1>3 DEF JobOK, JobState, Kept
    <2>2. OursOnly'
      BY <1>1, <1>3, CrashKeeps, SquareOffAssumption DEF OursOnly, JobOK, JobState
    <2>3. QED
      BY <2>1, <2>2
  <1>4. QED
    BY <1>2, <1>3 DEF ProcessCrash

LEMMA SnapshotJob ==
  ASSUME JobInv, Snapshot
  PROVE  JobOK' /\ OursOnly'
  <1> USE DEF JobInv
  <1>1. UNCHANGED <<orders, trades, call, positions>>
    BY DEF Snapshot, vars, db
  <1>2. /\ OpenLots \subseteq Lot
        /\ \A lot \in OpenLots : lot.qty > 0
        /\ \A lot, other \in OpenLots : lot.symbol = other.symbol => lot = other
    BY DEF OpenLots, Lot, Inv, TypeOK, Row
  <1>3. job' = [job EXCEPT !.pc = "next", !.snap = OpenLots, !.todo = OpenLots]
        /\ job.pc = "idle"
    BY DEF Snapshot
  <1>4. job.closed = {} /\ job.failed = {}
    BY <1>3 DEF JobOK
  <1>5. JobOK'
    BY <1>1, <1>2, <1>3, <1>4 DEF JobOK, JobState
  <1>6. \A o \in CloseOrders : orders[o] = NoOrder
    BY <1>3 DEF OursOnly
  <1>7. \A c \in Closers : ~Active(c)
    BY <1>3 DEF OursOnly
  <1>8. OursOnly'
    BY <1>1, <1>6, <1>7 DEF OursOnly, Active
  <1>9. QED
    BY <1>5, <1>8

LEMMA CreateJob ==
  ASSUME Closable, JobInv, CreateClose
  PROVE  JobOK' /\ OursOnly'
  <1> USE DEF JobInv
  <1>1. PICK lot \in job.todo, o \in CloseOrders :
          /\ NewOrder(o, CloseTicket(lot))
          /\ job' = [job EXCEPT !.pc = "execute", !.lot = lot, !.order = o,
                                !.todo = @ \ {lot}]
    BY DEF CreateClose
  <1>2. UNCHANGED <<trades, call>> /\ job.pc = "next"
    BY DEF CreateClose
  <1>3. /\ o \in Orders /\ lot \in job.snap /\ lot \in Lot
        /\ job.snap = job.todo \cup job.closed \cup job.failed
    BY <1>2, SquareOffAssumption DEF JobOK, JobState
  <1>4. /\ orders'[o].ticket = SellTicket(lot) /\ orders'[o] # NoOrder
        /\ \A p \in Orders : p # o => orders'[p] = orders[p]
    <2>1. SellTicket(lot) \in Tickets
      BY <1>3, LotsAreTickets DEF JobOK
    <2>2. /\ orders'[o] = [ticket |-> SellTicket(lot), status |-> "PENDING", price |-> 0]
          /\ \A p \in Orders : p # o => orders'[p] = orders[p]
      BY <1>1, <1>3 DEF NewOrder, CloseTicket, Inv, TypeOK
    <2>3. orders'[o] \in OrderDoc
      BY <2>1, <2>2 DEF OrderDoc
    <2>4. QED
      BY <2>2, <2>3, NoOrderAssumption
  <1>5. JobOK'
    <2>1. /\ job' \in JobState /\ job'.pc = "execute" /\ job'.lot = lot /\ job'.order = o
          /\ job'.snap = job.snap /\ job'.todo = job.todo \ {lot}
          /\ job'.closed = job.closed /\ job'.failed = job.failed
      BY <1>1, <1>3 DEF JobOK, JobState
    <2>2. /\ \A l \in job.snap : l.qty > 0
          /\ \A l, m \in job.snap : l.symbol = m.symbol => l = m
          /\ \A l \in job.closed : \E t \in trades : t.id \in Closers /\ t.ticket = SellTicket(l)
      BY DEF JobOK
    <2>3. QED
      BY <1>2, <1>3, <1>4, <2>1, <2>2 DEF JobOK
  <1>6. OursOnly'
    BY <1>1, <1>2, <1>3, <1>4, SquareOffAssumption DEF OursOnly, Active, JobState, JobOK
  <1>7. QED
    BY <1>5, <1>6

LEMMA RunJob ==
  ASSUME JobInv, RunClose
  PROVE  JobOK' /\ OursOnly'
  <1> USE DEF JobInv
  <1>1. PICK c \in Closers : Start(c, job.order) /\ job' = [job EXCEPT !.pc = "wait", !.run = c]
    BY DEF RunClose
  <1>2. /\ job.pc = "execute" /\ c \in Calls /\ job.order \in Orders
        /\ job.order \in CloseOrders /\ orders[job.order] # NoOrder
    BY SquareOffAssumption DEF RunClose, JobOK
  <1>3. /\ UNCHANGED <<orders, trades>> /\ call[c].pc = "idle" /\ call[c].order = NoOrder
        /\ \A d \in Calls : d # c => call'[d] = call[d]
        /\ call'[c].pc \in {"quote", "refused"} /\ call'[c].order \in {NoOrder, job.order}
    BY <1>1, <1>2, StartGives DEF db, Traced
  <1>4. JobOK'
    BY <1>1, <1>2, <1>3 DEF JobOK, JobState, Started
  <1>5. OursOnly'
    BY <1>1, <1>2, <1>3, SquareOffAssumption DEF OursOnly, Active, JobState, JobOK
  <1>6. QED
    BY <1>4, <1>5

(* A position is reported closed once its order has been executed.         *)
LEMMA EndedJob ==
  ASSUME JobInv, CloseEnded
  PROVE  JobOK' /\ OursOnly'
  <1> USE DEF JobInv
  <1>1. PICK ok \in BOOLEAN :
          /\ ok => call[job.run].pc = "done"
          /\ job' = [job EXCEPT !.pc = AfterClose(ok), !.run = NoCall,
                       !.closed = IF ok THEN @ \cup {job.lot} ELSE @,
                       !.failed = IF ok THEN @ ELSE @ \cup {job.lot}]
    BY DEF CloseEnded
  <1>2. /\ UNCHANGED <<orders, trades, call>> /\ job.pc = "wait"
        /\ call[job.run].pc \in Ended
    BY DEF CloseEnded, db, Settled
  <1>3. /\ job.run \in Closers /\ job.run \in Calls /\ job.lot \in job.snap
        /\ orders[job.order].ticket = SellTicket(job.lot)
    BY <1>2, SquareOffAssumption DEF JobOK
  <1>4. ASSUME ok
        PROVE  \E t \in trades : t.id \in Closers /\ t.ticket = SellTicket(job.lot)
    <2>1. call[job.run].order = job.order /\ call[job.run].ticket = SellTicket(job.lot)
      BY <1>1, <1>2, <1>3, <1>4 DEF JobOK, Traced
    <2>2. PICK t \in trades : t.id = job.run
      BY <1>1, <1>3, <1>4 DEF TradeMeansPaid
    <2>3. QED
      BY <1>3, <2>1, <2>2 DEF Traced
  <1>5. ASSUME job' \in JobState, job'.pc = "next", job'.snap = job.snap, job'.todo = job.todo,
               job'.closed \cup job'.failed = job.closed \cup job.failed \cup {job.lot},
               \A l \in job'.closed :
                 \E t \in trades : t.id \in Closers /\ t.ticket = SellTicket(l)
        PROVE  JobOK'
    BY <1>2, <1>3, <1>5 DEF JobOK
  <1>6. /\ \A c \in Closers : ~Active(c)
        /\ \A l \in job.closed : \E t \in trades : t.id \in Closers /\ t.ticket = SellTicket(l)
    BY <1>2 DEF OursOnly, Active, Ended, Waiting, JobOK
  <1>7. CASE ok
    <2>1. job' = [job EXCEPT !.pc = "next", !.run = NoCall, !.closed = @ \cup {job.lot}]
      BY <1>1, <1>7 DEF AfterClose, JobOK, JobState
    <2>2. /\ job' \in JobState /\ job'.pc = "next"
          /\ job'.snap = job.snap /\ job'.todo = job.todo
          /\ job'.closed = job.closed \cup {job.lot} /\ job'.failed = job.failed
      BY <1>3, <2>1 DEF JobOK, JobState
    <2>3. QED
      BY <1>2, <1>4, <1>5, <1>6, <1>7, <2>2 DEF OursOnly, Active
  <1>8. CASE ~ok
    <2>1. job' = [job EXCEPT !.pc = "next", !.run = NoCall, !.failed = @ \cup {job.lot}]
      BY <1>1, <1>8 DEF AfterClose, JobOK, JobState
    <2>2. /\ job' \in JobState /\ job'.pc = "next"
          /\ job'.snap = job.snap /\ job'.todo = job.todo
          /\ job'.closed = job.closed /\ job'.failed = job.failed \cup {job.lot}
      BY <1>3, <2>1 DEF JobOK, JobState
    <2>3. QED
      BY <1>2, <1>5, <1>6, <2>2 DEF OursOnly, Active
  <1>9. QED
    BY <1>7, <1>8

LEMMA OtherJob ==
  ASSUME JobInv, CreateFails \/ Finish
  PROVE  JobOK' /\ OursOnly'
  <1> USE DEF JobInv
  <1>1. UNCHANGED <<orders, trades, call>> /\ job.pc = "next"
    BY DEF CreateFails, Finish, vars, db
  <1>2. CASE CreateFails
    <2>1. PICK lot \in job.todo :
            job' = [job EXCEPT !.todo = @ \ {lot}, !.failed = @ \cup {lot}]
      BY <1>2 DEF CreateFails
    <2>2. /\ job' \in JobState /\ job'.pc = "next" /\ job'.snap = job.snap
          /\ job'.todo = job.todo \ {lot} /\ lot \in job.todo
          /\ job'.closed = job.closed /\ job'.failed = job.failed \cup {lot}
      <3>1. job \in JobState
        BY DEF JobOK
      <3>2. job.todo \subseteq Lot /\ job.failed \subseteq Lot /\ lot \in job.todo
        BY <2>1, <3>1 DEF JobState
      <3>3. job.todo \ {lot} \subseteq Lot /\ job.failed \cup {lot} \subseteq Lot
        BY <3>2
      <3>4. QED
        BY <1>1, <2>1, <3>1, <3>2, <3>3 DEF JobState
    <2>3. /\ job.snap = job.todo \cup job.closed \cup job.failed
          /\ \A l \in job.snap : l.qty > 0
          /\ \A l, m \in job.snap : l.symbol = m.symbol => l = m
          /\ \A l \in job.closed : \E t \in trades : t.id \in Closers /\ t.ticket = SellTicket(l)
      BY <1>1 DEF JobOK
    <2>4. job'.snap = job'.todo \cup job'.closed \cup job'.failed
      BY <2>2, <2>3
    <2>5. JobOK'
      BY <1>1, <2>2, <2>3, <2>4 DEF JobOK
    <2>6. QED
      BY <1>1, <2>2, <2>5 DEF OursOnly, Active
  <1>3. CASE Finish
    BY <1>1, <1>3 DEF Finish, JobOK, JobState, OursOnly, Active
  <1>4. QED
    BY <1>2, <1>3

LEMMA JobNext ==
  ASSUME Closable, JobInv, [SquareOffNext]_svars
  PROVE  JobInv'
  <1>1. Inv' /\ TradeMeansPaid' /\ Traced'
    BY InvGoesOn, TracedNext DEF JobInv
  <1>2. JobOK' /\ OursOnly'
    BY EngineJob, CrashJob, SnapshotJob, CreateJob, RunJob, EndedJob, OtherJob
    DEF SquareOffNext, JobStep
  <1>3. QED
    BY <1>1, <1>2 DEF JobInv

LEMMA JobInit == SquareOffInit => JobInv
  <1> SUFFICES ASSUME SquareOffInit PROVE JobInv
    OBVIOUS
  <1>1. Inv
    BY InvInit DEF SquareOffInit
  <1>2. /\ \A c \in Calls : call[c] = IdleCall
        /\ \A o \in Orders : orders[o] = NoOrder
        /\ trades = {}
    BY DEF SquareOffInit, Init
  <1>3. TradeMeansPaid /\ Traced
    BY <1>2 DEF TradeMeansPaid, Traced, IdleCall, Active, Waiting
  <1>4. JobOK
    BY DEF SquareOffInit, JobOK, JobState
  <1>5. OursOnly
    BY <1>2, SquareOffAssumption DEF OursOnly, IdleCall, Active, Waiting
  <1>6. QED
    BY <1>1, <1>3, <1>4, <1>5 DEF JobInv

-----------------------------------------------------------------------------
(* The account is flat if nothing interferes.                              *)

LotOf(s) == [symbol |-> s, qty |-> positions[s].qty]
UsersIdle == \A c \in Calls \ Closers : call[c].pc = "idle"

(* The order of the job that is being executed will sell out s.            *)
InHand(s) ==
  /\ job.pc = "wait" /\ job.lot = LotOf(s)
  /\ call[job.run].order = job.order /\ call[job.run].pc \in {"quote", "holding", "credit", "reduce"}
  /\ call[job.run].pc \in {"credit", "reduce"} => call[job.run].row = positions[s]

StillToSell(s) ==
  \/ LotOf(s) \in job.todo
  \/ job.pc = "execute" /\ job.lot = LotOf(s)
  \/ InHand(s)

Undisturbed ==
  faults = 0 /\ UsersIdle /\ job.pc \notin {"idle", "lost"} =>
    /\ job.pc = "execute" => orders[job.order].status = "PENDING"
    /\ \A s \in Symbols : positions[s] # NoRow => StillToSell(s)

(* The execution of an order that closes a position of the snapshot.       *)
LEMMA CloserSells ==
  ASSUME JobInv, Undisturbed, NEW c \in Calls, Step(c), UNCHANGED job,
         faults = 0, UsersIdle, job.pc \notin {"idle", "lost"}
  PROVE  \A s \in Symbols : positions'[s] # NoRow => StillToSell(s)'
  <1> USE DEF JobInv
  <1>1. Inv /\ Active(c) /\ c \in Closers
    BY StepStaysHome DEF UsersIdle, Active, Waiting
  <1>2. /\ job.pc = "wait" /\ job.run = c
        /\ call[c].ticket = SellTicket(job.lot) /\ call[c].order = job.order
    <2>1. job.pc = "wait" /\ job.run = c
      BY <1>1 DEF OursOnly
    <2>2. call[c].order = job.order
      BY <1>1, <2>1, OrderExecutionAssumption DEF JobOK, Traced, Active, Waiting
    <2>3. QED
      BY <2>1, <2>2, SquareOffAssumption, OrderExecutionAssumption DEF JobOK, Traced
  <1>3. /\ Sym(c) = job.lot.symbol /\ Sym(c) \in Symbols
        /\ Ticket(c).side = "SELL" /\ Ticket(c).type = "MARKET" /\ Ticket(c).limit = 0
        /\ Ticket(c).qty = job.lot.qty /\ job.lot.qty \in Nat /\ job.lot.qty > 0
    BY <1>2 DEF Sym, Ticket, SellTicket, JobOK, JobState, Lot
  <1>4. call[c].pc \notin {"debit", "find", "upsert"} /\ call \in [Calls -> CallState]
        /\ positions \in [Symbols -> Row \cup {NoRow}]
    BY <1>1, <1>3 DEF Inv, CallOK, Buying, Ticket, TypeOK
  <1>5. ASSUME NEW s \in Symbols, s # Sym(c), positions'[s] # NoRow
        PROVE  StillToSell(s)'
    <2>1. positions'[s] = positions[s]
      BY <1>1, <1>5, StepStaysHome
    <2>2. LotOf(s) \in job.todo
      BY <1>2, <1>3, <1>5, <2>1 DEF Undisturbed, StillToSell, InHand, LotOf
    <2>3. QED
      BY <2>1, <2>2 DEF StillToSell, LotOf
  <1>6. ASSUME NEW s \in Symbols, s = Sym(c), positions'[s] # NoRow
        PROVE  StillToSell(s)'
    <2>1. positions[s] # NoRow
      BY <1>1, <1>3, <1>4, <1>6
      DEF Step, Quote, ReadHolding, Credit, Reject, FindPosition, Reduce, RecordTrade, Commit,
          Undo, Debit, Upsert, StillStored, db
    <2>2. InHand(s)
      <3>1. LotOf(s) \notin job.todo
        BY <1>6, <1>2, <1>3 DEF JobOK, LotOf
      <3>2. QED
        BY <1>6, <1>2, <1>3, <2>1, <3>1 DEF Undisturbed, StillToSell
    <2>3. positions[s].qty = job.lot.qty /\ call[c].pc \in {"quote", "holding", "credit", "reduce"}
          /\ (call[c].pc \in {"credit", "reduce"} => call[c].row = positions[s])
      BY <1>2, <2>2 DEF InHand, LotOf
    <2>4. ASSUME call'[c].order = job.order, positions'[s] = positions[s],
                 call'[c].pc \in {"quote", "holding", "credit", "reduce"},
                 call'[c].pc \in {"credit", "reduce"} => call'[c].row = positions[s]
          PROVE  InHand(s)'
      BY <1>2, <2>2, <2>4 DEF InHand, LotOf
    <2>5. CASE call[c].pc = "quote"
      <3>1. Quote(c) /\ \A ltp \in Prices : Reachable(Ticket(c), ltp)
        BY <1>3, <2>5 DEF Step, Quote, ReadHolding, Credit, Reject, FindPosition, Reduce,
                          RecordTrade, Commit, Undo, Debit, Upsert, Reachable
      <3>2. call'[c].pc = "holding" /\ call'[c].order = call[c].order /\ UNCHANGED positions
        BY <1>3, <1>4, <3>1 DEF Quote, CallState, db
      <3>3. InHand(s)'
        BY <1>2, <2>4, <3>2
      <3>4. QED
        BY <3>3 DEF StillToSell
    <2>6. CASE call[c].pc = "holding"
      <3>1. ReadHolding(c) /\ Sellable(c)
        BY <1>6, <1>3, <2>1, <2>3, <2>6
        DEF Step, Quote, ReadHolding, Credit, Reject, FindPosition, Reduce, RecordTrade, Commit,
            Undo, Debit, Upsert, Sellable
      <3>2. /\ call'[c].pc = "credit" /\ call'[c].order = call[c].order
            /\ call'[c].row = positions[s] /\ UNCHANGED positions
        BY <1>6, <1>4, <3>1 DEF ReadHolding, CallState, db
      <3>3. QED
        BY <1>2, <2>4, <3>2 DEF StillToSell
    <2>7. CASE call[c].pc = "credit"
      <3>1. Credit(c)
        BY <2>7 DEF Step, Quote, ReadHolding, Credit, Reject, FindPosition, Reduce, RecordTrade,
                    Commit, Undo, Debit, Upsert
      <3>2. /\ call'[c].pc = "reduce" /\ call'[c].order = call[c].order
            /\ call'[c].row = call[c].row /\ UNCHANGED positions
        BY <1>4, <3>1 DEF Credit, Goto, CallState
      <3>3. QED
        BY <1>2, <2>3, <2>4, <2>7, <3>2 DEF StillToSell
    <2>8. CASE call[c].pc = "reduce"
      <3>1. Reduce(c)
        BY <2>8 DEF Step, Quote, ReadHolding, Credit, Reject, FindPosition, Reduce, RecordTrade,
                    Commit, Undo, Debit, Upsert
      <3>2. call[c].row = positions[s] /\ positions[s] \in Row
        BY <1>6, <1>3, <1>4, <2>1, <2>3, <2>8
      <3>3. Reduced(c).qty = 0 /\ StillStored(s, call[c].row)
        BY <1>6, <1>3, <2>1, <2>3, <3>2 DEF Reduced, StillStored, Row
      <3>4. positions'[s] = NoRow
        BY <1>6, <1>3, <1>4, <3>1, <3>3 DEF Reduce
      <3>5. QED
        BY <1>6, <3>4
    <2>9. QED
      BY <2>3, <2>5, <2>6, <2>7, <2>8
  <1>7. QED
    BY <1>5, <1>6

LEMMA UndisturbedNext ==
  ASSUME Closable, JobInv, Undisturbed, [SquareOffNext]_svars
  PROVE  Undisturbed'
  <1> SUFFICES ASSUME faults' = 0, UsersIdle', job'.pc \notin {"idle", "lost"}
               PROVE  /\ job'.pc = "execute" => orders'[job'.order].status = "PENDING"
                      /\ \A s \in Symbols : positions'[s] # NoRow => StillToSell(s)'
    BY DEF Undisturbed
  <1> USE DEF JobInv
  <1>1. faults = 0
    <2>1. faults \in Nat
      BY DEF Inv, TypeOK
    <2>2. faults' = faults \/ faults' = faults + 1
      <3>1. CASE Quiet
        <4>1. CASE CreateFails \/ CloseEnded
          BY <4>1, Zenon DEF CreateFails, CloseEnded
        <4>2. CASE ~(CreateFails \/ CloseEnded)
          BY <4>2 DEF SquareOffNext, JobStep, Snapshot, CreateClose, RunClose, Finish, UserStep,
                      EngineStep, ProcessCrash, Place, Start, Step, Fault, Crash, Quote, Debit,
                      ReadHolding, Credit, Reject, FindPosition, Upsert, Reduce, RecordTrade,
                      Commit, Undo, svars, vars, env
        <4>3. QED
          BY <4>1, <4>2
      <3>2. CASE Placed \/ Began \/ Crash
        BY <3>2 DEF Placed, Place, Began, Start, Crash, env
      <3>3. CASE Ran
        BY <3>3 DEF Ran, Step, Fault, Quote, Debit, ReadHolding, Credit, Reject, FindPosition,
                    Upsert, Reduce, RecordTrade, Commit, Undo, env
      <3>4. QED
        BY <3>1, <3>2, <3>3, Kinds
    <2>3. QED
      BY <2>1, <2>2
  <1>2. UsersIdle
    BY KeptNext DEF UsersIdle, Kept, Started
  <1>3. CASE EngineStep
    <2>1. PICK c \in Calls : (Step(c) \/ Fault(c)) /\ UNCHANGED job
      BY <1>3 DEF EngineStep
    <2>2. Step(c)
      BY <1>1, <2>1 DEF Fault
    <2>3. job.pc # "execute"
      BY <1>2, <2>2, StepStaysHome DEF UsersIdle, OursOnly, Active, Waiting
    <2>4. QED
      BY <1>1, <1>2, <2>1, <2>2, <2>3, CloserSells
  <1>4. CASE UserStep \/ UNCHANGED svars
    <2>1. /\ UNCHANGED <<positions, job>>
          /\ \A c \in Closers : call'[c] = call[c]
          /\ \A o \in CloseOrders : orders'[o] = orders[o]
      <3>1. CASE UNCHANGED svars
        BY <3>1 DEF svars, vars, db
      <3>2. ASSUME NEW o \in Orders \ CloseOrders, NEW t \in UserTickets, Place(o, t), UNCHANGED job
            PROVE  <2>1
        BY <3>2, SquareOffAssumption DEF Place, NewOrder, Inv, TypeOK
      <3>3. ASSUME NEW c \in Calls \ Closers, NEW o \in Orders, orders[o] # NoOrder, Start(c, o),
                   UNCHANGED job
            PROVE  <2>1
        BY <3>3, StartGives, SquareOffAssumption DEF db
      <3>4. QED
        BY <1>4, <3>1, <3>2, <3>3 DEF UserStep
    <2>2. QED
      BY <1>1, <1>2, <2>1 DEF Undisturbed, StillToSell, InHand, LotOf, JobOK
  <1>5. CASE ProcessCrash
    <2>1. UNCHANGED job /\ job.pc = "done"
      BY <1>5 DEF ProcessCrash, JobOK, JobState
    <2>2. \A c \in Calls : ~Active(c)
      BY <1>2, <2>1 DEF UsersIdle, OursOnly, Active, Waiting
    <2>3. QED
      BY <1>5, <2>2 DEF ProcessCrash, Crash
  <1>6. CASE Snapshot
    <2>1. UNCHANGED positions /\ job' = [job EXCEPT !.pc = "next", !.snap = OpenLots, !.todo = OpenLots]
      BY <1>6 DEF Snapshot, vars, db
    <2>2. job'.pc = "next" /\ job'.todo = OpenLots
      BY <2>1 DEF JobOK, JobState
    <2>3. QED
      BY <2>1, <2>2 DEF OpenLots, StillToSell, LotOf, Inv, NeverShort
  <1>7. CASE CreateClose
    <2>1. PICK lot \in job.todo, o \in CloseOrders :
            /\ NewOrder(o, CloseTicket(lot))
            /\ job' = [job EXCEPT !.pc = "execute", !.lot = lot, !.order = o,
                                  !.todo = @ \ {lot}]
      BY <1>7 DEF CreateClose
    <2>2. /\ job.pc = "next" /\ UNCHANGED positions
          /\ job'.pc = "execute" /\ job'.lot = lot /\ job'.order = o /\ job'.todo = job.todo \ {lot}
      BY <1>7, <2>1 DEF CreateClose, JobOK, JobState
    <2>3. orders'[o].status = "PENDING"
      BY <2>1, SquareOffAssumption DEF NewOrder, Inv, TypeOK
    <2>4. \A s \in Symbols : positions[s] # NoRow => LotOf(s) \in job.todo
      BY <1>1, <1>2, <2>2 DEF Undisturbed, StillToSell, InHand
    <2>5. QED
      BY <2>2, <2>3, <2>4 DEF StillToSell, LotOf
  <1>8. CASE RunClose
    <2>1. PICK c \in Closers : Start(c, job.order) /\ job' = [job EXCEPT !.pc = "wait", !.run = c]
      BY <1>8 DEF RunClose
    <2>2. /\ job.pc = "execute" /\ c \in Calls /\ job.order \in Orders
          /\ orders[job.order] # NoOrder /\ Startable(job.order)
      BY <1>1, <1>2, <1>8, SquareOffAssumption DEF RunClose, JobOK, Undisturbed, Startable
    <2>3. UNCHANGED positions /\ call'[c].pc = "quote" /\ call'[c].order = job.order
      BY <2>1, <2>2, StartGives DEF db
    <2>4. /\ job'.pc = "wait" /\ job'.run = c /\ job'.lot = job.lot /\ job'.order = job.order
          /\ job'.todo = job.todo
      BY <2>1 DEF JobOK, JobState
    <2>5. \A s \in Symbols : positions[s] # NoRow => LotOf(s) \in job.todo \/ job.lot = LotOf(s)
      BY <1>1, <1>2, <2>2 DEF Undisturbed, StillToSell, InHand
    <2>6. QED
      BY <2>3, <2>4, <2>5 DEF StillToSell, InHand, LotOf
  <1>9. CASE CloseEnded
    <2>1. /\ UNCHANGED <<positions, call>> /\ job.pc = "wait" /\ call[job.run].pc \in Ended
          /\ job'.todo = job.todo /\ job'.pc = "next"
      BY <1>9 DEF CloseEnded, db, Settled, AfterClose, JobOK, JobState
    <2>2. \A s \in Symbols : positions[s] # NoRow => LotOf(s) \in job.todo
      BY <1>1, <1>2, <2>1 DEF Undisturbed, StillToSell, InHand, Ended
    <2>3. QED
      BY <2>1, <2>2 DEF StillToSell, LotOf
  <1>10. CASE Finish
    <2>1. UNCHANGED positions /\ job.pc = "next" /\ job'.pc = "done" /\ job'.todo = job.todo
      BY <1>10 DEF Finish, vars, db, JobOK, JobState
    <2>2. \A s \in Symbols : positions[s] # NoRow => LotOf(s) \in job.todo
      BY <1>1, <1>2, <2>1 DEF Undisturbed, StillToSell, InHand
    <2>3. QED
      BY <2>1, <2>2 DEF StillToSell, LotOf
  <1>11. CASE CreateFails
    BY <1>1, <1>11 DEF CreateFails
  <1>12. QED
    BY <1>3, <1>4, <1>5, <1>6, <1>7, <1>8, <1>9, <1>10, <1>11 DEF SquareOffNext, JobStep

-----------------------------------------------------------------------------
(* Money that has moved, and what a step of a call does to its position.   *)

Past == {"find", "upsert", "reduce", "trade", "commit", "undo", "done", "reversed",
         "stranded", "unmarked", "crashed"}

LEMMA MovedStays ==
  ASSUME Closable, JobInv, [SquareOffNext]_svars, NEW d \in Calls, NEW side, Moved(d, side)
  PROVE  Moved(d, side)' /\ Sym(d)' = Sym(d)
  <1> USE DEF JobInv
  <1>1. Started(d) /\ call[d].pc # "idle"
    BY DEF Moved, Started
  <1>2. call'[d].ticket = call[d].ticket
    BY <1>1, KeptNext DEF Kept
  <1>3. call[d].pc \in Past
    BY <1>1 DEF Moved, Inv, TypeOK, CallState, Waiting, Ended, Past
  <1>4. call'[d].pc \in Past
    <2>1. CASE Quiet \/ Placed
      BY <1>3, <2>1 DEF Quiet, db, Placed, Place
    <2>2. CASE Began
      BY <1>1, <1>3, <2>2, StartGives DEF Began, Past
    <2>3. CASE Crash
      BY <1>3, <2>3, CrashKeeps DEF Past
    <2>4. ASSUME NEW c \in Calls, Step(c) \/ Fault(c)
          PROVE  call'[d].pc \in Past
      <3>1. CASE c # d
        BY <1>3, <2>4, <3>1, StepStaysHome
      <3>2. CASE c = d /\ Fault(c)
        <4>1. AfterFailure(call[d].pc) \in Past
          BY <1>3, <3>2 DEF Fault, Active, Waiting, AfterFailure, Past
        <4>2. QED
          BY <3>2, <4>1 DEF Fault, Goto, Inv, TypeOK, CallState
      <3>3. CASE c = d /\ Step(c)
        <4>1. FindPosition(d) \/ Upsert(d) \/ Reduce(d) \/ RecordTrade(d) \/ Commit(d) \/ Undo(d)
          BY <1>3, <3>3 DEF Step, Quote, Debit, ReadHolding, Credit, Reject, Past
        <4>2. \E pc \in Past : \E row : \/ call' = [call EXCEPT ![d].pc = pc]
                                        \/ call' = [call EXCEPT ![d].pc = pc, ![d].row = row]
          BY <4>1 DEF FindPosition, Upsert, Reduce, RecordTrade, Commit, Undo, Goto, Past
        <4>3. QED
          BY <3>3, <4>2 DEF Inv, TypeOK, CallState
      <3>4. QED
        BY <2>4, <3>1, <3>2, <3>3
    <2>5. QED
      BY <2>1, <2>2, <2>3, <2>4, Kinds DEF Ran
  <1>5. QED
    BY <1>2, <1>4 DEF Moved, Sym, Ticket, Past

LEMMA OverlapsStay ==
  ASSUME Closable, JobInv, [SquareOffNext]_svars
  PROVE  overlapped \subseteq overlapped'
  <1>1. Quiet \/ Placed \/ Began \/ Ran \/ Crash
    BY Kinds DEF JobInv
  <1>2. QED
    BY <1>1, StartGives, StepStaysHome DEF JobInv, Quiet, Placed, Place, env, Began, Ran, Crash

(* The position, and the copy it holds, are touched by a call only so.     *)
LEMMA RowSteps ==
  ASSUME Inv, NEW c \in Calls, Step(c) \/ Fault(c)
  PROVE  \/ UNCHANGED positions /\ call'[c].pc \notin {"credit", "upsert", "reduce", "reject"}
         \/ /\ UNCHANGED positions /\ call'[c].pc = "reject"
            /\ call[c].pc = "debit" \/ (call[c].pc = "holding" /\ ~Sellable(c))
         \/ /\ UNCHANGED positions /\ call'[c].pc = "upsert" /\ call'[c].row = positions[Sym(c)]
         \/ /\ UNCHANGED positions /\ call'[c].pc = "credit" /\ call'[c].row = positions[Sym(c)]
            /\ positions[Sym(c)] # NoRow
         \/ /\ UNCHANGED positions /\ call'[c].pc = "reduce" /\ call'[c].row = call[c].row
            /\ call[c].pc = "credit"
         \/ Upsert(c) /\ call'[c].pc \in {"trade", "undo"}
         \/ Reduce(c) /\ call'[c].pc \in {"trade", "undo"}
  <1> USE DEF Inv
  <1>1. CASE Quote(c)
    BY <1>1 DEF Quote, Goto, TypeOK, CallState, db
  <1>2. CASE Debit(c) \/ Credit(c) \/ Undo(c)
    <2>1. CASE Debit(c)
      BY <2>1 DEF Debit, Goto, TypeOK, CallState
    <2>2. CASE Credit(c)
      BY <2>2 DEF Credit, Goto, TypeOK, CallState
    <2>3. CASE Undo(c)
      BY <2>3 DEF Undo, Goto, TypeOK, CallState
    <2>4. QED
      BY <1>2, <2>1, <2>2, <2>3
  <1>3. CASE ReadHolding(c)
    BY <1>3 DEF ReadHolding, Sellable, Goto, TypeOK, CallState, db
  <1>4. CASE FindPosition(c)
    BY <1>4 DEF FindPosition, TypeOK, CallState, db
  <1>5. CASE Upsert(c) \/ Reduce(c)
    <2>1. \E pc \in {"trade", "undo"} : call' = [call EXCEPT ![c].pc = pc]
      BY <1>5 DEF Upsert, Reduce, Goto
    <2>2. QED
      BY <1>5, <2>1 DEF TypeOK, CallState
  <1>6. CASE RecordTrade(c) \/ Reject(c) \/ Commit(c)
    BY <1>6 DEF RecordTrade, Reject, Commit, Goto, TypeOK, CallState
  <1>7. CASE Fault(c)
    <2>1. AfterFailure(call[c].pc) \in {"undo", "unmarked", "stranded", "refused"}
      BY DEF AfterFailure
    <2>2. QED
      BY <1>7, <2>1 DEF Fault, Goto, TypeOK, CallState, db
  <1>8. QED
    BY <1>1, <1>2, <1>3, <1>4, <1>5, <1>6, <1>7 DEF Step

(* The snapshot is taken once, when nothing else happens.                  *)
LEMMA SnapshotOrStep ==
  ASSUME Closable, JobInv, [SquareOffNext]_svars
  PROVE  \/ Snapshot /\ UNCHANGED vars
         \/ /\ job'.snap = job.snap /\ (job'.pc = "idle" => job.pc = "idle")
            /\ Quiet \/ Placed \/ Began \/ Ran \/ Crash
  <1> USE DEF JobInv
  <1>1. Quiet \/ Placed \/ Began \/ Ran \/ Crash
    BY Kinds
  <1>2. CASE Snapshot
    BY <1>2 DEF Snapshot
  <1>3. CASE UNCHANGED job
    BY <1>1, <1>3
  <1>4. CASE CreateClose \/ CreateFails \/ RunClose \/ CloseEnded \/ Finish \/ ProcessCrash
    <2>1. job'.snap = job.snap /\ (job'.pc = "idle" => job.pc = "idle")
      <3>1. CASE CreateClose \/ RunClose \/ Finish
        BY <3>1 DEF CreateClose, RunClose, Finish, JobOK, JobState
      <3>2. CASE CreateFails \/ CloseEnded
        BY <3>2 DEF CreateFails, CloseEnded, AfterClose, JobOK, JobState
      <3>3. CASE ProcessCrash
        BY <3>3 DEF ProcessCrash, JobOK, JobState
      <3>4. QED
        BY <1>4, <3>1, <3>2, <3>3
    <2>2. QED
      BY <1>1, <2>1
  <1>5. QED
    BY <1>2, <1>3, <1>4 DEF SquareOffNext, JobStep, UserStep, EngineStep, svars

-----------------------------------------------------------------------------
(* An order of the job is refused only if units were sold.                 *)

SoldOut(s) == (\E d \in Calls : Moved(d, "SELL") /\ Sym(d) = s) \/ Overwritten(s, "BUY")

LEMMA SoldOutStays ==
  ASSUME Closable, JobInv, [SquareOffNext]_svars, NEW s \in Symbols, SoldOut(s)
  PROVE  SoldOut(s)'
  <1>1. CASE \E d \in Calls : Moved(d, "SELL") /\ Sym(d) = s
    BY <1>1, MovedStays DEF SoldOut
  <1>2. CASE Overwritten(s, "BUY")
    <2>1. PICK d \in Calls \ Closers, e \in Calls \ Closers :
            /\ d # e /\ s \in overlapped
            /\ Moved(d, "BUY") /\ Sym(d) = s /\ Moved(e, "BUY") /\ Sym(e) = s
      BY <1>2 DEF Overwritten
    <2>2. /\ s \in overlapped'
          /\ Moved(d, "BUY")' /\ Sym(d)' = s /\ Moved(e, "BUY")' /\ Sym(e)' = s
      BY <2>1, MovedStays, OverlapsStay
    <2>3. QED
      BY <2>1, <2>2 DEF SoldOut, Overwritten
  <1>3. QED
    BY <1>1, <1>2 DEF SoldOut

(* What runs an order of the job sells what the snapshot counts.           *)
LEMMA CloserSide ==
  ASSUME JobInv, NEW c \in Calls, call[c].order \in CloseOrders
  PROVE  \E lot \in job.snap : Ticket(c) = SellTicket(lot)
  BY SquareOffAssumption, OrderExecutionAssumption DEF JobInv, OursOnly, Traced, Ticket

(* While nothing of s was sold, what the snapshot counts is there, a BUY   *)
(* that is about to save its copy has a fresh one, and no order of the job *)
(* is refused.                                                             *)
InStock(s) ==
  ~SoldOut(s) =>
    /\ \A lot \in job.snap : lot.symbol = s =>
         positions[s] # NoRow /\ positions[s].qty >= lot.qty
    /\ \A c \in Calls : Sym(c) = s =>
         /\ call[c].pc = "upsert" => call[c].row = positions[s]
         /\ call[c].pc = "reject" => call[c].order \notin CloseOrders
    /\ \A o \in CloseOrders : orders[o] # NoOrder /\ orders[o].ticket.symbol = s =>
         orders[o].status # "REJECTED"

(* A BUY, the only one of its symbol, adds to what is held.                *)
LEMMA UpsertAdds ==
  ASSUME JobInv, NEW c \in Calls, Upsert(c), Inv', ~SoldOut(Sym(c)), InStock(Sym(c))
  PROVE  /\ positions[Sym(c)] # NoRow => /\ positions'[Sym(c)] # NoRow
                                         /\ positions'[Sym(c)].qty >= positions[Sym(c)].qty
         /\ \A d \in Calls : call[d].pc = "upsert" /\ Sym(d) = Sym(c) => d = c
  <1> DEFINE s == Sym(c)
  <1>1. /\ call[c].pc = "upsert" /\ call[c].row = positions[s] /\ s \in Symbols
        /\ Ticket(c) \in Tickets /\ Ticket(c).side = "BUY"
    BY TicketFacts DEF Upsert, InStock, JobInv, Inv, CallOK, HasTicket, Buying, Waiting, Sym, Ticket
  <1>2. ASSUME positions[s] # NoRow
        PROVE  positions'[s] # NoRow /\ positions'[s].qty >= positions[s].qty
    <2>1. call[c].row \in Row /\ positions[s] \in Row /\ positions \in [Symbols -> Row \cup {NoRow}]
      BY <1>1, <1>2 DEF JobInv, Inv, TypeOK
    <2>2. positions'[s] = Saved(positions[s], call[c].row, Blended(c))
      BY <1>1, <1>2, <2>1 DEF Upsert, StillStored
    <2>3. Blended(c) \in Row
      BY <1>1, <2>1, BlendedFacts DEF JobInv
    <2>4. Blended(c).qty >= positions[s].qty
      <3>1. Ticket(c).qty \in Nat /\ call[c].row.qty \in Int
        BY <1>1, <2>1, TicketFacts DEF Row
      <3>2. QED
        BY <1>1, <3>1 DEF Blended
    <2>5. positions'[s] \in Row /\ positions'[s].qty \in {positions[s].qty, Blended(c).qty}
      BY <2>1, <2>2, <2>3, SavedFacts
    <2>6. QED
      BY <2>1, <2>3, <2>4, <2>5, NoRowIsNoRow DEF Row
  <1>3. ASSUME NEW d \in Calls, call[d].pc = "upsert", Sym(d) = s, d # c
        PROVE  FALSE
    <2>1. Active(c) /\ Active(d) /\ Ticket(d).side = "BUY"
      BY <1>1, <1>3 DEF Active, Waiting, JobInv, Inv, CallOK, Buying, Ticket
    <2>2. s \in overlapped
      BY <1>3, <2>1 DEF JobInv, Traced
    <2>3. ASSUME NEW e \in {c, d} PROVE e \notin Closers /\ Moved(e, "BUY") /\ Sym(e) = s
      <3>1. call[e].pc = "upsert" /\ Ticket(e).side = "BUY" /\ Sym(e) = s
        BY <1>1, <1>3, <2>1
      <3>2. e \notin Closers
        BY <2>1, <3>1, CloserSide, SquareOffAssumption DEF JobInv, OursOnly, Traced, SellTicket
      <3>3. QED
        BY <3>1, <3>2 DEF Moved
    <2>4. Overwritten(s, "BUY")
      BY <1>3, <2>2, <2>3 DEF Overwritten
    <2>5. QED
      BY <2>4 DEF SoldOut
  <1>4. QED
    BY <1>2, <1>3

(* An order read as REJECTED was so before, or a call is turned away now.  *)
LEMMA RejectionSteps ==
  ASSUME Closable, JobInv, [SquareOffNext]_svars, NEW o \in Orders,
         orders'[o] # NoOrder, orders'[o].status = "REJECTED"
  PROVE  /\ orders[o] # NoOrder /\ orders'[o].ticket = orders[o].ticket
         /\ \/ orders[o].status = "REJECTED"
            \/ \E c \in Calls : call[c].pc = "reject" /\ call[c].order = o
  <1> USE DEF JobInv
  <1>1. CASE Quiet \/ Began \/ Crash
    BY <1>1, StartGives DEF Quiet, Began, Crash, db
  <1>2. CASE Placed
    BY <1>2 DEF Placed, Place, NewOrder, Inv, TypeOK
  <1>3. ASSUME NEW c \in Calls, Step(c) \/ Fault(c)
        PROVE  /\ orders[o] # NoOrder /\ orders'[o].ticket = orders[o].ticket
               /\ \/ orders[o].status = "REJECTED"
                  \/ call[c].pc = "reject" /\ call[c].order = o
    <2>1. orders[o] # NoOrder /\ orders'[o].ticket = orders[o].ticket
      BY <1>3, EngineKeeps
    <2>2. CASE UNCHANGED orders
      BY <2>1, <2>2
    <2>3. CASE Reject(c)
      BY <2>1, <2>3 DEF Reject, Inv, TypeOK
    <2>4. CASE Commit(c)
      <3>1. CASE call[c].order = o
        <4>1. orders[o] \in OrderDoc
          BY <2>1 DEF Inv, TypeOK
        <4>2. orders'[o].status = "EXECUTED"
          BY <2>1, <2>4, <3>1, <4>1 DEF Commit, Inv, TypeOK, OrderDoc
        <4>3. QED
          BY <4>2
      <3>2. CASE call[c].order # o
        BY <2>1, <2>4, <3>2 DEF Commit, Inv, TypeOK
      <3>3. QED
        BY <3>1, <3>2
    <2>5. QED
      BY <1>3, <2>2, <2>3, <2>4 DEF Step, Fault, Quote, Debit, ReadHolding, Credit, FindPosition,
                                    Upsert, Reduce, RecordTrade, Undo, db
  <1>4. QED
    BY <1>1, <1>2, <1>3, Kinds DEF Ran

(* Steps of no call leave the positions, and every copy, as they are.      *)
LEMMA NoCallsStep ==
  ASSUME Inv, Quiet \/ Placed \/ Began \/ Crash
  PROVE  /\ UNCHANGED positions
         /\ \A d \in Calls : call'[d].pc \in {"upsert", "credit", "reduce", "reject"} =>
              call'[d] = call[d]
  <1>1. CASE Quiet \/ Placed
    BY <1>1 DEF Quiet, Placed, Place, db
  <1>2. CASE Began
    BY <1>2, StartGives DEF Began, db
  <1>3. CASE Crash
    BY <1>3 DEF Crash, Active, Inv, TypeOK, CallState, db
  <1>4. QED
    BY <1>1, <1>2, <1>3

LEMMA InStockNext ==
  ASSUME Closable, JobInv, [SquareOffNext]_svars, NEW s \in Symbols, InStock(s)
  PROVE  InStock(s)'
  <1> USE DEF JobInv
  <1> SUFFICES ASSUME ~SoldOut(s)'
               PROVE  /\ \A lot \in job'.snap : lot.symbol = s =>
                           positions'[s] # NoRow /\ positions'[s].qty >= lot.qty
                      /\ \A d \in Calls : Sym(d)' = s =>
                           /\ call'[d].pc = "upsert" => call'[d].row = positions'[s]
                           /\ call'[d].pc = "reject" => call'[d].order \notin CloseOrders
                      /\ \A o \in CloseOrders :
                           orders'[o] # NoOrder /\ orders'[o].ticket.symbol = s =>
                             orders'[o].status # "REJECTED"
    BY DEF InStock
  <1>1. ~SoldOut(s)
    BY SoldOutStays
  <1>2. /\ \A lot \in job.snap : lot.symbol = s =>
             positions[s] # NoRow /\ positions[s].qty >= lot.qty
        /\ \A d \in Calls : Sym(d) = s =>
             /\ call[d].pc = "upsert" => call[d].row = positions[s]
             /\ call[d].pc = "reject" => call[d].order \notin CloseOrders
        /\ \A o \in CloseOrders :
             orders[o] # NoOrder /\ orders[o].ticket.symbol = s => orders[o].status # "REJECTED"
    BY <1>1 DEF InStock
  <1>3. ASSUME NEW o \in CloseOrders, orders'[o] # NoOrder, orders'[o].ticket.symbol = s
        PROVE  orders'[o].status # "REJECTED"
    <2> SUFFICES ASSUME orders'[o].status = "REJECTED" PROVE FALSE
      OBVIOUS
    <2>1. /\ orders[o] # NoOrder /\ orders[o].ticket.symbol = s
          /\ \/ orders[o].status = "REJECTED"
             \/ \E c \in Calls : call[c].pc = "reject" /\ call[c].order = o
      BY <1>3, RejectionSteps, SquareOffAssumption
    <2>2. PICK c \in Calls : call[c].pc = "reject" /\ call[c].order = o
      BY <1>2, <1>3, <2>1
    <2>3. Sym(c) = s
      BY <1>3, <2>1, <2>2, SquareOffAssumption, OrderExecutionAssumption DEF Traced, Sym, Ticket
    <2>4. QED
      BY <1>2, <1>3, <2>2, <2>3
  <1>4. CASE Snapshot /\ UNCHANGED vars
    <2>1. UNCHANGED <<positions, orders, call>> /\ job'.snap = OpenLots
      BY <1>4 DEF vars, db, Snapshot, JobOK, JobState
    <2>2. \A lot \in job'.snap : lot.symbol = s =>
            positions'[s] # NoRow /\ positions'[s].qty >= lot.qty
      BY <2>1 DEF OpenLots, Inv, TypeOK, Row
    <2>3. QED
      BY <1>2, <1>3, <2>1, <2>2 DEF Sym, Ticket
  <1>5. CASE job'.snap = job.snap /\ (Quiet \/ Placed \/ Began \/ Crash)
    BY <1>2, <1>3, <1>5, NoCallsStep DEF Sym, Ticket
  <1>6. ASSUME job'.snap = job.snap, NEW c \in Calls, Step(c) \/ Fault(c)
        PROVE  /\ \A lot \in job'.snap : lot.symbol = s =>
                    positions'[s] # NoRow /\ positions'[s].qty >= lot.qty
               /\ \A d \in Calls : Sym(d)' = s =>
                    /\ call'[d].pc = "upsert" => call'[d].row = positions'[s]
                    /\ call'[d].pc = "reject" => call'[d].order \notin CloseOrders
    <2>1. /\ Active(c) /\ \A d \in Calls : d # c => call'[d] = call[d]
          /\ \A d \in Calls : Sym(d)' = Sym(d)
          /\ s # Sym(c) => positions'[s] = positions[s]
          /\ call'[c].order = call[c].order
      BY <1>6, StepStaysHome, EngineKeeps DEF Sym, Ticket
    <2>2. CASE Sym(c) # s
      BY <1>2, <1>6, <2>1, <2>2
    <2>3. CASE Sym(c) = s /\ UNCHANGED positions
      <3>1. call'[c].pc = "upsert" => call'[c].row = positions[s]
        BY <1>6, <2>3, RowSteps
      <3>2. call'[c].pc = "reject" => call[c].order \notin CloseOrders
        <4> SUFFICES ASSUME call'[c].pc = "reject", call[c].order \in CloseOrders PROVE FALSE
          OBVIOUS
        <4>1. call[c].pc = "debit" \/ (call[c].pc = "holding" /\ ~Sellable(c))
          BY <1>6, RowSteps
        <4>2. PICK lot \in job.snap : Ticket(c) = SellTicket(lot)
          BY CloserSide
        <4>3. call[c].pc = "holding" /\ lot.symbol = s /\ Ticket(c).qty = lot.qty
          BY <2>3, <4>1, <4>2 DEF Inv, CallOK, Buying, Ticket, Sym, SellTicket
        <4>4. QED
          BY <1>2, <2>3, <4>1, <4>3 DEF Sellable
      <3>3. QED
        BY <1>2, <1>6, <2>1, <2>3, <3>1, <3>2
    <2>4. CASE Sym(c) = s /\ Upsert(c)
      <3>1. /\ positions[s] # NoRow => positions'[s] # NoRow /\ positions'[s].qty >= positions[s].qty
            /\ \A d \in Calls : call[d].pc = "upsert" /\ Sym(d) = s => d = c
        BY <1>1, <2>4, UpsertAdds, InvGoesOn
      <3>2. call'[c].pc \notin {"upsert", "reject"}
        BY <2>4 DEF Upsert, Goto, Inv, TypeOK, CallState
      <3>3. \A lot \in job'.snap : lot.symbol = s => positions'[s].qty >= lot.qty
        <4>1. ASSUME NEW lot \in job'.snap, lot.symbol = s PROVE positions'[s].qty >= lot.qty
          <5>1. /\ positions[s] # NoRow /\ positions[s].qty >= lot.qty
                /\ positions'[s] # NoRow /\ positions'[s].qty >= positions[s].qty
            BY <1>2, <1>6, <3>1, <4>1
          <5>2. positions[s].qty \in Int /\ positions'[s].qty \in Int /\ lot.qty \in Int
            BY <1>6, <4>1, <5>1, InvGoesOn DEF Inv, TypeOK, Row, JobOK, JobState, Lot
          <5>3. QED
            BY <5>1, <5>2
        <4>2. QED
          BY <4>1
      <3>4. QED
        BY <1>2, <1>6, <2>1, <3>1, <3>2, <3>3
    <2>5. CASE Sym(c) = s /\ Reduce(c)
      <3>1. Moved(c, "SELL")
        BY <2>5 DEF Reduce, Moved, Inv, CallOK, Selling, Ticket
      <3>2. QED
        BY <1>1, <2>5, <3>1 DEF SoldOut
    <2>6. QED
      BY <1>6, <2>2, <2>3, <2>4, <2>5, RowSteps
  <1>7. QED
    BY <1>3, <1>4, <1>5, <1>6, SnapshotOrStep DEF Ran

-----------------------------------------------------------------------------
(* A closing SELL leaves nothing, but for what the user has done.          *)

Bought(s) == \E d \in Calls \ Closers : Moved(d, "BUY") /\ Sym(d) = s
HasCopy(e, s) == call[e].pc \in {"credit", "reduce"} /\ Sym(e) = s
(* Another SELL of the user's has moved while e, his too, was under way.   *)
Beaten(e, s) ==
  /\ e \notin Closers /\ s \in overlapped
  /\ \E d \in Calls \ Closers : d # e /\ Moved(d, "SELL") /\ Sym(d) = s

(* Without BUYs there is one position row all along, and until the         *)
(* snapshot a copy of it is stale only if another SELL came first.         *)
OneRow(s) ==
  ~Bought(s) =>
    /\ positions[s] # NoRow => positions[s].id = NoCall
    /\ \A e \in Calls : HasCopy(e, s) =>
         /\ call[e].row.id = NoCall
         /\ job.pc = "idle" => call[e].row = positions[s] \/ Beaten(e, s)

(* No row, and no copy that can still be saved, has more than the snapshot. *)
Scarce(s) ==
  ~Bought(s) /\ ~Overwritten(s, "SELL") =>
    \A lot \in job.snap : lot.symbol = s =>
      /\ positions[s] # NoRow => positions[s].qty <= lot.qty
      /\ \A e \in Calls : HasCopy(e, s) => call[e].row.qty <= lot.qty \/ Beaten(e, s)

LEMMA ExcusesStay ==
  ASSUME Closable, JobInv, [SquareOffNext]_svars, NEW s \in Symbols
  PROVE  /\ Bought(s) => Bought(s)'
         /\ Overwritten(s, "SELL") => Overwritten(s, "SELL")'
         /\ \A e \in Calls : Beaten(e, s) => Beaten(e, s)'
  <1>1. \A d \in Calls, side \in {"BUY", "SELL"} :
          Moved(d, side) => Moved(d, side)' /\ Sym(d)' = Sym(d)
    BY MovedStays
  <1>2. overlapped \subseteq overlapped'
    BY OverlapsStay
  <1>3. Bought(s) => Bought(s)'
    BY <1>1 DEF Bought
  <1>4. ASSUME Overwritten(s, "SELL") PROVE Overwritten(s, "SELL")'
    <2>1. PICK d \in Calls \ Closers, e \in Calls \ Closers :
            /\ d # e /\ s \in overlapped
            /\ Moved(d, "SELL") /\ Sym(d) = s /\ Moved(e, "SELL") /\ Sym(e) = s
      BY <1>4 DEF Overwritten
    <2>2. QED
      BY <1>1, <1>2, <2>1 DEF Overwritten
  <1>5. \A e \in Calls : Beaten(e, s) => Beaten(e, s)'
    BY <1>1, <1>2 DEF Beaten
  <1>6. QED
    BY <1>3, <1>4, <1>5

(* A SELL saves the stored row or the copy, less what it sold, or deletes. *)
LEMMA ReduceTakes ==
  ASSUME JobInv, NEW c \in Calls, Reduce(c)
  PROVE  LET s == Sym(c) IN
         /\ Moved(c, "SELL") /\ s \in Symbols /\ call[c].row \in Row
         /\ call[c].row.qty >= Ticket(c).qty /\ Ticket(c).qty \in Nat \ {0}
         /\ positions'[s] # NoRow =>
              /\ positions[s] # NoRow /\ positions'[s].id = positions[s].id
              /\ positions'[s].qty \in {positions[s].qty, call[c].row.qty - Ticket(c).qty}
              /\ (call[c].row.qty = Ticket(c).qty => positions[s].id # call[c].row.id)
  <1> USE DEF JobInv
  <1> DEFINE s == Sym(c)
  <1>1. /\ Moved(c, "SELL") /\ s \in Symbols /\ call[c].row \in Row
        /\ call[c].row.qty >= Ticket(c).qty /\ Ticket(c).qty \in Nat \ {0}
    BY TicketFacts
    DEF Reduce, Moved, Inv, CallOK, HasTicket, HoldsRow, Selling, Waiting, Ticket, Sym
  <1>2. Reduced(c) \in Row /\ Reduced(c).qty = call[c].row.qty - Ticket(c).qty
        /\ Reduced(c).id = call[c].row.id
    BY <1>1, ReducedFacts DEF Reduce, Reduced, Row
  <1>3. positions \in [Symbols -> Row \cup {NoRow}]
    BY DEF Inv, TypeOK
  <1>4. ASSUME positions'[s] # NoRow
        PROVE  /\ positions[s] # NoRow /\ positions'[s].id = positions[s].id
               /\ positions'[s].qty \in {positions[s].qty, call[c].row.qty - Ticket(c).qty}
               /\ (call[c].row.qty = Ticket(c).qty => positions[s].id # call[c].row.id)
    <2>1. CASE Reduced(c).qty = 0
      BY <1>1, <1>3, <1>4, <2>1 DEF Reduce, StillStored
    <2>2. CASE Reduced(c).qty # 0 /\ ~StillStored(s, call[c].row)
      BY <1>1, <1>2, <1>3, <1>4, <2>2 DEF Reduce, Row
    <2>3. CASE Reduced(c).qty # 0 /\ StillStored(s, call[c].row)
      <3>1. /\ positions[s] \in Row
            /\ positions'[s] = Saved(positions[s], call[c].row, Reduced(c))
        BY <1>1, <1>3, <2>3 DEF Reduce, StillStored
      <3>2. positions'[s].id = positions[s].id
        BY <1>1, <1>2, <3>1 DEF Saved, Row
      <3>3. positions'[s].qty \in {positions[s].qty, Reduced(c).qty}
        BY <1>1, <1>2, <3>1, SavedFacts
      <3>4. QED
        BY <1>1, <1>2, <2>3, <3>1, <3>2, <3>3 DEF StillStored, Row
    <2>4. QED
      BY <2>1, <2>2, <2>3
  <1>5. QED
    BY <1>1, <1>4

(* A BUY saves only for the user, who has then paid for it.                *)
LEMMA UpsertBuys ==
  ASSUME JobInv, NEW c \in Calls, Upsert(c)
  PROVE  Bought(Sym(c))
  <1>1. call[c].pc = "upsert" /\ Ticket(c).side = "BUY"
    BY DEF Upsert, JobInv, Inv, CallOK, Buying, Ticket
  <1>2. c \notin Closers
    BY <1>1, CloserSide DEF JobInv, OursOnly, Traced, SellTicket
  <1>3. QED
    BY <1>1, <1>2 DEF Bought, Moved

LEMMA OneRowNext ==
  ASSUME Closable, JobInv, [SquareOffNext]_svars, NEW s \in Symbols, OneRow(s)
  PROVE  OneRow(s)'
  <1> USE DEF JobInv
  <1> SUFFICES ASSUME ~Bought(s)'
               PROVE  /\ positions'[s] # NoRow => positions'[s].id = NoCall
                      /\ \A e \in Calls : HasCopy(e, s)' =>
                           /\ call'[e].row.id = NoCall
                           /\ job'.pc = "idle" =>
                                call'[e].row = positions'[s] \/ Beaten(e, s)'
    BY DEF OneRow
  <1>1. ~Bought(s) /\ \A e \in Calls : Beaten(e, s) => Beaten(e, s)'
    BY ExcusesStay
  <1>2. /\ positions[s] # NoRow => positions[s].id = NoCall
        /\ \A e \in Calls : HasCopy(e, s) =>
             /\ call[e].row.id = NoCall
             /\ job.pc = "idle" => call[e].row = positions[s] \/ Beaten(e, s)
    BY <1>1 DEF OneRow
  <1>3. CASE Snapshot /\ UNCHANGED vars
    <2>1. UNCHANGED <<positions, call>> /\ job'.pc = "next"
      BY <1>3 DEF vars, db, Snapshot, JobOK, JobState
    <2>2. QED
      BY <1>2, <2>1 DEF HasCopy, Sym, Ticket
  <1>4. CASE (job'.pc = "idle" => job.pc = "idle") /\ (Quiet \/ Placed \/ Began \/ Crash)
    BY <1>1, <1>2, <1>4, NoCallsStep DEF HasCopy, Sym, Ticket
  <1>5. ASSUME job'.pc = "idle" => job.pc = "idle", NEW c \in Calls, Step(c) \/ Fault(c)
        PROVE  /\ positions'[s] # NoRow => positions'[s].id = NoCall
               /\ \A e \in Calls : HasCopy(e, s)' =>
                    /\ call'[e].row.id = NoCall
                    /\ job'.pc = "idle" => call'[e].row = positions'[s] \/ Beaten(e, s)'
    <2>1. /\ Active(c) /\ \A d \in Calls : d # c => call'[d] = call[d]
          /\ \A d \in Calls : Sym(d)' = Sym(d)
          /\ s # Sym(c) => positions'[s] = positions[s]
      BY <1>5, StepStaysHome, EngineKeeps DEF Sym, Ticket
    <2>2. CASE Sym(c) # s
      BY <1>1, <1>2, <1>5, <2>1, <2>2 DEF HasCopy
    <2>3. CASE Sym(c) = s /\ UNCHANGED positions
      <3>1. HasCopy(c, s)' =>
              \/ call'[c].row = positions[s] /\ positions[s] # NoRow
              \/ call'[c].row = call[c].row /\ call[c].pc = "credit"
        BY <1>5, <2>3, RowSteps DEF HasCopy, Upsert, Reduce
      <3>2. QED
        BY <1>1, <1>2, <1>5, <2>1, <2>3, <3>1 DEF HasCopy
    <2>4. CASE Sym(c) = s /\ Reduce(c)
      <3>1. positions'[s] # NoRow => positions'[s].id = NoCall
        BY <1>2, <2>4, ReduceTakes
      <3>2. ~HasCopy(c, s)'
        BY <2>4 DEF Reduce, Goto, HasCopy, Inv, TypeOK, CallState
      <3>3. ASSUME NEW e \in Calls, e # c, HasCopy(e, s), job.pc = "idle"
            PROVE  Beaten(e, s)
        <4>1. Active(e) /\ Sym(e) = Sym(c)
          BY <2>4, <3>3 DEF HasCopy, Active, Waiting
        <4>2. s \in overlapped /\ e \notin Closers /\ c \notin Closers
          BY <2>1, <2>4, <3>3, <4>1 DEF Traced, OursOnly
        <4>3. Moved(c, "SELL")
          BY <2>4, ReduceTakes
        <4>4. QED
          BY <2>4, <3>3, <4>2, <4>3 DEF Beaten
      <3>4. QED
        BY <1>1, <1>2, <1>5, <2>1, <3>1, <3>2, <3>3 DEF HasCopy
    <2>5. QED
      BY <1>1, <1>5, <2>2, <2>3, <2>4, RowSteps, UpsertBuys
  <1>6. QED
    BY <1>3, <1>4, <1>5, SnapshotOrStep DEF Ran

LEMMA ScarceNext ==
  ASSUME Closable, JobInv, [SquareOffNext]_svars, NEW s \in Symbols, OneRow(s), Scarce(s)
  PROVE  Scarce(s)'
  <1> USE DEF JobInv
  <1> SUFFICES ASSUME ~Bought(s)', ~Overwritten(s, "SELL")'
               PROVE  \A lot \in job'.snap : lot.symbol = s =>
                        /\ positions'[s] # NoRow => positions'[s].qty <= lot.qty
                        /\ \A e \in Calls : HasCopy(e, s)' =>
                             call'[e].row.qty <= lot.qty \/ Beaten(e, s)'
    BY DEF Scarce
  <1>1. /\ ~Bought(s) /\ ~Overwritten(s, "SELL")
        /\ \A e \in Calls : Beaten(e, s) => Beaten(e, s)'
    BY ExcusesStay
  <1>2. \A lot \in job.snap : lot.symbol = s =>
          /\ positions[s] # NoRow => positions[s].qty <= lot.qty
          /\ \A e \in Calls : HasCopy(e, s) => call[e].row.qty <= lot.qty \/ Beaten(e, s)
    BY <1>1 DEF Scarce
  <1>3. CASE Snapshot /\ UNCHANGED vars
    <2>1. UNCHANGED <<positions, call>> /\ job.pc = "idle" /\ job'.snap = OpenLots
      BY <1>3 DEF vars, db, Snapshot, JobOK, JobState
    <2>2. \A e \in Calls : HasCopy(e, s)' => call'[e].row = positions[s] \/ Beaten(e, s)'
      BY <1>1, <2>1 DEF OneRow, HasCopy, Sym, Ticket
    <2>3. \A lot \in job'.snap : lot.symbol = s => positions[s] \in Row /\ lot.qty = positions[s].qty
      BY <2>1 DEF OpenLots, Inv, TypeOK
    <2>4. QED
      BY <2>1, <2>2, <2>3 DEF Row
  <1>4. CASE job'.snap = job.snap /\ (Quiet \/ Placed \/ Began \/ Crash)
    BY <1>1, <1>2, <1>4, NoCallsStep DEF HasCopy, Sym, Ticket
  <1>5. ASSUME job'.snap = job.snap, NEW c \in Calls, Step(c) \/ Fault(c),
               NEW lot \in job.snap, lot.symbol = s
        PROVE  /\ positions'[s] # NoRow => positions'[s].qty <= lot.qty
               /\ \A e \in Calls : HasCopy(e, s)' =>
                    call'[e].row.qty <= lot.qty \/ Beaten(e, s)'
    <2>1. /\ \A d \in Calls : d # c => call'[d] = call[d]
          /\ \A d \in Calls : Sym(d)' = Sym(d)
          /\ s # Sym(c) => positions'[s] = positions[s]
      BY <1>5, StepStaysHome, EngineKeeps DEF Sym, Ticket
    <2>2. CASE Sym(c) # s
      BY <1>1, <1>2, <1>5, <2>1, <2>2 DEF HasCopy
    <2>3. CASE Sym(c) = s /\ UNCHANGED positions
      <3>1. HasCopy(c, s)' =>
              \/ call'[c].row = positions[s] /\ positions[s] # NoRow
              \/ call'[c].row = call[c].row /\ call[c].pc = "credit"
        BY <1>5, <2>3, RowSteps DEF HasCopy, Upsert, Reduce
      <3>2. QED
        BY <1>1, <1>2, <1>5, <2>1, <2>3, <3>1 DEF HasCopy
    <2>4. CASE Sym(c) = s /\ Reduce(c)
      <3>1. ~HasCopy(c, s)'
        BY <2>4 DEF Reduce, Goto, HasCopy, Inv, TypeOK, CallState
      <3>2. ~Beaten(c, s)
        BY <1>1, <2>4, ReduceTakes DEF Beaten, Overwritten
      <3>3. call[c].row.qty <= lot.qty /\ (positions[s] # NoRow => positions[s].qty <= lot.qty)
        BY <1>2, <1>5, <2>4, <3>2 DEF Reduce, HasCopy
      <3>4. /\ positions[s] # NoRow => positions[s].qty \in Int
            /\ lot.qty \in Int /\ call[c].row.qty \in Int /\ Ticket(c).qty \in Nat \ {0}
        BY <1>5, <2>4, ReduceTakes DEF Inv, TypeOK, Row, JobOK, JobState, Lot
      <3>5. positions'[s] # NoRow => positions'[s].qty <= lot.qty
        <4>1. CASE positions'[s] # NoRow
          <5>1. /\ positions[s] # NoRow
                /\ positions'[s].qty \in {positions[s].qty, call[c].row.qty - Ticket(c).qty}
            BY <2>4, <4>1, ReduceTakes
          <5>2. QED
            BY <3>3, <3>4, <5>1
        <4>2. QED
          BY <4>1
      <3>6. QED
        BY <1>1, <1>2, <1>5, <2>1, <3>1, <3>5 DEF HasCopy
    <2>5. QED
      BY <1>1, <1>5, <2>2, <2>3, <2>4, RowSteps, UpsertBuys
  <1>6. QED
    BY <1>3, <1>4, <1>5, SnapshotOrStep DEF Ran

-----------------------------------------------------------------------------
(* All of it, as one invariant.                                            *)

SquareOffInv ==
  /\ JobInv /\ Undisturbed
  /\ \A s \in Symbols : InStock(s) /\ OneRow(s) /\ Scarce(s)

LEMMA SquareOffInitial == SquareOffInit => SquareOffInv
  <1> SUFFICES ASSUME SquareOffInit PROVE SquareOffInv
    OBVIOUS
  <1>1. JobInv
    BY JobInit
  <1>2. /\ job.pc = "idle" /\ job.snap = {}
        /\ \A c \in Calls : call[c].pc = "idle"
        /\ \A o \in Orders : orders[o] = NoOrder
        /\ \A s \in Symbols : positions[s] # NoRow => positions[s].id = NoCall
    BY DEF SquareOffInit, Init, IdleCall, SeedRow
  <1>3. QED
    BY <1>1, <1>2, SquareOffAssumption
    DEF SquareOffInv, Undisturbed, InStock, OneRow, Scarce, HasCopy

LEMMA SquareOffStep ==
  ASSUME Closable
  PROVE  SquareOffInv /\ [SquareOffNext]_svars => SquareOffInv'
  BY JobNext, UndisturbedNext, InStockNext, OneRowNext, ScarceNext DEF SquareOffInv

LEMMA SquareOffHolds ==
  ASSUME Closable
  PROVE  SquareOffSpec => []SquareOffInv
  BY SquareOffInitial, SquareOffStep, PTL DEF SquareOffSpec

-----------------------------------------------------------------------------
(* The account and the job keep their types (SquareOffTypeOK).             *)
THEOREM SquareOffTypeCorrect ==
  ASSUME Closable
  PROVE  SquareOffSpec => []SquareOffTypeOK
  <1>1. SquareOffInv => SquareOffTypeOK
    BY DEF SquareOffInv, JobInv, Inv, JobOK, SquareOffTypeOK
  <1>2. QED
    BY <1>1, SquareOffHolds, PTL

(* For any number of positions: a job that is done has tried them all, has *)
(* a trade for each it reports closed, and leaves the account flat if      *)
(* nothing failed and nobody else traded (squareOffAll 157-182).           *)
THEOREM EveryPositionIsTried ==
  ASSUME Closable
  PROVE  SquareOffSpec => []EveryPositionTried
  <1>1. SquareOffInv => EveryPositionTried
    <2> SUFFICES ASSUME SquareOffInv, job.pc = "done"
                 PROVE  /\ job.closed \cup job.failed = job.snap
                        /\ \A lot \in job.closed : \E t \in trades :
                             t.id \in Closers /\ t.ticket = SellTicket(lot)
                        /\ faults = 0 /\ UsersIdle => OpenLots = {}
      BY DEF EveryPositionTried, UsersIdle
    <2>1. job.todo = {} /\ job.closed \cup job.failed = job.snap
      BY DEF SquareOffInv, JobInv, JobOK
    <2>2. \A lot \in job.closed : \E t \in trades :
            t.id \in Closers /\ t.ticket = SellTicket(lot)
      BY DEF SquareOffInv, JobInv, JobOK
    <2>3. ASSUME faults = 0, UsersIdle PROVE OpenLots = {}
      BY <2>1, <2>3 DEF SquareOffInv, Undisturbed, StillToSell, InHand, OpenLots
    <2>4. QED
      BY <2>1, <2>2, <2>3
  <1>2. QED
    BY <1>1, SquareOffHolds, PTL

(* A flatten is never refused (162) unless units it counted were sold by   *)
(* another execution, or lost to two overlapping BUYs of the user.         *)
THEOREM FlattenNotRefused ==
  ASSUME Closable
  PROVE  SquareOffSpec => []RefusedOnlyIfSold
  <1>1. SquareOffInv => RefusedOnlyIfSold
    <2> SUFFICES ASSUME SquareOffInv, NEW c \in Closers, call[c].order # NoOrder,
                        orders[call[c].order].status = "REJECTED"
                 PROVE  SoldOut(Sym(c))
      BY DEF RefusedOnlyIfSold, SoldOut
    <2>1. /\ c \in Calls /\ call[c].order \in CloseOrders /\ call[c].order \in Orders
          /\ orders[call[c].order] # NoOrder /\ Sym(c) = orders[call[c].order].ticket.symbol
      BY SquareOffAssumption DEF SquareOffInv, JobInv, OursOnly, Traced, Sym, Ticket
    <2>2. Sym(c) \in Symbols
      BY <2>1, TicketFacts DEF SquareOffInv, JobInv, Inv, TypeOK, OrderDoc
    <2>3. QED
      BY <2>1, <2>2 DEF SquareOffInv, InStock
  <1>2. QED
    BY <1>1, SquareOffHolds, PTL

(* A SELL of the job's leaves no unit of the position, whenever the        *)
(* snapshot was taken and whatever sales overlap it, unless the user has   *)
(* bought, or two of his own SELLs overlapped (squareOffAll 166-174).      *)
THEOREM ClosersFlatten ==
  ASSUME Closable
  PROVE  SquareOffSpec => ClosingSellFlattens
  <1>1. SquareOffInv /\ [SquareOffNext]_svars =>
          \A c \in Closers :
            (call[c].pc = "reduce" /\ call'[c].pc = "trade" /\ positions'[Sym(c)] # NoRow) =>
              \/ \E d \in Calls \ Closers : Moved(d, "BUY") /\ Sym(d) = Sym(c)
              \/ Overwritten(Sym(c), "SELL")
    <2> SUFFICES ASSUME SquareOffInv, [SquareOffNext]_svars, NEW c \in Closers,
                        call[c].pc = "reduce", call'[c].pc = "trade",
                        positions'[Sym(c)] # NoRow,
                        ~Bought(Sym(c)), ~Overwritten(Sym(c), "SELL")
                 PROVE  FALSE
      BY DEF Bought
    <2>1. JobInv /\ Inv /\ c \in Calls
      BY SquareOffAssumption DEF SquareOffInv, JobInv
    <2>2. Reduce(c)
      <3>1. ASSUME NEW d \in Calls, Step(d) \/ Fault(d) PROVE Reduce(c)
        <4>1. d = c
          BY <2>1, <3>1, StepStaysHome
        <4>2. QED
          BY <2>1, <3>1, <4>1, RowSteps DEF Upsert, Fault, Goto, AfterFailure, TypeOK, Inv, CallState,
               Step, Quote, Debit, ReadHolding, Credit, Reject, FindPosition, RecordTrade, Commit, Undo
      <3>2. CASE Quiet \/ Placed
        BY <3>2 DEF Quiet, db, Placed, Place
      <3>3. CASE Began
        BY <2>1, <3>3, StartGives DEF Began
      <3>4. CASE Crash
        BY <2>1, <3>4, CrashKeeps
      <3>5. QED
        BY <2>1, <3>1, <3>2, <3>3, <3>4, Kinds DEF Ran, JobInv
    <2>3. /\ positions[Sym(c)] # NoRow /\ Sym(c) \in Symbols
          /\ call[c].row \in Row /\ call[c].row.qty >= Ticket(c).qty
          /\ (call[c].row.qty = Ticket(c).qty => positions[Sym(c)].id # call[c].row.id)
      BY <2>1, <2>2, ReduceTakes
    <2>4. PICK lot \in job.snap : Ticket(c) = SellTicket(lot)
      BY <2>1, CloserSide DEF JobInv, OursOnly, Traced
    <2>5. call[c].row.qty <= lot.qty /\ Ticket(c).qty = lot.qty /\ lot.qty \in Int
      BY <2>1, <2>3, <2>4 DEF SquareOffInv, Scarce, HasCopy, Beaten, Sym, SellTicket,
                              JobInv, JobOK, JobState, Lot
    <2>6. positions[Sym(c)].id = NoCall /\ call[c].row.id = NoCall
      BY <2>1, <2>3 DEF SquareOffInv, OneRow, HasCopy
    <2>7. QED
      BY <2>3, <2>5, <2>6 DEF Row
  <1>2. QED
    BY <1>1, SquareOffHolds, PTL DEF ClosingSellFlattens, SquareOffSpec

=============================================================================
