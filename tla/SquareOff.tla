----------------------------- MODULE SquareOff -----------------------------
(***************************************************************************)
(* The end-of-session flatten, PaperTradingService.squareOffAll (called by *)
(* the signals worker through portfolio-internal.controller.ts:116-120),   *)
(* while the user goes on trading the same account.                        *)
(*                                                                         *)
(* The job takes one snapshot of the open positions and closes them one by *)
(* one: it creates a market SELL for the quantity in the snapshot and runs *)
(* the fill engine on it.  A failure is counted and the loop goes on.      *)
(***************************************************************************)
EXTENDS OrderExecution

CONSTANTS
  Closers,     \* the executeOrder calls the job makes; the rest are the user's
  CloseOrders, \* ids of the orders the job creates; the rest are the user's
  UserTickets  \* what the user's orders ask for

ASSUME SquareOffAssumption ==
  Closers \subseteq Calls /\ CloseOrders \subseteq Orders /\ UserTickets \subseteq Tickets

VARIABLES
  job     \* the local variables of squareOffAll

svars == <<vars, job>>

Lot == [symbol : Symbols, qty : Nat]
JobState == [pc : {"idle", "next", "execute", "wait", "done", "lost"},
             snap : SUBSET Lot, todo : SUBSET Lot, lot : Lot \cup {NoRow},
             order : Orders \cup {NoOrder}, run : Closers \cup {NoCall},
             closed : SUBSET Lot, failed : SUBSET Lot]

SquareOffInit ==
  /\ Init
  /\ job = [pc |-> "idle", snap |-> {}, todo |-> {}, lot |-> NoRow, order |-> NoOrder,
            run |-> NoCall, closed |-> {}, failed |-> {}]

OpenLots == {[symbol |-> s, qty |-> positions[s].qty] :
               s \in {s \in Symbols : positions[s] # NoRow /\ positions[s].qty > 0}}

(* openPositionsAcrossUsers: one read, before the loop.                    *)
Snapshot ==
  /\ job.pc = "idle"
  /\ job' = [job EXCEPT !.pc = "next", !.snap = OpenLots, !.todo = OpenLots]
  /\ UNCHANGED vars

SellTicket(lot) ==
  [side |-> "SELL", type |-> "MARKET", symbol |-> lot.symbol, qty |-> lot.qty, limit |-> 0]

\* Mutant (ClosingSellFlattens): one unit at a time.
CloseTicketUnit(lot) == [SellTicket(lot) EXCEPT !.qty = 1]
CloseTicket(lot) == SellTicket(lot)

(* The next position: its SELL is created PENDING, without the risk gate.  *)
CreateClose ==
  /\ job.pc = "next"
  /\ \E lot \in job.todo, o \in CloseOrders :
       /\ NewOrder(o, CloseTicket(lot))
       /\ job' = [job EXCEPT !.pc = "execute", !.lot = lot, !.order = o,
                             !.todo = @ \ {lot}]
  /\ UNCHANGED <<cash, realised, positions, trades, call, env>>

(* The insert itself fails: counted like any other failure.                *)
CreateFails ==
  /\ job.pc = "next"
  /\ faults < MaxFaults
  /\ \E lot \in job.todo :
       job' = [job EXCEPT !.todo = @ \ {lot}, !.failed = @ \cup {lot}]
  /\ faults' = faults + 1
  /\ UNCHANGED <<db, call, crashes, overlapped>>

RunClose ==
  /\ job.pc = "execute"
  /\ \E c \in Closers :
       /\ Start(c, job.order)
       /\ job' = [job EXCEPT !.pc = "wait", !.run = c]

\* Mutant (EveryPositionTried): a failure ends the loop.
AfterCloseAborting(ok) == IF ok THEN "next" ELSE "done"
AfterClose(ok) == "next"

\* Mutant (SquareOffEnds): the loop goes on only once the order has filled.
SettledIfDone(c) == call[c].pc = "done"
Settled(c) == call[c].pc \in Ended

(* The execution returned or threw; the loop goes on either way.  It may   *)
(* throw even after the fill, in the read that feeds the position event.   *)
CloseEnded ==
  /\ job.pc = "wait" /\ Settled(job.run)
  /\ \E ok \in BOOLEAN :
       /\ ok => call[job.run].pc = "done"
       /\ (~ok /\ call[job.run].pc = "done") => faults < MaxFaults
       /\ faults' = IF ~ok /\ call[job.run].pc = "done" THEN faults + 1 ELSE faults
       /\ job' = [job EXCEPT !.pc = AfterClose(ok), !.run = NoCall,
                    !.closed = IF ok THEN @ \cup {job.lot} ELSE @,
                    !.failed = IF ok THEN @ ELSE @ \cup {job.lot}]
  /\ UNCHANGED <<db, call, crashes, overlapped>>

Finish ==
  /\ job.pc = "next" /\ job.todo = {}
  /\ job' = [job EXCEPT !.pc = "done"]
  /\ UNCHANGED vars

(* The user's own orders, and PUT execute on any stored order.             *)
UserStep ==
  /\ \/ \E o \in Orders \ CloseOrders, t \in UserTickets : Place(o, t)
     \/ \E c \in Calls \ Closers, o \in Orders :
          orders[o] # NoOrder /\ Start(c, o)
  /\ UNCHANGED job

ProcessCrash ==
  /\ Crash
  /\ job' = IF job.pc \in {"idle", "done"} THEN job ELSE [job EXCEPT !.pc = "lost"]

JobStep == Snapshot \/ CreateClose \/ CreateFails \/ RunClose \/ CloseEnded \/ Finish

EngineStep == \E c \in Calls : (Step(c) \/ Fault(c)) /\ UNCHANGED job

SquareOffNext == JobStep \/ UserStep \/ EngineStep \/ ProcessCrash

SquareOffSpec == SquareOffInit /\ [][SquareOffNext]_svars

(* What has been started runs on: the job's awaits and the engine's are    *)
(* answered or fail (the market call has a 5 s timeout).  Nothing makes    *)
(* the worker call the endpoint, or the user trade.                        *)
Fairness ==
  /\ WF_svars(CreateClose \/ CreateFails \/ RunClose \/ CloseEnded \/ Finish)
  /\ \A c \in Calls : WF_svars((Step(c) \/ Fault(c)) /\ UNCHANGED job)

SquareOffFair == SquareOffSpec /\ Fairness

-----------------------------------------------------------------------------
(* The job record has its type.                                            *)
SquareOffTypeOK == TypeOK /\ job \in JobState

(* "One position failing must not abandon the rest" (163-164): when the    *)
(* job is done, every position of its snapshot was tried; those it reports *)
(* closed have a trade of the job's for the quantity reported; and if      *)
(* nobody else traded and nothing failed, the account is flat.             *)
EveryPositionTried ==
  job.pc = "done" =>
    /\ job.closed \cup job.failed = job.snap
    /\ \A lot \in job.closed : \E t \in trades :
         t.id \in Closers /\ t.ticket = SellTicket(lot)
    /\ (faults = 0 /\ \A c \in Calls \ Closers : call[c].pc = "idle") => OpenLots = {}

(* A job that has begun ends, failures or not, unless the process dies.    *)
SquareOffEnds == (job.pc = "next") ~> (job.pc \in {"done", "lost"})

\* The money of call d, a BUY or a SELL as side says, has moved (or d crashed).
Moved(d, side) ==
  /\ call[d].pc \notin {"idle", "quote", "debit", "holding", "credit", "reject", "refused"}
  /\ Ticket(d).side = side

(* Two orders of the user on a symbol, both BUYs or both SELLs, overlap:   *)
(* the second to save the position writes over what the first has done.    *)
Overwritten(s, side) ==
  /\ s \in overlapped
  /\ \E d, e \in Calls \ Closers : d # e /\ \A u \in {d, e} : Moved(u, side) /\ Sym(u) = s

(* "a flatten must never be refused" (paper-trading.service.ts:162).  An   *)
(* order of the job is REJECTED only if units in its snapshot were sold by *)
(* another execution before it came to them, or by its own, run twice; or  *)
(* lost to two BUYs of the user that overlapped.                           *)
RefusedOnlyIfSold ==
  \A c \in Closers :
    (call[c].order # NoOrder /\ orders[call[c].order].status = "REJECTED") =>
      \/ \E d \in Calls : Moved(d, "SELL") /\ Sym(d) = Sym(c)
      \/ Overwritten(Sym(c), "BUY")

(* "Close every open paper position at market" (153): when a SELL of the   *)
(* job reduces a position, units of it stay open only if the user has been *)
(* buying the symbol meanwhile, or units sold by two overlapping SELLs of  *)
(* the user came back.                                                     *)
ClosingSellFlattens ==
  [][\A c \in Closers :
       (call[c].pc = "reduce" /\ call'[c].pc = "trade" /\ positions'[Sym(c)] # NoRow) =>
         \/ \E d \in Calls \ Closers : Moved(d, "BUY") /\ Sym(d) = Sym(c)
         \/ Overwritten(Sym(c), "SELL")]_svars

=============================================================================
