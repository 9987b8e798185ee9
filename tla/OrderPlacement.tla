--------------------------- MODULE OrderPlacement ---------------------------
(***************************************************************************)
(* Placing orders: PaperTradingService.placeOrder with the risk gate       *)
(* RiskLimitsService.guardBuyOrder, on top of the fill engine, and the     *)
(* PUT order/:id/execute endpoint, which runs the engine on a stored order *)
(* directly.                                                               *)
(*                                                                         *)
(* Each request is one placeOrder call; when it reaches executeOrder it    *)
(* becomes the call of the same name in OrderExecution.  The two limits of *)
(* the gate that are arithmetic over account value (daily loss and         *)
(* aggregate risk) may refuse any order here; RiskLimits models them.      *)
(***************************************************************************)
EXTENDS OrderExecution

CONSTANTS
  Requests,      \* the calls that are made by placeOrder; the rest are PUTs
  Keys, NoKey,   \* clientOrderId values, and its absence
  MaxPositions,  \* MAX_CONCURRENT_POSITIONS
  NoReply

ASSUME OrderPlacementAssumption ==
  /\ Requests \subseteq Calls
  /\ NoKey \notin Keys
  /\ MaxPositions \in Nat

VARIABLES
  req,      \* the local variables of each placeOrder call
  keyOf,    \* clientOrderId of each stored order (PaperOrder.clientOrderId)
  passed,   \* history: orders guardBuyOrder has let through
  raced     \* history: orders on which a PUT and another call ran together

history == <<passed, raced>>
placement == <<req, keyOf, history>>
pvars == <<vars, placement>>

Reply == [order : Orders, status : {"PENDING", "EXECUTED", "REJECTED"},
          price : Prices \cup {0}, traded : BOOLEAN]

\* "error": the request was answered with an exception.
ReqWaiting == {"check", "create", "resolve", "trade", "price", "cash", "positions",
               "refuse", "execute", "filling"}
ReqState == [pc : {"idle", "replied", "error", "lost"} \cup ReqWaiting,
             key : Keys \cup {NoKey}, ticket : Tickets \cup {NoOrder},
             order : Orders \cup {NoOrder}, price : Prices \cup {0},
             funded : BOOLEAN, reply : Reply \cup {NoReply}]

PlacementInit ==
  /\ Init
  /\ req = [r \in Requests |->
       [pc |-> "idle", key |-> NoKey, ticket |-> NoOrder, order |-> NoOrder,
        price |-> 0, funded |-> FALSE, reply |-> NoReply]]
  /\ keyOf = [o \in Orders |-> NoKey]
  /\ passed = {} /\ raced = {}

At(r, pc) == req[r].pc = pc
Now(r, pc) == req' = [req EXCEPT ![r].pc = pc]
Want(r) == req[r].ticket

\* Mutant (RepliesAreTrue): the reply says EXECUTED as soon as the order exists.
AnswerFilled(r, o, traded) ==
  req' = [req EXCEPT ![r].pc = "replied",
            ![r].reply = [order |-> o, status |-> "EXECUTED",
                          price |-> orders[o].price, traded |-> traded]]
(* placementResult: the stored status, executedPrice, and the trade if one *)
(* was found.                                                              *)
Answer(r, o, traded) ==
  req' = [req EXCEPT ![r].pc = "replied",
            ![r].reply = [order |-> o, status |-> orders[o].status,
                          price |-> orders[o].price, traded |-> traded]]

-----------------------------------------------------------------------------
(* A client sends an order, with or without a key.  A repeat of a key is   *)
(* a retry: it carries the same ticket.                                    *)
Submit(r) ==
  /\ At(r, "idle")
  /\ \E t \in Tickets, k \in Keys \cup {NoKey} :
       /\ \A q \in Requests : (~At(q, "idle") /\ req[q].key = k /\ k # NoKey) => Want(q) = t
       /\ req' = [req EXCEPT ![r].ticket = t, ![r].key = k,
                             ![r].pc = IF k = NoKey THEN "create" ELSE "check"]
  /\ UNCHANGED <<vars, keyOf, history>>

KeyedOrders(k) == {o \in Orders : orders[o] # NoOrder /\ keyOf[o] = k}

\* Mutant (RetrySeesFill): the trade is not looked up.
HasFillNever(o) == FALSE
HasFill(o) == orders[o].status = "EXECUTED"

(* findByClientOrderId: from the pre-check ("check") and from the handler  *)
(* of a duplicate-key error ("resolve").  The trade is looked up by a      *)
(* second read, and only if the order read EXECUTED.                       *)
FindByKey(r) ==
  /\ At(r, "check") \/ At(r, "resolve")
  /\ LET found == KeyedOrders(req[r].key)
     IN \/ /\ found = {}
           /\ Now(r, IF At(r, "check") THEN "create" ELSE "error")
        \/ \E o \in found :
             IF HasFill(o)
             THEN req' = [req EXCEPT ![r].pc = "trade", ![r].order = o,
                                     ![r].price = orders[o].price]
             ELSE Answer(r, o, FALSE)
  /\ UNCHANGED <<vars, keyOf, history>>

FindTrade(r) ==
  /\ At(r, "trade")
  /\ req' = [req EXCEPT ![r].pc = "replied",
       ![r].reply = [order |-> req[r].order, status |-> "EXECUTED", price |-> req[r].price,
                     traded |-> \E t \in trades : t.order = req[r].order]]
  /\ UNCHANGED <<vars, keyOf, history>>

AfterCreate(t) ==
  IF t.side = "BUY" THEN "price" ELSE IF t.type = "MARKET" THEN "execute" ELSE "replied"

\* Mutant (OneFillPerKey): no unique index on (userId, clientOrderId).
KeyFreeUnindexed(k) == TRUE
KeyFree(k) == k = NoKey \/ KeyedOrders(k) = {}

(* orderModel.create, which the unique index on (userId, clientOrderId)    *)
(* refuses when another request got there first.                           *)
CreateOrder(r) ==
  /\ At(r, "create")
  /\ \/ /\ KeyFree(req[r].key)
        /\ \E o \in Orders :
             /\ NewOrder(o, Want(r))
             /\ keyOf' = [keyOf EXCEPT ![o] = req[r].key]
             /\ req' = [req EXCEPT ![r].order = o, ![r].pc = AfterCreate(Want(r)),
                  ![r].reply = IF AfterCreate(Want(r)) # "replied" THEN NoReply
                               ELSE [order |-> o, status |-> "PENDING", price |-> 0,
                                     traded |-> FALSE]]
     \/ /\ ~KeyFree(req[r].key)
        /\ Now(r, "resolve")
        /\ UNCHANGED <<orders, keyOf>>
  /\ UNCHANGED <<cash, realised, positions, trades, call, env, history>>

-----------------------------------------------------------------------------
(* guardBuyOrder.                                                          *)

\* Mutant (GatedBuys): an order that cannot be priced is let through.
GuardPriceFailingOpen(r) ==
  /\ At(r, "price")
  /\ \/ \E p \in IF Want(r).limit # 0 THEN {Want(r).limit} ELSE Prices :
          req' = [req EXCEPT ![r].price = p, ![r].pc = "cash"]
     \/ Want(r).limit = 0 /\ Now(r, "execute")
  /\ UNCHANGED <<vars, keyOf, history>>
(* The price to check at: limitPrice whatever the order's type, else a     *)
(* live price; with neither the order is refused.                          *)
GuardPrice(r) ==
  /\ At(r, "price")
  /\ \/ \E p \in IF Want(r).limit # 0 THEN {Want(r).limit} ELSE Prices :
          req' = [req EXCEPT ![r].price = p, ![r].pc = "cash"]
     \/ Want(r).limit = 0 /\ Now(r, "refuse")
  /\ UNCHANGED <<vars, keyOf, history>>

(* getPortfolio, first read: the balance, compared later with the cost.    *)
ReadCash(r) ==
  /\ At(r, "cash")
  /\ req' = [req EXCEPT ![r].pc = "positions",
                        ![r].funded = req[r].price * Want(r).qty <= cash]
  /\ UNCHANGED <<vars, keyOf, history>>

Held == {s \in Symbols : positions[s] # NoRow}
OpenWith(t) == Cardinality(Held \cup {t.symbol})

(* getPortfolio, second read, and the verdict of stateFrom.                *)
ReadPositions(r) ==
  /\ At(r, "positions")
  /\ \/ /\ req[r].funded /\ OpenWith(Want(r)) <= MaxPositions
        /\ passed' = passed \cup {req[r].order}
        /\ IF Want(r).type = "MARKET" THEN Now(r, "execute")
           ELSE req' = [req EXCEPT ![r].pc = "replied",
                  ![r].reply = [order |-> req[r].order, status |-> "PENDING",
                                price |-> 0, traded |-> FALSE]]
     \/ Now(r, "refuse") /\ UNCHANGED passed
  /\ UNCHANGED <<vars, keyOf, raced>>

(* rejectOrder: save() of the document created, whatever became of the     *)
(* stored one meanwhile.                                                   *)
Refuse(r) ==
  /\ At(r, "refuse")
  /\ orders' = [orders EXCEPT ![req[r].order].status = "REJECTED"]
  /\ Now(r, "error")
  /\ UNCHANGED <<cash, realised, positions, trades, call, env, keyOf, history>>

-----------------------------------------------------------------------------
(* executeOrder, called by placeOrder for a MARKET order ...               *)
Execute(r) ==
  /\ At(r, "execute")
  /\ Start(r, req[r].order)
  /\ Now(r, "filling")
  /\ UNCHANGED <<keyOf, history>>

(* ... whose outcome is the request's.                                     *)
Filled(r) ==
  /\ At(r, "filling")
  /\ call[r].pc \in Ended
  /\ IF call[r].pc = "done"
     THEN req' = [req EXCEPT ![r].pc = "replied",
            ![r].reply = [order |-> req[r].order, status |-> "EXECUTED",
                          price |-> call[r].price, traded |-> TRUE]]
     ELSE Now(r, "error")
  /\ UNCHANGED <<vars, keyOf, history>>

\* The order is being placed, or executed by another call.
InHand(o) == \/ \E r \in Requests : req[r].order = o /\ req[r].pc \in ReqWaiting
             \/ \E c \in Calls : Active(c) /\ call[c].order = o

(* PUT order/:id/execute, by the user, for any of the account's orders.    *)
PutExecute(c, o) ==
  /\ c \notin Requests /\ orders[o] # NoOrder
  /\ Start(c, o)
  /\ raced' = IF InHand(o) THEN raced \cup {o} ELSE raced
  /\ UNCHANGED <<req, keyOf, passed>>

(* A read or write of the request itself fails; after a fill that is the   *)
(* read of the positions for the client's event (executeOrder 184).        *)
RequestFault(r) ==
  /\ faults < MaxFaults
  /\ \/ req[r].pc \in ReqWaiting \ {"execute", "filling"}
     \/ At(r, "filling") /\ call[r].pc = "done"
  /\ faults' = faults + 1
  /\ Now(r, "error")
  /\ UNCHANGED <<db, call, crashes, overlapped, keyOf, history>>

(* The process dies with its requests as well as its executions.           *)
ProcessCrash ==
  /\ crashes < MaxCrashes
  /\ (\E r \in Requests : req[r].pc \in ReqWaiting) \/ (\E c \in Calls : Active(c))
  /\ call' = [c \in Calls |-> IF Active(c) THEN [call[c] EXCEPT !.pc = "crashed"] ELSE call[c]]
  /\ req' = [r \in Requests |-> IF req[r].pc \in ReqWaiting THEN [req[r] EXCEPT !.pc = "lost"]
                                ELSE req[r]]
  /\ crashes' = crashes + 1
  /\ UNCHANGED <<db, faults, overlapped, keyOf, history>>

Place1(r) ==
  \/ FindByKey(r) \/ FindTrade(r) \/ CreateOrder(r) \/ GuardPrice(r) \/ ReadCash(r)
  \/ ReadPositions(r) \/ Refuse(r) \/ Execute(r) \/ Filled(r)

PlacementNext ==
  \/ \E r \in Requests : Submit(r) \/ Place1(r) \/ RequestFault(r)
  \/ \E c \in Calls, o \in Orders : PutExecute(c, o)
  \/ \E c \in Calls : (Step(c) \/ Fault(c)) /\ UNCHANGED placement
  \/ ProcessCrash

PlacementSpec == PlacementInit /\ [][PlacementNext]_pvars

-----------------------------------------------------------------------------
(* Every request record, key and history variable has its type.            *)
PlacementTypeOK ==
  /\ TypeOK
  /\ req \in [Requests -> ReqState]
  /\ keyOf \in [Orders -> Keys \cup {NoKey}]
  /\ passed \subseteq Orders /\ raced \subseteq Orders

(* Re-sending a key never buys or sells twice: whatever races, fails or    *)
(* crashes between the pre-check, the insert and the fill, the requests    *)
(* that carry one key make at most one trade (placeOrder 67-98, the unique *)
(* index of paper-order.schema.ts 109-116).                                *)
OneFillPerKey ==
  \A q, r \in Requests :
    (q # r /\ req[q].key = req[r].key /\ req[q].key # NoKey) =>
      ~ \E t, u \in trades : t.id = q /\ u.id = r

(* All the answers to one key name the same order, and an answer that says *)
(* EXECUTED carries the trade and the price the stored order reports, as   *)
(* long as no PUT races the order (findByClientOrderId 118-135,            *)
(* placementResult).                                                       *)
RepliesAreTrue ==
  \A q, r \in Requests :
    (req[q].reply # NoReply /\ req[r].reply # NoReply) =>
      /\ (req[q].key = req[r].key /\ req[q].key # NoKey) =>
           req[q].reply.order = req[r].reply.order
      /\ (req[q].reply.status = "EXECUTED" /\ req[q].reply.order \notin raced) =>
           /\ req[q].reply.traded
           /\ orders[req[q].reply.order].status = "EXECUTED"
           /\ orders[req[q].reply.order].price = req[q].reply.price

BrokenOff(o) == \E r \in Requests : req[r].order = o /\ req[r].pc \in {"error", "lost"}

(* "Gate a BUY against the risk limits before anything is executed"        *)
(* (risk-limits.service.ts:163).  A BUY that has traded was passed by the  *)
(* gate, or a PUT took the order while it was being placed, or its         *)
(* placement broke off (an error or a crash) and left it PENDING.          *)
GatedBuys ==
  \A t \in trades : t.ticket.side = "BUY" =>
    t.order \in passed \cup raced \/ (t.id \notin Requests /\ BrokenOff(t.order))

(* An order reported REJECTED has not traded, unless a PUT ran while it    *)
(* was being placed or executed, or after its execution broke off with the *)
(* trade recorded: then the REJECTED of rejectOrder (156-160) or of        *)
(* executeOrder (103-107, 120-123) may cover a fill.                       *)
RejectedNeverTrades ==
  \A t \in trades :
    orders[t.order].status = "REJECTED" =>
      t.order \in raced \/ call[t.id].pc \in {"unmarked", "crashed"}

(* "Most positions that may be open at once" (risk-limits.service.ts:27).  *)
(* The gate keeps it for requests one at a time (GateKeepsLimits of        *)
(* RiskLimits); two at once can pass it together.                          *)
PositionCap == Cardinality(Held) <= MaxPositions

(* The answer to a repeated key includes the fill, "so a retrying client   *)
(* sees the price it actually got" (paper-trading.service.ts:113-117): an  *)
(* answer without a trade to a key whose order has traded is given only    *)
(* while the executing call has yet to mark the order, or was broken off   *)
(* before it could.                                                        *)
RetrySeesFill ==
  [][\A r \in Requests :
       (/\ req[r].pc \in {"check", "resolve"} /\ req'[r].pc = "replied"
        /\ req'[r].reply.order \notin raced /\ ~req'[r].reply.traded) =>
         \A t \in trades : t.order = req'[r].reply.order =>
           call[t.id].pc \in {"commit", "unmarked", "crashed"}]_pvars

=============================================================================
