------------------------ MODULE OrderPlacementProofs ------------------------
(***************************************************************************)
(* What holds of placeOrder for any number of requests, keys, orders,      *)
(* symbols, failures and crashes: a key fills at most once, and no BUY     *)
(* trades past the gate but by a PUT that raced its placement, or after    *)
(* that placement broke off.                                               *)
(*                                                                         *)
(* The engine's invariant carries over.  To it the proof adds which        *)
(* request owns which order: the one that has created it, and is still     *)
(* placing it or has had it executed.  Where no PUT races an order, it     *)
(* shows further that one call at most is at work on it, and that what has *)
(* traded reads EXECUTED, or is about to, or broke off; on which rests     *)
(* what the requests are answered.                                         *)
(***************************************************************************)
EXTENDS OrderPlacement, OrderExecutionProofs

Gating(r) == req[r].pc \in {"price", "cash", "positions", "refuse"}
Owns(r) == Gating(r) \/ req[r].pc \in {"execute", "filling"} \/ Started(r)

(* A request that owns an order stored it, with its own key and ticket;    *)
(* it calls executeOrder last, and for a BUY past the gate.                *)
ReqOK(r) ==
  /\ Started(r) => req[r].pc \in {"filling", "replied", "error", "lost"}
  /\ req[r].pc # "idle" => Want(r) \in Tickets
  /\ Owns(r) =>
       /\ req[r].order \in Orders /\ orders[req[r].order] # NoOrder
       /\ keyOf[req[r].order] = req[r].key /\ orders[req[r].order].ticket = Want(r)
  /\ req[r].pc = "execute" /\ Want(r).side = "BUY" => req[r].order \in passed
  /\ req[r].pc = "trade" => req[r].order \in Orders

KeysUnique ==
  \A o, p \in Orders :
    orders[o] # NoOrder /\ orders[p] # NoOrder /\ keyOf[o] = keyOf[p] /\ keyOf[o] # NoKey
      => o = p

OwnersApart ==
  \A q, r \in Requests : Owns(q) /\ Owns(r) /\ req[q].order = req[r].order => q = r

(* A stored BUY is before the gate, past it, or was given up.              *)
Watched(o) ==
  orders[o] # NoOrder /\ orders[o].ticket.side = "BUY" =>
    o \in passed \/ BrokenOff(o) \/ \E r \in Requests : Gating(r) /\ req[r].order = o

(* What a call has to show for a BUY that it executes.                     *)
Cleared(c) ==
  call[c].order \in Orders /\ call[c].ticket.side = "BUY" =>
    \/ call[c].order \in passed \cup raced
    \/ c \notin Requests /\ BrokenOff(call[c].order)

(* A trade is that of the call it names.                                   *)
TradesTraced ==
  \A t \in trades :
    Started(t.id) /\ call[t.id].order = t.order /\ call[t.id].ticket = t.ticket

PlaceInv ==
  /\ Inv /\ PlacementTypeOK
  /\ \A r \in Requests : ReqOK(r)
  /\ KeysUnique /\ OwnersApart /\ TradesTraced
  /\ \A o \in Orders : Watched(o)
  /\ \A c \in Calls : Cleared(c)

-----------------------------------------------------------------------------
LEMMA PlaceInit == PlacementInit => PlaceInv
  <1> SUFFICES ASSUME PlacementInit PROVE PlaceInv
    OBVIOUS
  <1>1. Inv
    BY InvInit DEF PlacementInit
  <1>2. req \in [Requests -> ReqState]
    BY DEF PlacementInit, ReqState
  <1>3. PlacementTypeOK
    BY <1>1, <1>2 DEF PlacementInit, PlacementTypeOK, Inv
  <1>4. \A c \in Calls : call[c].pc = "idle" /\ call[c].order = NoOrder
    BY DEF PlacementInit, Init, IdleCall
  <1>5. \A r \in Requests : req[r].pc = "idle" /\ ~Owns(r)
    BY <1>4, OrderPlacementAssumption DEF PlacementInit, Owns, Gating, Started
  <1>6. \A o \in Orders : orders[o] = NoOrder
    BY DEF PlacementInit, Init
  <1>7. trades = {}
    BY DEF PlacementInit, Init
  <1>8. \A c \in Calls : Cleared(c)
    BY <1>4, OrderExecutionAssumption DEF Cleared
  <1>9. \A r \in Requests : ReqOK(r)
    BY <1>4, <1>5, OrderPlacementAssumption DEF ReqOK, Started
  <1>10. QED
    BY <1>1, <1>3, <1>5, <1>6, <1>7, <1>8, <1>9
    DEF PlaceInv, KeysUnique, OwnersApart, TradesTraced, Watched

-----------------------------------------------------------------------------
(* Orders keep their tickets and their keys, and calls what they execute.  *)
Kept ==
  /\ keyOf' = keyOf
  /\ \A o \in Orders :
       /\ orders'[o] = NoOrder <=> orders[o] = NoOrder
       /\ orders[o] # NoOrder => orders'[o].ticket = orders[o].ticket
  /\ \A c \in Calls :
       /\ Started(c)' <=> Started(c)
       /\ call'[c].order = call[c].order /\ call'[c].ticket = call[c].ticket

(* A request goes on, and gives up what it owns but takes nothing new.     *)
MovesOn(r) ==
  \/ req'[r] = req[r]
  \/ /\ req[r].pc \notin {"error", "lost"}
     /\ req'[r].pc # "idle" => req'[r].ticket \in Tickets
     /\ Started(r) => req'[r].pc \in {"filling", "replied", "error", "lost"}
     /\ Owns(r)' =>
          /\ Owns(r) /\ req'[r].order = req[r].order
          /\ req'[r].key = req[r].key /\ req'[r].ticket = req[r].ticket
     /\ req'[r].pc = "execute" /\ req'[r].ticket.side = "BUY" => req'[r].order \in passed'
     /\ req'[r].pc = "trade" => req'[r].order \in Orders
     /\ Gating(r) =>
          \/ req[r].order \in passed'
          \/ /\ req'[r].order = req[r].order
             /\ Gating(r)' \/ req'[r].pc \in {"error", "lost"}

(* A step in which nothing is created or started.                          *)
LEMMA CarriedOn ==
  ASSUME PlaceInv, Inv', req' \in [Requests -> ReqState], Kept, TradesTraced',
         passed \subseteq passed', passed' \subseteq Orders, raced' = raced,
         \A r \in Requests : MovesOn(r)
  PROVE  PlaceInv'
  <1>1. PlacementTypeOK'
    BY DEF PlaceInv, PlacementTypeOK, Inv, Kept
  <1>2. Requests \subseteq Calls
    BY OrderPlacementAssumption
  <1>3. ASSUME NEW r \in Requests
        PROVE  Owns(r)' => Owns(r) /\ req'[r].order = req[r].order
                           /\ req'[r].key = req[r].key /\ req'[r].ticket = req[r].ticket
    BY <1>2 DEF MovesOn, Owns, Gating, Kept
  <1>4. ASSUME NEW r \in Requests PROVE ReqOK(r)'
    <2>1. ReqOK(r)
      BY DEF PlaceInv
    <2>2. /\ Started(r)' => req'[r].pc \in {"filling", "replied", "error", "lost"}
          /\ req'[r].pc # "idle" => req'[r].ticket \in Tickets
          /\ req'[r].pc = "execute" /\ req'[r].ticket.side = "BUY" => req'[r].order \in passed'
          /\ req'[r].pc = "trade" => req'[r].order \in Orders
      BY <1>2, <2>1 DEF MovesOn, ReqOK, Kept, Want
    <2>3. Owns(r)' =>
            /\ req'[r].order \in Orders /\ orders'[req'[r].order] # NoOrder
            /\ keyOf'[req'[r].order] = req'[r].key
            /\ orders'[req'[r].order].ticket = req'[r].ticket
      BY <1>3, <2>1 DEF ReqOK, Kept, Want
    <2>4. QED
      BY <2>2, <2>3 DEF ReqOK, Want
  <1>5. KeysUnique'
    BY DEF PlaceInv, KeysUnique, Kept
  <1>6. OwnersApart'
    BY <1>3 DEF PlaceInv, OwnersApart
  <1>7. ASSUME NEW o, BrokenOff(o) PROVE BrokenOff(o)'
    BY <1>7 DEF BrokenOff, MovesOn
  <1>8. ASSUME NEW o \in Orders PROVE Watched(o)'
    <2> SUFFICES ASSUME orders'[o] # NoOrder, orders'[o].ticket.side = "BUY", o \notin passed'
                 PROVE  BrokenOff(o)' \/ \E r \in Requests : Gating(r)' /\ req'[r].order = o
      BY DEF Watched
    <2>1. BrokenOff(o) \/ \E r \in Requests : Gating(r) /\ req[r].order = o
      BY DEF PlaceInv, Watched, Kept
    <2>2. ASSUME NEW r \in Requests, Gating(r), req[r].order = o
          PROVE  req'[r].order = o /\ (Gating(r)' \/ req'[r].pc \in {"error", "lost"})
      BY <2>2 DEF MovesOn, Gating
    <2>3. QED
      BY <1>7, <2>1, <2>2 DEF BrokenOff
  <1>9. ASSUME NEW c \in Calls PROVE Cleared(c)'
    BY <1>7 DEF PlaceInv, Cleared, Kept
  <1>10. QED
    BY <1>1, <1>4, <1>5, <1>6, <1>8, <1>9 DEF PlaceInv

-----------------------------------------------------------------------------
(* The engine's own steps.                                                 *)

LEMMA EngineStep ==
  ASSUME PlaceInv, NEW c \in Calls, Step(c) \/ Fault(c), UNCHANGED placement
  PROVE  PlaceInv'
  <1>1. Inv /\ Inv'
    BY InvNext DEF PlaceInv, Next
  <1>2. UNCHANGED <<req, keyOf, passed, raced>>
    BY DEF placement, history
  <1>3. Kept /\ TradesTraced'
    BY <1>1, <1>2, EngineKeeps DEF Kept, TradesTraced, PlaceInv, Inv, TypeOK, Trade
  <1>4. req' \in [Requests -> ReqState] /\ passed' \subseteq Orders
    BY <1>2 DEF PlaceInv, PlacementTypeOK
  <1>5. \A r \in Requests : MovesOn(r)
    BY <1>2 DEF MovesOn
  <1>6. QED
    BY <1>1, <1>2, <1>3, <1>4, <1>5, CarriedOn

-----------------------------------------------------------------------------
(* The steps of a request.                                                 *)

(* Those that leave the engine alone.                                      *)
LEMMA QuietStep ==
  ASSUME PlaceInv, NEW r \in Requests, UNCHANGED <<vars, keyOf, raced>>,
         NEW x \in ReqState, req' = [req EXCEPT ![r] = x],
         passed \subseteq passed', passed' \subseteq Orders, MovesOn(r)
  PROVE  PlaceInv'
  <1>1. Inv'
    BY InvNext DEF PlaceInv
  <1>2. req' \in [Requests -> ReqState] /\ \A q \in Requests : MovesOn(q)
    BY DEF PlaceInv, PlacementTypeOK, MovesOn
  <1>3. UNCHANGED <<orders, trades, call>>
    BY DEF vars, db
  <1>4. Kept /\ TradesTraced'
    BY <1>3 DEF Kept, Started, TradesTraced, PlaceInv
  <1>5. QED
    BY <1>1, <1>2, <1>4, CarriedOn

LEMMA SubmitStep ==
  ASSUME PlaceInv, NEW r \in Requests, Submit(r)
  PROVE  PlaceInv'
  <1>1. PICK t \in Tickets, k \in Keys \cup {NoKey} :
          req' = [req EXCEPT ![r].ticket = t, ![r].key = k,
                             ![r].pc = IF k = NoKey THEN "create" ELSE "check"]
    BY DEF Submit
  <1> DEFINE x == [req[r] EXCEPT !.ticket = t, !.key = k,
                                 !.pc = IF k = NoKey THEN "create" ELSE "check"]
  <1>2. req[r] \in ReqState /\ req[r].pc = "idle" /\ UNCHANGED <<vars, keyOf, passed, raced>>
    BY DEF Submit, At, history, PlaceInv, PlacementTypeOK
  <1>3. x \in ReqState /\ req' = [req EXCEPT ![r] = x] /\ req'[r] = x
    BY <1>1, <1>2 DEF ReqState, ReqWaiting, PlaceInv, PlacementTypeOK
  <1>4. x.pc \in {"create", "check"} /\ x.ticket \in Tickets
    BY <1>2 DEF ReqState
  <1>5. ~Started(r) /\ ~Started(r)'
    BY <1>2, OrderPlacementAssumption DEF PlaceInv, ReqOK, Started, vars
  <1>6. MovesOn(r)
    BY <1>2, <1>3, <1>4, <1>5 DEF MovesOn, Owns, Gating
  <1>7. QED
    BY <1>2, <1>3, <1>6, QuietStep DEF PlaceInv, PlacementTypeOK

(* A request that owns nothing comes to wait for another read, or ends.    *)
LEMMA LookupStep ==
  ASSUME PlaceInv, NEW r \in Requests, UNCHANGED <<vars, keyOf, passed, raced>>,
         req[r].pc \in {"check", "create", "resolve", "trade"},
         NEW x \in ReqState, req' = [req EXCEPT ![r] = x],
         x.pc \in {"create", "resolve", "trade", "replied", "error"},
         x.ticket = req[r].ticket, x.pc = "trade" => x.order \in Orders
  PROVE  PlaceInv'
  <1>1. req'[r] = x /\ req[r] \in ReqState
    BY DEF PlaceInv, PlacementTypeOK
  <1>2. req[r].ticket \in Tickets
    BY DEF PlaceInv, ReqOK, Want
  <1>3. ~Started(r) /\ ~Started(r)'
    BY OrderPlacementAssumption DEF PlaceInv, ReqOK, Started, vars
  <1>4. MovesOn(r)
    BY <1>1, <1>2, <1>3 DEF MovesOn, Owns, Gating
  <1>5. QED
    BY <1>4, QuietStep DEF PlaceInv, PlacementTypeOK

LEMMA FindStep ==
  ASSUME PlaceInv, NEW r \in Requests, FindByKey(r) \/ FindTrade(r)
  PROVE  PlaceInv'
  <1>1. /\ req \in [Requests -> ReqState] /\ req[r] \in ReqState
        /\ orders \in [Orders -> OrderDoc \cup {NoOrder}]
    BY DEF PlaceInv, PlacementTypeOK, TypeOK
  <1>2. /\ UNCHANGED <<vars, keyOf, passed, raced>>
        /\ req[r].pc \in {"check", "create", "resolve", "trade"}
    BY DEF FindByKey, FindTrade, At, history
  <1> DEFINE Finds(x) ==
               /\ req' = [req EXCEPT ![r] = x]
               /\ x.pc \in {"create", "resolve", "trade", "replied", "error"}
               /\ x.ticket = req[r].ticket /\ (x.pc = "trade" => x.order \in Orders)
  <1>3. ASSUME NEW o \in Orders, NEW status \in {"PENDING", "EXECUTED", "REJECTED"},
               NEW price \in Prices \cup {0}, NEW traded \in BOOLEAN,
               req' = [req EXCEPT ![r].pc = "replied", ![r].reply =
                         [order |-> o, status |-> status, price |-> price, traded |-> traded]]
        PROVE  \E x \in ReqState : Finds(x)
    <2> DEFINE y == [order |-> o, status |-> status, price |-> price, traded |-> traded]
               x == [req[r] EXCEPT !.pc = "replied", !.reply = y]
    <2>1. y \in Reply
      BY DEF Reply
    <2> HIDE DEF y
    <2>2. x \in ReqState /\ x.pc = "replied" /\ x.ticket = req[r].ticket
      BY <1>1, <2>1 DEF ReqState
    <2>3. req' = [req EXCEPT ![r] = x]
      BY <1>1, <1>3 DEF y
    <2>4. QED
      BY <2>2, <2>3
  <1>4. ASSUME NEW pc \in {"create", "resolve", "error"}, Now(r, pc)
        PROVE  \E x \in ReqState : Finds(x)
    <2> DEFINE x == [req[r] EXCEPT !.pc = pc]
    <2>1. x \in ReqState /\ x.pc = pc /\ x.ticket = req[r].ticket
      BY <1>1 DEF ReqState, ReqWaiting
    <2>2. req' = [req EXCEPT ![r] = x]
      BY <1>1, <1>4 DEF Now
    <2>3. QED
      BY <2>1, <2>2
  <1>5. \E x \in ReqState : Finds(x)
    <2>1. CASE FindTrade(r)
      <3>1. req[r].order \in Orders /\ req[r].price \in Prices \cup {0}
        BY <1>1, <2>1 DEF FindTrade, At, PlaceInv, ReqOK, ReqState
      <3> HIDE DEF Finds
      <3>2. QED
        BY <1>3, <2>1, <3>1 DEF FindTrade
    <2>2. CASE FindByKey(r)
      <3>1. CASE \E pc \in {"create", "resolve", "error"} : Now(r, pc)
        BY <1>4, <3>1
      <3>2. ASSUME NEW o \in KeyedOrders(req[r].key),
                   IF HasFill(o)
                   THEN req' = [req EXCEPT ![r].pc = "trade", ![r].order = o,
                                           ![r].price = orders[o].price]
                   ELSE Answer(r, o, FALSE)
            PROVE  \E x \in ReqState : Finds(x)
        <4>1. o \in Orders /\ orders[o] \in OrderDoc
          BY <1>1, <3>2 DEF KeyedOrders
        <4>2. /\ orders[o].status \in {"PENDING", "EXECUTED", "REJECTED"}
              /\ orders[o].price \in Prices \cup {0}
          BY <4>1 DEF OrderDoc
        <4>3. CASE HasFill(o)
          <5> DEFINE x == [req[r] EXCEPT !.pc = "trade", !.order = o, !.price = orders[o].price]
          <5>1. /\ x \in ReqState /\ x.pc = "trade" /\ x.ticket = req[r].ticket /\ x.order = o
            BY <1>1, <4>1, <4>2 DEF ReqState, ReqWaiting
          <5>2. req' = [req EXCEPT ![r] = x]
            BY <1>1, <3>2, <4>3
          <5>3. QED
            BY <4>1, <5>1, <5>2
        <4>4. CASE ~HasFill(o)
          <5> HIDE DEF Finds
          <5>1. QED
            BY <1>3, <3>2, <4>1, <4>2, <4>4 DEF Answer
        <4>5. QED
          BY <4>3, <4>4
      <3> HIDE DEF Finds
      <3>3. QED
        BY <2>2, <3>1, <3>2 DEF FindByKey
    <2>3. QED
      BY <2>1, <2>2
  <1>6. QED
    BY <1>2, <1>5, LookupStep

(* The order created is nobody else's, and the first of its key.           *)
LEMMA CreateStep ==
  ASSUME PlaceInv, NEW r \in Requests, CreateOrder(r)
  PROVE  PlaceInv'
  <1> DEFINE t == Want(r)
             k == req[r].key
  <1>1. /\ req \in [Requests -> ReqState] /\ req[r] \in ReqState /\ req[r].pc = "create"
        /\ t \in Tickets /\ k \in Keys \cup {NoKey} /\ ~Started(r) /\ ~Owns(r)
        /\ keyOf \in [Orders -> Keys \cup {NoKey}]
        /\ orders \in [Orders -> OrderDoc \cup {NoOrder}]
    BY OrderPlacementAssumption
    DEF CreateOrder, At, PlaceInv, PlacementTypeOK, TypeOK, ReqOK, ReqState, Owns, Gating
  <1>2. CASE ~KeyFree(k) /\ Now(r, "resolve") /\ UNCHANGED <<orders, keyOf>>
    <2> DEFINE x == [req[r] EXCEPT !.pc = "resolve"]
    <2>1. x \in ReqState /\ x.pc = "resolve" /\ x.ticket = req[r].ticket
      BY <1>1 DEF ReqState, ReqWaiting
    <2>2. req' = [req EXCEPT ![r] = x]
      BY <1>1, <1>2 DEF Now
    <2>3. UNCHANGED <<vars, keyOf, passed, raced>>
      BY <1>2 DEF CreateOrder, vars, db, history
    <2>4. QED
      BY <1>1, <2>1, <2>2, <2>3, LookupStep
  <1>3. ASSUME KeyFree(k), NEW o \in Orders, NewOrder(o, t),
               keyOf' = [keyOf EXCEPT ![o] = k],
               req' = [req EXCEPT ![r].order = o, ![r].pc = AfterCreate(t),
                  ![r].reply = IF AfterCreate(t) # "replied" THEN NoReply
                               ELSE [order |-> o, status |-> "PENDING", price |-> 0,
                                     traded |-> FALSE]]
        PROVE  PlaceInv'
    <2> DEFINE doc == [ticket |-> t, status |-> "PENDING", price |-> 0]
    <2>1. /\ doc \in OrderDoc /\ doc # NoOrder /\ doc.ticket = t
          /\ orders[o] = NoOrder /\ orders'[o] = doc
          /\ \A p \in Orders : p # o => orders'[p] = orders[p]
      BY <1>1, <1>3, NoOrderAssumption DEF NewOrder, OrderDoc
    <2>2. keyOf'[o] = k /\ \A p \in Orders : p # o => keyOf'[p] = keyOf[p]
      BY <1>1, <1>3
    <2>3. /\ req'[r].order = o /\ req'[r].pc = AfterCreate(t)
          /\ req'[r].key = k /\ req'[r].ticket = t
          /\ \A q \in Requests : q # r => req'[q] = req[q]
      BY <1>1, <1>3 DEF Want, ReqState
    <2>4. UNCHANGED <<cash, realised, positions, trades, call, env, passed, raced>>
      BY DEF CreateOrder, history
    <2>5. Inv'
      <3>1. Place(o, t)
        BY <1>3, <2>4 DEF Place
      <3>2. QED
        BY <1>1, <3>1, PlaceStep DEF PlaceInv
    <2>6. PlacementTypeOK'
      <3>1. req' \in [Requests -> ReqState]
        <4> DEFINE y == IF AfterCreate(t) # "replied" THEN NoReply
                        ELSE [order |-> o, status |-> "PENDING", price |-> 0,
                              traded |-> FALSE]
                   x == [req[r] EXCEPT !.order = o, !.pc = AfterCreate(t), !.reply = y]
        <4>1. y \in Reply \cup {NoReply}
          BY DEF Reply
        <4> HIDE DEF y
        <4>2. x \in ReqState
          BY <1>1, <4>1 DEF ReqState, ReqWaiting, AfterCreate
        <4>3. req' = [req EXCEPT ![r] = x]
          BY <1>1, <1>3 DEF y
        <4>4. QED
          BY <1>1, <4>2, <4>3
      <3>2. keyOf' \in [Orders -> Keys \cup {NoKey}]
        BY <1>1, <1>3
      <3>3. QED
        BY <2>4, <2>5, <3>1, <3>2 DEF PlaceInv, PlacementTypeOK, Inv
    <2>7. /\ AfterCreate(t) \in {"price", "execute", "replied"}
          /\ t.side = "BUY" => AfterCreate(t) = "price"
      BY DEF AfterCreate
    <2>8. \A q \in Requests : Started(q)' <=> Started(q)
      BY <2>4 DEF Started
    <2>9. ASSUME NEW q \in Requests, q # r
          PROVE  /\ Owns(q)' <=> Owns(q)
                 /\ Gating(q)' <=> Gating(q)
                 /\ Owns(q) => req[q].order # o
      BY <2>1, <2>3, <2>8, <2>9 DEF Owns, Gating, PlaceInv, ReqOK
    <2>10. ASSUME NEW q \in Requests PROVE ReqOK(q)'
      <3>1. CASE q = r
        BY <1>1, <1>3, <2>1, <2>2, <2>3, <2>7, <2>8, <3>1 DEF ReqOK, Want
      <3>2. CASE q # r
        BY <2>1, <2>2, <2>3, <2>4, <2>8, <2>9, <3>2 DEF PlaceInv, ReqOK, Want
      <3>3. QED
        BY <3>1, <3>2
    <2>11. KeysUnique'
      <3> SUFFICES ASSUME NEW p \in Orders, NEW q \in Orders, p # q,
                          orders'[p] # NoOrder, orders'[q] # NoOrder,
                          keyOf'[p] = keyOf'[q], keyOf'[p] # NoKey
                   PROVE  FALSE
        BY DEF KeysUnique
      <3>1. CASE p # o /\ q # o
        BY <2>1, <2>2, <3>1 DEF PlaceInv, KeysUnique
      <3>2. CASE p = o \/ q = o
        BY <1>3, <2>1, <2>2, <3>2 DEF KeyFree, KeyedOrders
      <3>3. QED
        BY <3>1, <3>2
    <2>12. OwnersApart'
      BY <2>3, <2>9 DEF PlaceInv, OwnersApart
    <2>13. TradesTraced'
      BY <2>4 DEF PlaceInv, TradesTraced, Started
    <2>14. ASSUME NEW p, BrokenOff(p) PROVE BrokenOff(p)'
      BY <1>1, <2>3, <2>14 DEF BrokenOff
    <2>15. ASSUME NEW p \in Orders PROVE Watched(p)'
      <3>1. CASE p = o
        BY <2>1, <2>3, <2>7, <3>1 DEF Watched, Gating
      <3>2. CASE p # o
        <4>1. Watched(p) /\ orders'[p] = orders[p]
          BY <2>1, <3>2 DEF PlaceInv
        <4>2. ASSUME NEW q \in Requests, Gating(q), req[q].order = p
              PROVE  Gating(q)' /\ req'[q].order = p
          BY <1>1, <2>3, <2>9, <4>2 DEF Owns
        <4>3. QED
          BY <2>4, <2>14, <4>1, <4>2 DEF Watched
      <3>3. QED
        BY <3>1, <3>2
    <2>16. ASSUME NEW c \in Calls PROVE Cleared(c)'
      BY <2>4, <2>14 DEF PlaceInv, Cleared
    <2>17. QED
      BY <2>5, <2>6, <2>10, <2>11, <2>12, <2>13, <2>15, <2>16 DEF PlaceInv
  <1>4. QED
    BY <1>2, <1>3 DEF CreateOrder

(* A request that goes on with the order it owns, or gives it up.          *)
LEMMA OwnerStep ==
  ASSUME PlaceInv, NEW r \in Requests, UNCHANGED <<vars, keyOf, raced>>,
         Owns(r), req[r].pc \notin {"error", "lost"},
         passed \subseteq passed', passed' \subseteq Orders,
         NEW x \in ReqState, req' = [req EXCEPT ![r] = x],
         x.order = req[r].order, x.key = req[r].key, x.ticket = req[r].ticket,
         x.pc \in {"cash", "positions", "refuse", "execute", "replied", "error"},
         Started(r) => x.pc \in {"replied", "error"},
         x.pc \in {"execute", "replied"} => ~Gating(r) \/ req[r].order \in passed',
         x.pc = "execute" => Gating(r)
  PROVE  PlaceInv'
  <1>1. req'[r] = x /\ req[r] \in ReqState /\ Requests \subseteq Calls
    BY OrderPlacementAssumption DEF PlaceInv, PlacementTypeOK
  <1>2. req[r].ticket \in Tickets /\ req[r].order \in Orders
    BY DEF PlaceInv, ReqOK, Want, Owns, Gating, Started
  <1>3. MovesOn(r)
    BY <1>1, <1>2 DEF MovesOn, Owns, Gating, Started, vars
  <1>4. QED
    BY <1>3, QuietStep

LEMMA GuardStep ==
  ASSUME PlaceInv, NEW r \in Requests, GuardPrice(r) \/ ReadCash(r) \/ ReadPositions(r)
  PROVE  PlaceInv'
  <1>1. /\ req \in [Requests -> ReqState] /\ req[r] \in ReqState /\ Gating(r) /\ Owns(r)
        /\ ~Started(r) /\ UNCHANGED <<vars, keyOf, raced>>
        /\ passed \subseteq Orders /\ req[r].order \in Orders
        /\ req[r].pc \in {"price", "cash", "positions"}
        /\ Want(r) \in Tickets
    BY OrderPlacementAssumption
    DEF GuardPrice, ReadCash, ReadPositions, At, Gating, Owns, PlaceInv, PlacementTypeOK,
        ReqOK, history
  <1>2. ASSUME NEW x \in ReqState, req' = [req EXCEPT ![r] = x],
               x.order = req[r].order, x.key = req[r].key, x.ticket = req[r].ticket,
               \/ x.pc \in {"cash", "positions", "refuse"} /\ passed' = passed
               \/ /\ x.pc \in {"execute", "replied"}
                  /\ passed' = passed \cup {req[r].order}
        PROVE  PlaceInv'
    BY <1>1, <1>2, OwnerStep DEF Gating
  <1>3. ASSUME NEW pc \in {"refuse", "execute"}, Now(r, pc),
               pc = "refuse" => passed' = passed,
               pc = "execute" => passed' = passed \cup {req[r].order}
        PROVE  PlaceInv'
    <2> DEFINE x == [req[r] EXCEPT !.pc = pc]
    <2>1. /\ x \in ReqState /\ x.pc = pc /\ req' = [req EXCEPT ![r] = x]
          /\ x.order = req[r].order /\ x.key = req[r].key /\ x.ticket = req[r].ticket
      BY <1>1, <1>3 DEF ReqState, ReqWaiting, Now
    <2> HIDE DEF x
    <2>2. QED
      BY <1>2, <1>3, <2>1
  <1>4. CASE GuardPrice(r)
    <2>1. UNCHANGED passed
      BY <1>4 DEF GuardPrice, history
    <2>2. ASSUME NEW p \in IF Want(r).limit # 0 THEN {Want(r).limit} ELSE Prices,
                 req' = [req EXCEPT ![r].price = p, ![r].pc = "cash"]
          PROVE  PlaceInv'
      <3> DEFINE x == [req[r] EXCEPT !.price = p, !.pc = "cash"]
      <3>1. p \in Prices \cup {0}
        BY <1>1, <2>2, OrderExecutionAssumption
      <3>2. /\ x \in ReqState /\ x.pc = "cash" /\ req' = [req EXCEPT ![r] = x]
            /\ x.order = req[r].order /\ x.key = req[r].key /\ x.ticket = req[r].ticket
        BY <1>1, <2>2, <3>1 DEF ReqState, ReqWaiting
      <3> HIDE DEF x
      <3>3. QED
        BY <1>2, <2>1, <3>2
    <2>3. QED
      BY <1>3, <1>4, <2>1, <2>2 DEF GuardPrice
  <1>5. CASE ReadCash(r)
    <2> DEFINE funded == req[r].price * Want(r).qty <= cash
               x == [req[r] EXCEPT !.pc = "positions", !.funded = funded]
    <2>1. funded \in BOOLEAN
      OBVIOUS
    <2>2. req' = [req EXCEPT ![r] = x] /\ UNCHANGED passed
      BY <1>1, <1>5 DEF ReadCash, history
    <2> HIDE DEF funded
    <2>3. /\ x \in ReqState /\ x.pc = "positions"
          /\ x.order = req[r].order /\ x.key = req[r].key /\ x.ticket = req[r].ticket
      BY <1>1, <2>1 DEF ReqState, ReqWaiting
    <2> HIDE DEF x
    <2>4. QED
      BY <1>2, <2>2, <2>3
  <1>6. CASE ReadPositions(r)
    <2>1. CASE Now(r, "refuse") /\ UNCHANGED passed
      BY <1>3, <2>1
    <2>2. CASE Now(r, "execute") /\ passed' = passed \cup {req[r].order}
      BY <1>3, <2>2
    <2>3. ASSUME passed' = passed \cup {req[r].order},
                 req' = [req EXCEPT ![r].pc = "replied",
                  ![r].reply = [order |-> req[r].order, status |-> "PENDING",
                                price |-> 0, traded |-> FALSE]]
          PROVE  PlaceInv'
      <3> DEFINE y == [order |-> req[r].order, status |-> "PENDING", price |-> 0,
                       traded |-> FALSE]
                 x == [req[r] EXCEPT !.pc = "replied", !.reply = y]
      <3>1. y \in Reply
        BY <1>1 DEF Reply
      <3>2. req' = [req EXCEPT ![r] = x]
        BY <1>1, <2>3
      <3> HIDE DEF y
      <3>3. /\ x \in ReqState /\ x.pc = "replied"
            /\ x.order = req[r].order /\ x.key = req[r].key /\ x.ticket = req[r].ticket
        BY <1>1, <3>1 DEF ReqState
      <3> HIDE DEF x
      <3>4. QED
        BY <1>2, <2>3, <3>2, <3>3
    <2>4. QED
      BY <1>6, <2>1, <2>2, <2>3 DEF ReadPositions
  <1>7. QED
    BY <1>4, <1>5, <1>6

(* The outcome of executeOrder becomes that of the request.                *)
LEMMA FilledStep ==
  ASSUME PlaceInv, NEW r \in Requests, Filled(r)
  PROVE  PlaceInv'
  <1>1. /\ req \in [Requests -> ReqState] /\ req[r] \in ReqState /\ ~Gating(r) /\ Owns(r)
        /\ req[r].pc = "filling" /\ req[r].order \in Orders
        /\ UNCHANGED <<vars, keyOf, raced, passed>> /\ passed \subseteq Orders
        /\ call[r].price \in Prices \cup {0}
    BY OrderPlacementAssumption
    DEF Filled, At, Gating, Owns, PlaceInv, PlacementTypeOK, TypeOK, CallState, ReqOK, history
  <1>2. ASSUME NEW x \in ReqState, req' = [req EXCEPT ![r] = x],
               x.order = req[r].order, x.key = req[r].key, x.ticket = req[r].ticket,
               x.pc \in {"replied", "error"}
        PROVE  PlaceInv'
    BY <1>1, <1>2, OwnerStep
  <1>3. CASE Now(r, "error")
    <2> DEFINE x == [req[r] EXCEPT !.pc = "error"]
    <2>1. /\ x \in ReqState /\ x.pc = "error" /\ req' = [req EXCEPT ![r] = x]
          /\ x.order = req[r].order /\ x.key = req[r].key /\ x.ticket = req[r].ticket
      BY <1>1, <1>3 DEF ReqState, Now
    <2> HIDE DEF x
    <2>2. QED
      BY <1>2, <2>1
  <1>4. CASE ~Now(r, "error")
    <2> DEFINE y == [order |-> req[r].order, status |-> "EXECUTED", price |-> call[r].price,
                     traded |-> TRUE]
               x == [req[r] EXCEPT !.pc = "replied", !.reply = y]
    <2>1. y \in Reply
      BY <1>1 DEF Reply
    <2>2. req' = [req EXCEPT ![r] = x]
      BY <1>1, <1>4 DEF Filled
    <2> HIDE DEF y
    <2>3. /\ x \in ReqState /\ x.pc = "replied"
          /\ x.order = req[r].order /\ x.key = req[r].key /\ x.ticket = req[r].ticket
      BY <1>1, <2>1 DEF ReqState
    <2> HIDE DEF x
    <2>4. QED
      BY <1>2, <2>2, <2>3
  <1>5. QED
    BY <1>3, <1>4

(* A step that is none of the engine's but changes an order's status, or   *)
(* uses up a failure, or ends all calls that are under way.                *)
LEMMA OutsideStep ==
  ASSUME Inv, UNCHANGED <<cash, realised, positions, trades, overlapped>>,
         orders' \in [Orders -> OrderDoc \cup {NoOrder}],
         faults' \in Nat, crashes' \in Nat,
         \/ call' = call
         \/ call' = [c \in Calls |-> IF Active(c) THEN [call[c] EXCEPT !.pc = "crashed"]
                                     ELSE call[c]]
  PROVE  Inv'
  <1>1. CASE call' = call
    BY <1>1, OthersKeepTheirs DEF Inv, TypeOK, NeverShort
  <1>2. CASE call' = [c \in Calls |-> IF Active(c) THEN [call[c] EXCEPT !.pc = "crashed"]
                                      ELSE call[c]]
    <2>1. call' \in [Calls -> CallState]
      BY <1>2 DEF Inv, TypeOK, CallState, Ended
    <2>2. ASSUME NEW d \in Calls PROVE CallOK(d)'
      BY <1>2 DEF Active, Inv, TypeOK, CallOK, CallState, HasTicket, HasPrice,
           Buying, Selling, HoldsRow, Waiting
    <2>3. QED
      BY <2>1, <2>2 DEF Inv, TypeOK, NeverShort
  <1>3. QED
    BY <1>1, <1>2

LEMMA RefuseStep ==
  ASSUME PlaceInv, NEW r \in Requests, Refuse(r)
  PROVE  PlaceInv'
  <1> DEFINE o == req[r].order
  <1>1. /\ req \in [Requests -> ReqState] /\ req[r] \in ReqState /\ req[r].pc = "refuse"
        /\ o \in Orders /\ orders[o] \in OrderDoc /\ ~Started(r)
        /\ orders \in [Orders -> OrderDoc \cup {NoOrder}]
    BY OrderPlacementAssumption
    DEF Refuse, At, PlaceInv, PlacementTypeOK, TypeOK, ReqOK, Owns, Gating
  <1>2. /\ orders' = [orders EXCEPT ![o].status = "REJECTED"]
        /\ req' = [req EXCEPT ![r].pc = "error"]
        /\ UNCHANGED <<cash, realised, positions, trades, call, faults, crashes, overlapped,
                       keyOf, passed, raced>>
    BY DEF Refuse, Now, env, history
  <1>3. /\ orders' \in [Orders -> OrderDoc \cup {NoOrder}]
        /\ orders'[o] \in OrderDoc /\ orders'[o].ticket = orders[o].ticket
        /\ \A p \in Orders : p # o => orders'[p] = orders[p]
    BY <1>1, <1>2 DEF OrderDoc
  <1>4. Inv'
    BY <1>2, <1>3, OutsideStep DEF PlaceInv, Inv, TypeOK
  <1>5. Kept /\ TradesTraced'
    BY <1>1, <1>2, <1>3, NoOrderAssumption DEF Kept, TradesTraced, Started, PlaceInv
  <1>6. req' \in [Requests -> ReqState]
    BY <1>1, <1>2 DEF ReqState
  <1>7. ASSUME NEW q \in Requests PROVE MovesOn(q)
    <2>1. CASE q = r
      <3>1. req'[r].pc = "error" /\ req'[r].order = o /\ req'[r].ticket = Want(r)
        BY <1>1, <1>2 DEF ReqState, Want
      <3>2. ~Owns(r)' /\ Want(r) \in Tickets
        BY <1>1, <1>2, <3>1 DEF Owns, Gating, Started, PlaceInv, ReqOK
      <3>3. QED
        BY <1>1, <2>1, <3>1, <3>2 DEF MovesOn
    <2>2. CASE q # r
      BY <1>1, <1>2, <2>2 DEF MovesOn
    <2>3. QED
      BY <2>1, <2>2
  <1>8. QED
    BY <1>2, <1>4, <1>5, <1>6, <1>7, CarriedOn DEF PlaceInv, PlacementTypeOK

(* A request breaks off, by a failure of its own or with the process.      *)
LEMMA BreakOff ==
  ASSUME PlaceInv, NEW q \in Requests, req'[q].pc \in {"error", "lost"},
         req[q].pc \in ReqWaiting, req'[q].order = req[q].order,
         req'[q].key = req[q].key, req'[q].ticket = req[q].ticket, Kept
  PROVE  MovesOn(q)
  <1>1. Want(q) \in Tickets /\ req[q].pc \notin {"error", "lost"}
    BY DEF PlaceInv, ReqOK, ReqWaiting
  <1>2. Owns(q)' => Owns(q)
    BY OrderPlacementAssumption DEF Owns, Gating, Kept
  <1>3. ~Gating(q)' /\ (Gating(q) => req'[q].pc \in {"error", "lost"})
    BY DEF Gating
  <1>4. QED
    BY <1>1, <1>2, <1>3 DEF MovesOn, Want

LEMMA FaultStep ==
  ASSUME PlaceInv, NEW r \in Requests, RequestFault(r)
  PROVE  PlaceInv'
  <1>1. /\ req \in [Requests -> ReqState] /\ req[r] \in ReqState /\ req[r].pc \in ReqWaiting
        /\ faults \in Nat /\ crashes \in Nat
        /\ orders \in [Orders -> OrderDoc \cup {NoOrder}]
    BY DEF RequestFault, At, ReqWaiting, PlaceInv, PlacementTypeOK, TypeOK
  <1>2. /\ req' = [req EXCEPT ![r].pc = "error"] /\ faults' = faults + 1
        /\ UNCHANGED <<cash, realised, positions, orders, trades, call, crashes, overlapped,
                       keyOf, passed, raced>>
    BY DEF RequestFault, Now, db, history
  <1>3. Inv'
    BY <1>1, <1>2, OutsideStep DEF PlaceInv
  <1>4. Kept /\ TradesTraced'
    BY <1>2 DEF Kept, TradesTraced, Started, PlaceInv
  <1>5. /\ req' \in [Requests -> ReqState]
        /\ \A q \in Requests : q # r => req'[q] = req[q]
        /\ req'[r] = [req[r] EXCEPT !.pc = "error"]
    BY <1>1, <1>2 DEF ReqState
  <1>6. MovesOn(r)
    BY <1>1, <1>4, <1>5, BreakOff DEF ReqState
  <1>7. \A q \in Requests : MovesOn(q)
    BY <1>5, <1>6 DEF MovesOn
  <1>8. QED
    BY <1>2, <1>3, <1>4, <1>5, <1>7, CarriedOn DEF PlaceInv, PlacementTypeOK

LEMMA ProcessCrashStep ==
  ASSUME PlaceInv, ProcessCrash
  PROVE  PlaceInv'
  <1>1. /\ req \in [Requests -> ReqState] /\ call \in [Calls -> CallState]
        /\ faults \in Nat /\ crashes \in Nat
        /\ orders \in [Orders -> OrderDoc \cup {NoOrder}]
    BY DEF PlaceInv, PlacementTypeOK, TypeOK
  <1>2. /\ crashes' = crashes + 1
        /\ UNCHANGED <<cash, realised, positions, orders, trades, faults, overlapped,
                       keyOf, passed, raced>>
        /\ call' = [c \in Calls |-> IF Active(c) THEN [call[c] EXCEPT !.pc = "crashed"]
                                    ELSE call[c]]
    BY DEF ProcessCrash, db, history
  <1>3. Inv'
    BY <1>1, <1>2, OutsideStep DEF PlaceInv
  <1>4. ASSUME NEW c \in Calls
        PROVE  /\ Started(c)' <=> Started(c)
               /\ call'[c].order = call[c].order /\ call'[c].ticket = call[c].ticket
    BY <1>1, <1>2 DEF Started, Active, Waiting, CallState
  <1>5. Kept /\ TradesTraced'
    BY <1>2, <1>4 DEF Kept, TradesTraced, PlaceInv, Inv, TypeOK, Trade
  <1>6. req' \in [Requests -> ReqState]
    BY <1>1 DEF ProcessCrash, ReqState
  <1>7. ASSUME NEW q \in Requests PROVE MovesOn(q)
    <2>1. CASE req[q].pc \in ReqWaiting
      <3>1. req'[q] = [req[q] EXCEPT !.pc = "lost"] /\ req[q] \in ReqState
        BY <1>1, <2>1 DEF ProcessCrash
      <3>2. QED
        BY <1>5, <2>1, <3>1, BreakOff DEF ReqState
    <2>2. CASE req[q].pc \notin ReqWaiting
      BY <2>2 DEF ProcessCrash, MovesOn
    <2>3. QED
      BY <2>1, <2>2
  <1>8. QED
    BY <1>2, <1>3, <1>5, <1>6, <1>7, CarriedOn DEF PlaceInv, PlacementTypeOK

-----------------------------------------------------------------------------
(* A call of executeOrder begins.                                          *)

LEMMA StartKeeps ==
  ASSUME PlaceInv, NEW c \in Calls, NEW o \in Orders, Start(c, o), orders[o] # NoOrder
  PROVE  /\ Inv' /\ ~Started(c) /\ Started(c)'
         /\ \A d \in Calls : d # c => call'[d] = call[d]
         /\ \/ call'[c].order = o /\ call'[c].ticket = orders[o].ticket
            \/ call'[c].order = call[c].order /\ call'[c].ticket = call[c].ticket
         /\ UNCHANGED <<orders, trades>> /\ TradesTraced'
  <1>1. call \in [Calls -> CallState] /\ UNCHANGED <<orders, trades>>
    BY DEF Start, db, PlaceInv, PlacementTypeOK, TypeOK
  <1>2. Inv'
    BY StartStep DEF PlaceInv
  <1>3. /\ ~Started(c) /\ Started(c)'
        /\ \A d \in Calls : d # c => call'[d] = call[d]
        /\ \/ call'[c].order = o /\ call'[c].ticket = orders[o].ticket
           \/ call'[c].order = call[c].order /\ call'[c].ticket = call[c].ticket
    BY <1>1 DEF Start, Started, Goto, CallState
  <1>4. TradesTraced'
    <2>1. \A t \in trades : t.id \in Calls
      BY DEF PlaceInv, Inv, TypeOK, Trade
    <2>2. QED
      BY <1>1, <1>3, <2>1 DEF TradesTraced, Started, PlaceInv
  <1>5. QED
    BY <1>1, <1>2, <1>3, <1>4

LEMMA ExecuteStep ==
  ASSUME PlaceInv, NEW r \in Requests, Execute(r)
  PROVE  PlaceInv'
  <1> DEFINE o == req[r].order
  <1>1. /\ req \in [Requests -> ReqState] /\ req[r] \in ReqState /\ req[r].pc = "execute"
        /\ Owns(r) /\ ReqOK(r) /\ o \in Orders /\ orders[o] # NoOrder
        /\ orders[o].ticket = Want(r) /\ r \in Calls /\ Start(r, o)
        /\ UNCHANGED <<keyOf, passed, raced>>
    BY OrderPlacementAssumption
    DEF Execute, At, PlaceInv, PlacementTypeOK, ReqOK, Owns, history
  <1>2. /\ Inv' /\ Started(r)' /\ \A d \in Calls : d # r => call'[d] = call[d]
        /\ \/ call'[r].order = o /\ call'[r].ticket = Want(r)
           \/ call'[r].order = call[r].order /\ call'[r].ticket = call[r].ticket
        /\ UNCHANGED <<orders, trades>> /\ TradesTraced'
    BY <1>1, StartKeeps
  <1>3. /\ req' \in [Requests -> ReqState]
        /\ req'[r] = [req[r] EXCEPT !.pc = "filling"]
        /\ \A q \in Requests : q # r => req'[q] = req[q]
    BY <1>1 DEF Execute, Now, ReqState, ReqWaiting
  <1>4. /\ req'[r].pc = "filling" /\ req'[r].order = o
        /\ req'[r].key = req[r].key /\ req'[r].ticket = req[r].ticket
    BY <1>1, <1>3 DEF ReqState
  <1>5. PlacementTypeOK'
    BY <1>1, <1>2, <1>3 DEF PlaceInv, PlacementTypeOK, Inv
  <1>6. ASSUME NEW q \in Requests, q # r
        PROVE  /\ req'[q] = req[q] /\ (Owns(q)' <=> Owns(q)) /\ (Gating(q)' <=> Gating(q))
               /\ Started(q)' <=> Started(q)
    BY <1>2, <1>3, <1>6, OrderPlacementAssumption DEF Owns, Gating, Started
  <1>7. ASSUME NEW q \in Requests PROVE ReqOK(q)'
    <2>1. CASE q = r
      BY <1>1, <1>2, <1>4, <2>1 DEF PlaceInv, ReqOK, Want
    <2>2. CASE q # r
      BY <1>1, <1>2, <1>6, <2>2 DEF PlaceInv, ReqOK, Want
    <2>3. QED
      BY <2>1, <2>2
  <1>8. KeysUnique'
    BY <1>1, <1>2 DEF PlaceInv, KeysUnique
  <1>9. OwnersApart'
    BY <1>1, <1>4, <1>6 DEF PlaceInv, OwnersApart
  <1>10. ASSUME NEW p PROVE BrokenOff(p)' <=> BrokenOff(p)
    BY <1>1, <1>3, <1>4 DEF BrokenOff
  <1>11. ASSUME NEW p \in Orders PROVE Watched(p)'
    BY <1>1, <1>2, <1>6, <1>10 DEF PlaceInv, Watched, Gating
  <1>12. ASSUME NEW c \in Calls PROVE Cleared(c)'
    <2>1. CASE call'[c].order = call[c].order /\ call'[c].ticket = call[c].ticket
      BY <1>1, <1>10, <2>1 DEF PlaceInv, Cleared
    <2>2. CASE c = r /\ call'[r].order = o /\ call'[r].ticket = Want(r)
      BY <1>1, <2>2 DEF Cleared, ReqOK
    <2>3. QED
      BY <1>2, <2>1, <2>2
  <1>13. QED
    BY <1>2, <1>5, <1>7, <1>8, <1>9, <1>11, <1>12 DEF PlaceInv

(* A PUT that finds nobody at work on a BUY finds it past the gate, or     *)
(* given up.                                                               *)
LEMMA PutStep ==
  ASSUME PlaceInv, NEW c \in Calls, NEW o \in Orders, PutExecute(c, o)
  PROVE  PlaceInv'
  <1>1. /\ c \notin Requests /\ orders[o] # NoOrder /\ Start(c, o)
        /\ UNCHANGED <<req, keyOf, passed>>
        /\ raced \subseteq raced' /\ raced' \subseteq Orders
        /\ InHand(o) => o \in raced'
    BY DEF PutExecute, PlaceInv, PlacementTypeOK
  <1>2. /\ Inv' /\ Started(c)' /\ \A d \in Calls : d # c => call'[d] = call[d]
        /\ \/ call'[c].order = o /\ call'[c].ticket = orders[o].ticket
           \/ call'[c].order = call[c].order /\ call'[c].ticket = call[c].ticket
        /\ UNCHANGED <<orders, trades>> /\ TradesTraced'
    BY <1>1, StartKeeps
  <1>3. PlacementTypeOK'
    BY <1>1, <1>2 DEF PlaceInv, PlacementTypeOK, Inv
  <1>4. ASSUME NEW q \in Requests PROVE call'[q] = call[q]
    BY <1>1, <1>2, OrderPlacementAssumption
  <1>5. \A q \in Requests : ReqOK(q)'
    BY <1>1, <1>2, <1>4 DEF PlaceInv, ReqOK, Want, Owns, Gating, Started
  <1>6. KeysUnique' /\ OwnersApart'
    BY <1>1, <1>2, <1>4 DEF PlaceInv, KeysUnique, OwnersApart, Owns, Gating, Started
  <1>7. \A p \in Orders : Watched(p)'
    BY <1>1, <1>2 DEF PlaceInv, Watched, BrokenOff, Gating
  <1>8. ASSUME NEW d \in Calls PROVE Cleared(d)'
    <2>1. CASE call'[d].order = call[d].order /\ call'[d].ticket = call[d].ticket
      BY <1>1, <2>1 DEF PlaceInv, Cleared, BrokenOff
    <2>2. CASE d = c /\ call'[c].order = o /\ call'[c].ticket = orders[o].ticket
      <3>1. SUFFICES ASSUME orders[o].ticket.side = "BUY", ~InHand(o), o \notin passed
                     PROVE  BrokenOff(o)
        BY <1>1, <2>2 DEF Cleared, BrokenOff
      <3>2. ~ \E r \in Requests : Gating(r) /\ req[r].order = o
        BY <3>1 DEF InHand, Gating, ReqWaiting
      <3>3. QED
        BY <1>1, <3>1, <3>2 DEF PlaceInv, Watched
    <2>3. QED
      BY <1>2, <2>1, <2>2
  <1>9. QED
    BY <1>2, <1>3, <1>5, <1>6, <1>7, <1>8 DEF PlaceInv

LEMMA PlaceNext == PlaceInv /\ [PlacementNext]_pvars => PlaceInv'
  <1> SUFFICES ASSUME PlaceInv, [PlacementNext]_pvars PROVE PlaceInv'
    OBVIOUS
  <1>1. ASSUME NEW r \in Requests, Submit(r) \/ Place1(r) \/ RequestFault(r) PROVE PlaceInv'
    BY <1>1, SubmitStep, FindStep, CreateStep, GuardStep, RefuseStep, ExecuteStep,
       FilledStep, FaultStep DEF Place1
  <1>2. CASE \E c \in Calls, o \in Orders : PutExecute(c, o)
    BY <1>2, PutStep
  <1>3. CASE \E c \in Calls : (Step(c) \/ Fault(c)) /\ UNCHANGED placement
    BY <1>3, EngineStep
  <1>4. CASE UNCHANGED pvars
    <2>1. UNCHANGED <<vars, req, keyOf, passed, raced>>
      BY <1>4 DEF pvars, placement, history
    <2>2. Inv' /\ UNCHANGED <<orders, trades, call>>
      BY <2>1, InvNext DEF PlaceInv, vars, db
    <2>3. Kept /\ TradesTraced'
      BY <2>1, <2>2 DEF Kept, TradesTraced, Started, PlaceInv
    <2>4. QED
      BY <2>1, <2>2, <2>3, CarriedOn DEF MovesOn, PlaceInv, PlacementTypeOK
  <1>5. QED
    BY <1>1, <1>2, <1>3, <1>4, ProcessCrashStep DEF PlacementNext

-----------------------------------------------------------------------------
(* For any number of requests that share keys, the requests of one key     *)
(* make at most one trade between them, whatever races, fails or crashes   *)
(* (placeOrder 67-98).                                                     *)
THEOREM KeysFillOnce == PlacementSpec => []OneFillPerKey
  <1>1. PlaceInv => OneFillPerKey
    <2> SUFFICES ASSUME PlaceInv, NEW q \in Requests, NEW r \in Requests, q # r,
                        req[q].key = req[r].key, req[q].key # NoKey,
                        NEW t \in trades, NEW u \in trades, t.id = q, u.id = r
                 PROVE  FALSE
      BY DEF OneFillPerKey
    <2>1. Owns(q) /\ Owns(r)
      BY DEF PlaceInv, TradesTraced, Owns
    <2>2. req[q].order = req[r].order
      BY <2>1 DEF PlaceInv, ReqOK, KeysUnique
    <2>3. QED
      BY <2>1, <2>2 DEF PlaceInv, OwnersApart
  <1>2. QED
    BY <1>1, PlaceInit, PlaceNext, PTL DEF PlacementSpec

(* For any interleaving, a BUY that has traded passed the gate, or a PUT   *)
(* took it in hand together with its placement, or its placement broke off *)
(* (guardBuyOrder 163-205).                                                *)
THEOREM BuysAreGated == PlacementSpec => []GatedBuys
  <1>1. PlaceInv => GatedBuys
    <2> SUFFICES ASSUME PlaceInv, NEW t \in trades, t.ticket.side = "BUY"
                 PROVE  t.order \in passed \cup raced
                          \/ (t.id \notin Requests /\ BrokenOff(t.order))
      BY DEF GatedBuys
    <2>1. t.id \in Calls /\ t.order \in Orders
      BY DEF PlaceInv, Inv, TypeOK, Trade
    <2>2. QED
      BY <2>1 DEF PlaceInv, TradesTraced, Cleared
  <1>2. QED
    BY <1>1, PlaceInit, PlaceNext, PTL DEF PlacementSpec

(* Requests, keys and histories keep their types (PlacementTypeOK).        *)
THEOREM PlacementTypeCorrect == PlacementSpec => []PlacementTypeOK
  <1>1. PlaceInv => PlacementTypeOK
    BY DEF PlaceInv
  <1>2. QED
    BY <1>1, PlaceInit, PlaceNext, PTL DEF PlacementSpec
-----------------------------------------------------------------------------
(* Orders on which no PUT raced.                                           *)

\* The request still has to decide about its order.
Claimed(r) == Gating(r) \/ req[r].pc = "execute"

(* What a request has not handed over yet, nobody has run.                 *)
HandsOff(r) ==
  Claimed(r) /\ req[r].order \notin raced =>
    /\ orders[req[r].order].status = "PENDING"
    /\ \A c \in Calls : call[c].order # req[r].order

(* A call is alone at work on its order, and finds it PENDING.             *)
AtWork(c) ==
  Active(c) /\ call[c].order \notin raced =>
    /\ orders[call[c].order].status = "PENDING"
    /\ \A d \in Calls : Active(d) /\ call[d].order = call[c].order => d = c

(* The call of a trade has marked its order, is about to, or broke off.    *)
Settled(t) ==
  t.order \notin raced =>
    call[t.id].pc \in {"commit", "unmarked", "crashed"} \/ orders[t.order].status = "EXECUTED"

Parts ==
  /\ \A c \in Calls : call[c].order \in Orders => orders[call[c].order] # NoOrder
  /\ \A r \in Requests : HandsOff(r)
  /\ \A c \in Calls : AtWork(c)
  /\ \A t \in trades : Settled(t)

SettledInv == PlaceInv /\ TradeMeansPaid /\ Parts

LEMMA SettledFacts ==
  ASSUME SettledInv
  PROVE  /\ Inv /\ call \in [Calls -> CallState] /\ Requests \subseteq Calls
         /\ orders \in [Orders -> OrderDoc \cup {NoOrder}]
         /\ \A t \in trades : /\ t.id \in Calls /\ t.order \in Orders /\ Started(t.id)
                              /\ call[t.id].order = t.order
         /\ \A c \in Calls : Active(c) => call[c].order \in Orders
         /\ \A r \in Requests : Claimed(r) =>
              Owns(r) /\ req[r].order \in Orders /\ orders[req[r].order] # NoOrder
         /\ \A q, r \in Requests : Claimed(q) /\ Claimed(r) /\ req[q].order = req[r].order => q = r
  <1>1. /\ call \in [Calls -> CallState] /\ orders \in [Orders -> OrderDoc \cup {NoOrder}]
        /\ \A t \in trades : t.id \in Calls /\ t.order \in Orders
        /\ \A c \in Calls : Active(c) => call[c].order \in Orders
    BY DEF SettledInv, PlaceInv, Inv, TypeOK, Trade, CallOK, HasTicket, Active
  <1>2. \A t \in trades : Started(t.id) /\ call[t.id].order = t.order
    BY DEF SettledInv, PlaceInv, TradesTraced
  <1>3. \A r \in Requests : Claimed(r) =>
          Owns(r) /\ req[r].order \in Orders /\ orders[req[r].order] # NoOrder
    BY DEF SettledInv, PlaceInv, ReqOK, Claimed, Owns
  <1>4. \A q, r \in Requests : Claimed(q) /\ Claimed(r) /\ req[q].order = req[r].order => q = r
    BY <1>3 DEF SettledInv, PlaceInv, OwnersApart
  <1>5. QED
    BY <1>1, <1>2, <1>3, <1>4, OrderPlacementAssumption DEF SettledInv, PlaceInv

LEMMA SettledInit == PlacementInit => SettledInv
  <1> SUFFICES ASSUME PlacementInit PROVE SettledInv
    OBVIOUS
  <1>1. /\ \A c \in Calls : call[c].pc = "idle" /\ call[c].order = NoOrder
        /\ trades = {} /\ \A r \in Requests : req[r].pc = "idle"
    BY DEF PlacementInit, Init, IdleCall
  <1>2. TradeMeansPaid /\ \A r \in Requests : ~Claimed(r)
    BY <1>1 DEF TradeMeansPaid, Claimed, Gating
  <1>3. QED
    BY <1>1, <1>2, PlaceInit, OrderExecutionAssumption
    DEF SettledInv, Parts, HandsOff, AtWork, Active, Waiting

(* A step that starts nothing and changes no order, but may break off.     *)
LEMMA SettledKept ==
  ASSUME SettledInv, UNCHANGED <<orders, trades, raced>>,
         \A r \in Requests : Claimed(r)' => Claimed(r) /\ req'[r].order = req[r].order,
         \A c \in Calls : \/ call'[c] = call[c]
                          \/ call'[c].pc = "crashed" /\ call'[c].order = call[c].order
  PROVE  Parts'
  <1>1. \A c \in Calls : /\ call'[c].order = call[c].order
                         /\ Active(c)' => Active(c) /\ call'[c] = call[c]
    BY DEF Active, Waiting
  <1>2. \A t \in trades : Settled(t)'
    BY SettledFacts DEF SettledInv, Parts, Settled
  <1>3. \A c \in Calls : AtWork(c)'
    BY <1>1 DEF SettledInv, Parts, AtWork
  <1>4. \A r \in Requests : HandsOff(r)'
    BY <1>1 DEF SettledInv, Parts, HandsOff
  <1>5. QED
    BY <1>1, <1>2, <1>3, <1>4 DEF SettledInv, Parts

LEMMA SettledByEngine ==
  ASSUME SettledInv, NEW c \in Calls, Step(c) \/ Fault(c), UNCHANGED placement
  PROVE  Parts'
  <1>1. /\ Active(c) /\ \A d \in Calls : d # c => call'[d] = call[d]
        /\ \A d \in Calls : call'[d].order = call[d].order
        /\ \A o \in Orders : orders'[o] = NoOrder <=> orders[o] = NoOrder
        /\ \A t \in trades' : t \notin trades => t.id = c
    BY SettledFacts, StepStaysHome, EngineKeeps
  <1>2. UNCHANGED <<req, raced>>
    BY DEF placement, history
  <1>3. \A d \in Calls : Active(d)' => Active(d)
    BY <1>1 DEF Active
  <1>4. ASSUME NEW o \in Orders, o \notin raced, orders'[o] # orders[o]
        PROVE  /\ o = call[c].order /\ orders[o].status = "PENDING" /\ ~Active(c)'
               /\ \A d \in Calls : Active(d) /\ call[d].order = o => d = c
    BY <1>1, <1>4, SettledFacts, MarksItsOwn DEF SettledInv, Parts, AtWork
  <1>5. ASSUME NEW r \in Requests PROVE HandsOff(r)'
    BY <1>1, <1>2, <1>4, SettledFacts DEF SettledInv, Parts, HandsOff, Claimed, Gating
  <1>6. ASSUME NEW d \in Calls PROVE AtWork(d)'
    BY <1>1, <1>2, <1>3, <1>4, SettledFacts DEF SettledInv, Parts, AtWork
  <1>7. ASSUME NEW t \in trades' PROVE Settled(t)'
    <2>1. CASE t \notin trades
      BY <1>1, <2>1, SettledFacts, RecordsAtCommit DEF Settled
    <2>2. CASE t \in trades /\ t.id = c
      <3>1. call[c].pc = "commit" /\ call[c].order = t.order
        BY <1>1, <2>2, SettledFacts DEF SettledInv, TradeMeansPaid, Active, Waiting
      <3>2. QED
        BY <2>2, <3>1, SettledFacts, CommitMarks DEF Settled
    <2>3. CASE t \in trades /\ t.id # c
      BY <1>1, <1>2, <1>4, <2>3, SettledFacts DEF SettledInv, Parts, Settled
    <2>4. QED
      BY <2>1, <2>2, <2>3
  <1>8. QED
    BY <1>1, <1>5, <1>6, <1>7 DEF SettledInv, Parts

(* Whoever begins finds nobody at work, or races.                          *)
LEMMA SettledByStart ==
  ASSUME SettledInv, NEW c \in Calls, NEW o \in Orders, orders[o] # NoOrder, Start(c, o),
         raced \subseteq raced',
         o \notin raced' => \A d \in Calls : ~(Active(d) /\ call[d].order = o),
         \A r \in Requests : Claimed(r)' =>
           /\ Claimed(r) /\ req'[r].order = req[r].order
           /\ req[r].order = o => o \in raced'
  PROVE  Parts'
  <1>1. /\ UNCHANGED <<orders, trades>> /\ call[c].pc = "idle"
        /\ \A d \in Calls : d # c => call'[d] = call[d]
        /\ \/ call'[c].pc = "quote" /\ call'[c].order = o /\ Startable(o)
           \/ call'[c].pc = "refused" /\ call'[c].order = call[c].order
    BY SettledFacts, StartGives DEF db
  <1>2. ASSUME NEW d \in Calls, Active(d)'
        PROVE  \/ d # c /\ Active(d) /\ call'[d] = call[d]
               \/ d = c /\ call'[d].order = o /\ orders[o].status = "PENDING"
    BY <1>1, <1>2 DEF Active, Waiting, Startable
  <1>3. \A t \in trades : Settled(t)'
    BY <1>1, SettledFacts DEF SettledInv, Parts, Settled, Started
  <1>4. \A d \in Calls : AtWork(d)'
    BY <1>1, <1>2 DEF SettledInv, Parts, AtWork
  <1>5. \A r \in Requests : HandsOff(r)'
    BY <1>1 DEF SettledInv, Parts, HandsOff
  <1>6. QED
    BY <1>1, <1>3, <1>4, <1>5 DEF SettledInv, Parts

(* A step of a request is its own.                                         *)
LEMMA StaysWithin ==
  ASSUME req \in [Requests -> ReqState], NEW r \in Requests,
         Submit(r) \/ Place1(r) \/ RequestFault(r), NEW q \in Requests, q # r
  PROVE  req'[q] = req[q]
  <1>1. CASE FindByKey(r) \/ FindTrade(r) \/ Filled(r)
    BY <1>1 DEF FindByKey, FindTrade, Filled, Now, Answer
  <1>2. CASE GuardPrice(r) \/ ReadCash(r) \/ ReadPositions(r)
    BY <1>2 DEF GuardPrice, ReadCash, ReadPositions, Now
  <1>3. CASE Submit(r) \/ RequestFault(r)
    BY <1>3 DEF Submit, RequestFault, Now
  <1>4. CASE CreateOrder(r) \/ Refuse(r) \/ Execute(r)
    BY <1>4 DEF CreateOrder, Refuse, Execute, Now
  <1>5. QED
    BY <1>1, <1>2, <1>3, <1>4 DEF Place1

(* The steps of a request that is not at its order, or gives it up.        *)
LEMMA Yields ==
  ASSUME SettledInv, NEW r \in Requests,
         FindByKey(r) \/ FindTrade(r) \/ GuardPrice(r) \/ ReadCash(r) \/ ReadPositions(r)
           \/ Filled(r) \/ Submit(r) \/ RequestFault(r)
  PROVE  /\ UNCHANGED <<orders, trades, call, raced, keyOf>>
         /\ \A q \in Requests : Claimed(q)' => Claimed(q) /\ req'[q].order = req[q].order
  <1>1. req \in [Requests -> ReqState]
    BY DEF SettledInv, PlaceInv, PlacementTypeOK
  <1>2. UNCHANGED <<orders, trades, call, raced, keyOf>>
    BY DEF FindByKey, FindTrade, GuardPrice, ReadCash, ReadPositions, Filled, Submit,
           RequestFault, vars, db, history
  <1>3. \A q \in Requests : q # r => req'[q] = req[q]
    BY <1>1, StaysWithin DEF Place1
  <1> SUFFICES Claimed(r)' => Claimed(r) /\ req'[r].order = req[r].order
    BY <1>2, <1>3 DEF Claimed, Gating
  <1>4. ASSUME NEW pc \in {"create", "error", "cash", "positions", "refuse", "execute"}, Now(r, pc),
               Claimed(r) \/ pc \in {"create", "error"}
        PROVE  Claimed(r)' => Claimed(r) /\ req'[r].order = req[r].order
    BY <1>1, <1>4 DEF Now, Claimed, Gating, ReqState
  <1>5. ASSUME NEW reply,
               req' = [req EXCEPT ![r].pc = "replied", ![r].reply = reply]
        PROVE  ~Claimed(r)'
    BY <1>1, <1>5 DEF Claimed, Gating, ReqState
  <1>6. ASSUME NEW o, Answer(r, o, FALSE) PROVE ~Claimed(r)'
    BY <1>5, <1>6 DEF Answer
  <1>7. CASE FindByKey(r)
    <2>1. ASSUME NEW o, req' = [req EXCEPT ![r].pc = "trade", ![r].order = o,
                                           ![r].price = orders[o].price]
          PROVE  ~Claimed(r)'
      BY <1>1, <2>1 DEF Claimed, Gating, ReqState
    <2>2. CASE Now(r, "create") \/ Now(r, "error") \/ Now(r, "resolve")
      BY <1>1, <2>2 DEF Now, Claimed, Gating, ReqState
    <2>3. CASE ~(Now(r, "create") \/ Now(r, "error") \/ Now(r, "resolve"))
      <3>1. PICK o \in KeyedOrders(req[r].key) :
              IF HasFill(o)
              THEN req' = [req EXCEPT ![r].pc = "trade", ![r].order = o,
                                      ![r].price = orders[o].price]
              ELSE Answer(r, o, FALSE)
        BY <1>7, <2>3 DEF FindByKey
      <3>2. QED
        BY <1>6, <2>1, <3>1
    <2>4. QED
      BY <2>2, <2>3
  <1>8. CASE FindTrade(r)
    BY <1>5, <1>8 DEF FindTrade
  <1>9. CASE Submit(r)
    <2>1. PICK t \in Tickets, k \in Keys \cup {NoKey} :
            req' = [req EXCEPT ![r].ticket = t, ![r].key = k,
                               ![r].pc = IF k = NoKey THEN "create" ELSE "check"]
      BY <1>9 DEF Submit
    <2>2. QED
      BY <1>1, <2>1 DEF Claimed, Gating, ReqState
  <1>10. CASE Filled(r)
    <2>1. CASE Now(r, "error")
      BY <1>4, <2>1
    <2>2. CASE ~Now(r, "error")
      BY <1>5, <1>10, <2>2 DEF Filled
    <2>3. QED
      BY <2>1, <2>2
  <1>11. CASE GuardPrice(r)
    <2>1. Claimed(r)
      BY <1>11 DEF GuardPrice, At, Claimed, Gating
    <2>2. ASSUME NEW p, req' = [req EXCEPT ![r].price = p, ![r].pc = "cash"]
          PROVE  req'[r].order = req[r].order
      BY <1>1, <2>2 DEF ReqState
    <2>3. QED
      BY <1>4, <1>11, <2>1, <2>2 DEF GuardPrice
  <1>12. CASE ReadCash(r)
    <2> DEFINE funded == req[r].price * Want(r).qty <= cash
    <2>1. Claimed(r) /\ req' = [req EXCEPT ![r].pc = "positions", ![r].funded = funded]
      BY <1>12 DEF ReadCash, At, Claimed, Gating
    <2> HIDE DEF funded
    <2>2. req'[r].order = req[r].order
      BY <1>1, <2>1 DEF ReqState
    <2>3. QED
      BY <2>1, <2>2
  <1>13. CASE ReadPositions(r)
    <2>1. Claimed(r)
      BY <1>13 DEF ReadPositions, At, Claimed, Gating
    <2>2. CASE Now(r, "execute") \/ Now(r, "refuse")
      BY <1>4, <2>1, <2>2
    <2>3. CASE ~(Now(r, "execute") \/ Now(r, "refuse"))
      BY <1>5, <1>13, <2>3 DEF ReadPositions
    <2>4. QED
      BY <2>2, <2>3
  <1>14. CASE RequestFault(r)
    BY <1>4, <1>14 DEF RequestFault
  <1>15. QED
    BY <1>7, <1>8, <1>9, <1>10, <1>11, <1>12, <1>13, <1>14

(* A new order has no call and no trade.                                   *)
LEMMA SettledByCreate ==
  ASSUME SettledInv, NEW r \in Requests, CreateOrder(r)
  PROVE  Parts'
  <1>1. /\ req \in [Requests -> ReqState] /\ req[r].pc = "create"
        /\ UNCHANGED <<trades, call, raced>>
        /\ orders \in [Orders -> OrderDoc \cup {NoOrder}] /\ Want(r) \in Tickets
    BY DEF CreateOrder, At, history, SettledInv, PlaceInv, PlacementTypeOK, TypeOK, ReqOK
  <1>2. CASE Now(r, "resolve") /\ UNCHANGED orders
    <2>1. \A q \in Requests : Claimed(q)' => Claimed(q) /\ req'[q].order = req[q].order
      BY <1>1, <1>2 DEF Now, Claimed, Gating
    <2>2. QED
      BY <1>1, <1>2, <2>1, SettledKept
  <1>3. ASSUME NEW o \in Orders, NewOrder(o, Want(r)), NEW pc, NEW reply,
               req' = [req EXCEPT ![r].order = o, ![r].pc = pc, ![r].reply = reply]
        PROVE  Parts'
    <2>1. /\ orders[o] = NoOrder /\ orders'[o].status = "PENDING" /\ orders'[o] # NoOrder
          /\ \A p \in Orders : p # o => orders'[p] = orders[p]
      <3> DEFINE doc == [ticket |-> Want(r), status |-> "PENDING", price |-> 0]
      <3>1. doc \in OrderDoc /\ doc # NoOrder
        BY <1>1, NoOrderAssumption DEF OrderDoc
      <3>2. QED
        BY <1>1, <1>3, <3>1 DEF NewOrder
    <2>2. /\ req'[r].order = o
          /\ \A q \in Requests : q # r => req'[q] = req[q]
      BY <1>1, <1>3 DEF ReqState
    <2>3. \A c \in Calls : call[c].order # o
      BY <2>1 DEF SettledInv, Parts
    <2>4. \A q \in Requests : HandsOff(q)'
      <3>1. ASSUME NEW q \in Requests, q # r PROVE HandsOff(q)'
        BY <1>1, <2>1, <2>2, <3>1, SettledFacts
        DEF SettledInv, Parts, HandsOff, Claimed, Gating
      <3>2. HandsOff(r)'
        BY <1>1, <2>1, <2>2, <2>3 DEF HandsOff
      <3>3. QED
        BY <3>1, <3>2
    <2>5. \A c \in Calls : AtWork(c)'
      BY <1>1, <2>1, <2>3, SettledFacts DEF SettledInv, Parts, AtWork, Active
    <2>6. \A t \in trades' : Settled(t)'
      BY <1>1, <2>1, <2>3, SettledFacts DEF SettledInv, Parts, Settled
    <2>7. QED
      BY <1>1, <2>1, <2>4, <2>5, <2>6 DEF SettledInv, Parts
  <1>4. CASE Now(r, "resolve") /\ UNCHANGED <<orders, keyOf>>
    BY <1>2, <1>4
  <1>5. CASE ~(Now(r, "resolve") /\ UNCHANGED <<orders, keyOf>>)
    <2>1. PICK o \in Orders :
            /\ NewOrder(o, Want(r))
            /\ req' = [req EXCEPT ![r].order = o, ![r].pc = AfterCreate(Want(r)),
                 ![r].reply = IF AfterCreate(Want(r)) # "replied" THEN NoReply
                              ELSE [order |-> o, status |-> "PENDING", price |-> 0,
                                    traded |-> FALSE]]
      BY <1>5 DEF CreateOrder
    <2>2. QED
      BY <1>3, <2>1
  <1>6. QED
    BY <1>4, <1>5

(* rejectOrder meets nobody on its order, unless a PUT raced it.           *)
LEMMA SettledByRefuse ==
  ASSUME SettledInv, NEW r \in Requests, Refuse(r)
  PROVE  Parts'
  <1> DEFINE o == req[r].order
  <1>1. /\ req \in [Requests -> ReqState] /\ Claimed(r) /\ UNCHANGED <<trades, call, raced>>
        /\ o \in Orders /\ orders[o] \in OrderDoc
        /\ orders' = [orders EXCEPT ![o].status = "REJECTED"]
        /\ req' = [req EXCEPT ![r].pc = "error"]
    BY SettledFacts
    DEF Refuse, At, Now, history, Claimed, Gating, SettledInv, PlaceInv, PlacementTypeOK
  <1>2. /\ \A p \in Orders : p # o => orders'[p] = orders[p]
        /\ orders'[o] # NoOrder
    BY <1>1, SettledFacts, NoOrderAssumption DEF OrderDoc
  <1>3. o \notin raced => \A c \in Calls : call[c].order # o
    BY <1>1 DEF SettledInv, Parts, HandsOff
  <1>4. /\ ~Claimed(r)'
        /\ \A q \in Requests : q # r => req'[q] = req[q] /\ (Claimed(q)' <=> Claimed(q))
    BY <1>1 DEF Claimed, Gating
  <1>5. ASSUME NEW q \in Requests PROVE HandsOff(q)'
    BY <1>1, <1>2, <1>4, SettledFacts DEF SettledInv, Parts, HandsOff
  <1>6. ASSUME NEW c \in Calls PROVE AtWork(c)'
    BY <1>1, <1>2, <1>3, SettledFacts DEF SettledInv, Parts, AtWork, Active
  <1>7. ASSUME NEW t \in trades' PROVE Settled(t)'
    BY <1>1, <1>2, <1>3, SettledFacts DEF SettledInv, Parts, Settled
  <1>8. QED
    BY <1>1, <1>2, <1>5, <1>6, <1>7 DEF SettledInv, Parts

LEMMA SettledByExecute ==
  ASSUME SettledInv, NEW r \in Requests, Execute(r)
  PROVE  Parts'
  <1> DEFINE o == req[r].order
  <1>1. /\ Claimed(r) /\ ~Claimed(r)' /\ Start(r, o) /\ UNCHANGED raced /\ r \in Calls
        /\ o \in Orders /\ orders[o] # NoOrder
        /\ \A q \in Requests : q # r => req'[q] = req[q] /\ (Claimed(q)' <=> Claimed(q))
    BY SettledFacts
    DEF Execute, At, Now, history, Claimed, Gating, SettledInv, PlaceInv, PlacementTypeOK,
        ReqState
  <1>2. o \notin raced => \A d \in Calls : call[d].order # o
    BY <1>1 DEF SettledInv, Parts, HandsOff
  <1>3. ASSUME NEW q \in Requests, Claimed(q)'
        PROVE  Claimed(q) /\ req'[q].order = req[q].order /\ req[q].order # o
    BY <1>1, <1>3, SettledFacts
  <1>4. QED
    BY <1>1, <1>2, <1>3, SettledByStart

LEMMA SettledByPut ==
  ASSUME SettledInv, NEW c \in Calls, NEW o \in Orders, PutExecute(c, o)
  PROVE  Parts'
  <1>1. /\ orders[o] # NoOrder /\ Start(c, o) /\ raced \subseteq raced' /\ req' = req
        /\ InHand(o) => o \in raced'
    BY DEF PutExecute
  <1>2. /\ (\E d \in Calls : Active(d) /\ call[d].order = o) => InHand(o)
        /\ \A r \in Requests : Claimed(r) /\ req[r].order = o => InHand(o)
    BY DEF InHand, Claimed, Gating, ReqWaiting
  <1>3. \A r \in Requests : Claimed(r)' => Claimed(r)
    BY <1>1 DEF Claimed, Gating
  <1>4. QED
    BY <1>1, <1>2, <1>3, SettledByStart

LEMMA SettledByCrash ==
  ASSUME SettledInv, ProcessCrash
  PROVE  Parts' /\ TradeMeansPaid'
  <1>1. /\ UNCHANGED <<orders, trades, raced>>
        /\ call' = [c \in Calls |-> IF Active(c) THEN [call[c] EXCEPT !.pc = "crashed"]
                                    ELSE call[c]]
    BY DEF ProcessCrash, db, history
  <1>2. ASSUME NEW c \in Calls
        PROVE  \/ call'[c] = call[c]
               \/ /\ Active(c) /\ call'[c].pc = "crashed"
                  /\ call'[c].order = call[c].order /\ call'[c].price = call[c].price
    BY <1>1, SettledFacts DEF CallState
  <1>3. \A r \in Requests : Claimed(r)' => Claimed(r) /\ req'[r].order = req[r].order
    BY DEF ProcessCrash, Claimed, Gating, ReqWaiting
  <1>4. ASSUME NEW c \in Calls PROVE Paid(c)'
    BY <1>1, <1>2, PaidKept DEF SettledInv, TradeMeansPaid, Paid, Active, Waiting
  <1>5. QED
    BY <1>1, <1>2, <1>3, <1>4, SettledKept DEF TradeMeansPaid, Paid

LEMMA SettledNext == SettledInv /\ [PlacementNext]_pvars => SettledInv'
  <1> SUFFICES ASSUME SettledInv, [PlacementNext]_pvars PROVE SettledInv'
    OBVIOUS
  <1>1. PlaceInv'
    BY PlaceNext DEF SettledInv
  <1>2. ASSUME UNCHANGED <<trades, call>> PROVE TradeMeansPaid'
    BY <1>2 DEF SettledInv, TradeMeansPaid
  <1>3. ASSUME [Next]_vars PROVE TradeMeansPaid'
    BY <1>3, PaidNext DEF SettledInv, PlaceInv
  <1>4. ASSUME NEW r \in Requests, Submit(r) \/ Place1(r) \/ RequestFault(r)
        PROVE  Parts' /\ TradeMeansPaid'
    <2>1. CASE CreateOrder(r)
      BY <1>2, <2>1, SettledByCreate DEF CreateOrder
    <2>2. CASE Refuse(r)
      BY <1>2, <2>2, SettledByRefuse DEF Refuse
    <2>3. CASE Execute(r)
      <3>1. r \in Calls /\ req[r].order \in Orders /\ Start(r, req[r].order)
        BY <2>3, SettledFacts DEF Execute, At, Claimed
      <3>2. QED
        BY <1>3, <2>3, <3>1, SettledByExecute DEF Next
    <2>4. CASE ~CreateOrder(r) /\ ~Refuse(r) /\ ~Execute(r)
      <3>1. /\ UNCHANGED <<orders, trades, call, raced, keyOf>>
            /\ \A q \in Requests : Claimed(q)' => Claimed(q) /\ req'[q].order = req[q].order
        BY <1>4, <2>4, Yields DEF Place1
      <3>2. QED
        BY <1>2, <3>1, SettledKept
    <2>5. QED
      BY <2>1, <2>2, <2>3, <2>4
  <1>5. ASSUME NEW c \in Calls, NEW o \in Orders, PutExecute(c, o)
        PROVE  Parts' /\ TradeMeansPaid'
    BY <1>3, <1>5, SettledByPut DEF PutExecute, Next
  <1>6. ASSUME NEW c \in Calls, Step(c) \/ Fault(c), UNCHANGED placement
        PROVE  Parts' /\ TradeMeansPaid'
    BY <1>3, <1>6, SettledByEngine DEF Next
  <1>7. CASE UNCHANGED pvars
    <2>1. UNCHANGED <<orders, trades, call, raced, req>>
      BY <1>7 DEF pvars, vars, db, placement, history
    <2>2. \A q \in Requests : Claimed(q)' => Claimed(q) /\ req'[q].order = req[q].order
      BY <2>1 DEF Claimed, Gating
    <2>3. QED
      BY <1>1, <1>2, <2>1, <2>2, SettledKept DEF SettledInv
  <1>8. QED
    BY <1>1, <1>4, <1>5, <1>6, <1>7, SettledByCrash DEF SettledInv, PlacementNext

(* For any number of requests and PUTs, an order that reads REJECTED has   *)
(* not traded, unless a PUT raced it or the call that traded broke off     *)
(* (rejectOrder 156-160, executeOrder 103-107 and 120-123).                *)
THEOREM RejectedOrdersNeverTraded == PlacementSpec => []RejectedNeverTrades
  <1>1. SettledInv => RejectedNeverTrades
    <2> SUFFICES ASSUME SettledInv, NEW t \in trades, orders[t.order].status = "REJECTED",
                        t.order \notin raced
                 PROVE  call[t.id].pc \in {"unmarked", "crashed"}
      BY DEF RejectedNeverTrades
    <2>1. call[t.id].pc # "commit"
      BY SettledFacts DEF SettledInv, Parts, AtWork, Active, Waiting
    <2>2. QED
      BY <2>1 DEF SettledInv, Parts, Settled
  <1>2. QED
    BY <1>1, SettledInit, SettledNext, PTL DEF PlacementSpec

(* However a key is repeated, an answer without a trade to a key whose     *)
(* order has traded is given only before the call that traded has marked   *)
(* the order, or if it never could (findByClientOrderId 118-135).          *)
THEOREM RetriesSeeTheFill == PlacementSpec => RetrySeesFill
  <1> DEFINE Seen ==
        \A r \in Requests :
          (/\ req[r].pc \in {"check", "resolve"} /\ req'[r].pc = "replied"
           /\ req'[r].reply.order \notin raced /\ ~req'[r].reply.traded) =>
            \A t \in trades : t.order = req'[r].reply.order =>
              call[t.id].pc \in {"commit", "unmarked", "crashed"}
  <1>1. SettledInv /\ [PlacementNext]_pvars => [Seen]_pvars
    <2> SUFFICES ASSUME SettledInv, PlacementNext, NEW r \in Requests,
                        req[r].pc \in {"check", "resolve"}, req'[r].pc = "replied",
                        req'[r].reply.order \notin raced, ~req'[r].reply.traded,
                        NEW t \in trades, t.order = req'[r].reply.order
                 PROVE  call[t.id].pc \in {"commit", "unmarked", "crashed"}
      BY DEF pvars
    <2>1. req \in [Requests -> ReqState]
      BY DEF SettledInv, PlaceInv, PlacementTypeOK
    <2>2. FindByKey(r)
      <3>1. req'[r].pc # req[r].pc /\ req'[r].pc # "lost"
        OBVIOUS
      <3>2. ~ \E c \in Calls, o \in Orders : PutExecute(c, o)
        BY <3>1 DEF PutExecute
      <3>3. ~ProcessCrash
        BY <2>1, <3>1 DEF ProcessCrash, ReqState
      <3>4. PICK q \in Requests : Submit(q) \/ Place1(q) \/ RequestFault(q)
        BY <3>1, <3>2, <3>3 DEF PlacementNext, placement
      <3>5. q = r
        BY <2>1, <3>1, <3>4, StaysWithin
      <3>6. ~Submit(r) /\ ~RequestFault(r)
        BY <2>1 DEF Submit, At, RequestFault, Now, ReqState
      <3>7. QED
        BY <3>4, <3>5, <3>6 DEF Place1, FindTrade, CreateOrder, GuardPrice, ReadCash,
           ReadPositions, Refuse, Execute, Filled, At
    <2>3. PICK o \in KeyedOrders(req[r].key) :
            IF HasFill(o)
            THEN req' = [req EXCEPT ![r].pc = "trade", ![r].order = o,
                                    ![r].price = orders[o].price]
            ELSE Answer(r, o, FALSE)
      <3>1. ~Now(r, "create") /\ ~Now(r, "error")
        BY <2>1 DEF Now, ReqState
      <3>2. QED
        BY <2>2, <3>1 DEF FindByKey
    <2>4. ~HasFill(o) /\ t.order = o
      BY <2>1, <2>3 DEF Answer, ReqState
    <2>5. QED
      BY <2>4 DEF SettledInv, Parts, Settled, HasFill
  <1>2. QED
    BY <1>1, SettledInit, SettledNext, PTL DEF PlacementSpec, RetrySeesFill
-----------------------------------------------------------------------------
(* What the replies say.                                                   *)

\* The order o is stored under the key of r.
Names(r, o) == o \in Orders /\ orders[o] # NoOrder /\ keyOf[o] = req[r].key
Reports(o, p) == orders[o].status = "EXECUTED" /\ orders[o].price = p

(* A request that has looked up an order, or replied.                      *)
Told(r) ==
  /\ req[r].pc = "trade" =>
       /\ Names(r, req[r].order)
       /\ req[r].order \notin raced => Reports(req[r].order, req[r].price)
  /\ req[r].reply # NoReply =>
       /\ req[r].pc = "replied" /\ Names(r, req[r].reply.order)
       /\ (req[r].reply.status = "EXECUTED" /\ req[r].reply.order \notin raced) =>
            req[r].reply.traded /\ Reports(req[r].reply.order, req[r].reply.price)

(* A request executes its own order.                                       *)
RunsItsOwn(r) == call[r].order # NoOrder => Started(r) /\ call[r].order = req[r].order

\* A call that is done has marked its order, with its price.
DoneStands(c) ==
  call[c].pc = "done" /\ call[c].order \notin raced =>
    call[c].order \in Orders /\ Reports(call[c].order, call[c].price)

RepliesInv ==
  /\ SettledInv /\ ExecutedHasTrade
  /\ \A r \in Requests : Told(r) /\ RunsItsOwn(r)
  /\ \A c \in Calls : DoneStands(c)

LEMMA RepliesInit == PlacementInit => RepliesInv
  <1> SUFFICES ASSUME PlacementInit PROVE RepliesInv
    OBVIOUS
  <1>1. /\ \A c \in Calls : call[c].pc = "idle" /\ call[c].order = NoOrder
        /\ \A o \in Orders : orders[o] = NoOrder
        /\ \A r \in Requests : req[r].pc = "idle" /\ req[r].reply = NoReply
    BY DEF PlacementInit, Init, IdleCall
  <1>2. QED
    BY <1>1, SettledInit, OrderPlacementAssumption
    DEF RepliesInv, ExecutedHasTrade, Told, RunsItsOwn, DoneStands

(* Stored orders keep their keys, and an EXECUTED one stands unless a PUT  *)
(* raced it.                                                               *)
Stand ==
  /\ raced \subseteq raced'
  /\ \A o \in Orders : orders[o] # NoOrder =>
       /\ orders'[o] # NoOrder /\ keyOf'[o] = keyOf[o]
       /\ orders[o].status = "EXECUTED" /\ o \notin raced => orders'[o] = orders[o]

LEMMA OrdersStand == SettledInv /\ [PlacementNext]_pvars => Stand
  <1> SUFFICES ASSUME SettledInv, [PlacementNext]_pvars PROVE Stand
    OBVIOUS
  <1>1. CASE UNCHANGED <<orders, keyOf>> /\ raced \subseteq raced'
    BY <1>1 DEF Stand
  <1>2. ASSUME NEW r \in Requests, CreateOrder(r) PROVE Stand
    <2>1. /\ UNCHANGED raced /\ keyOf \in [Orders -> Keys \cup {NoKey}]
          /\ orders \in [Orders -> OrderDoc \cup {NoOrder}]
      BY <1>2 DEF CreateOrder, history, SettledInv, PlaceInv, PlacementTypeOK, TypeOK
    <2>2. CASE \E o \in Orders : NewOrder(o, Want(r)) /\ keyOf' = [keyOf EXCEPT ![o] = req[r].key]
      BY <2>1, <2>2 DEF NewOrder, Stand
    <2>3. QED
      BY <1>1, <1>2, <2>1, <2>2 DEF CreateOrder
  <1>3. ASSUME NEW r \in Requests, Refuse(r) PROVE Stand
    <2>1. /\ Claimed(r) /\ UNCHANGED <<raced, keyOf>>
          /\ orders' = [orders EXCEPT ![req[r].order].status = "REJECTED"]
      BY <1>3 DEF Refuse, At, history, Claimed, Gating
    <2>2. /\ req[r].order \in Orders /\ orders[req[r].order] \in OrderDoc
          /\ req[r].order \notin raced => orders[req[r].order].status = "PENDING"
      BY <2>1, SettledFacts DEF SettledInv, Parts, HandsOff
    <2>3. orders'[req[r].order] # NoOrder
      BY <2>1, <2>2, SettledFacts, NoOrderAssumption DEF OrderDoc
    <2>4. QED
      BY <2>1, <2>2, <2>3, SettledFacts DEF Stand
  <1>4. ASSUME NEW c \in Calls, Step(c) \/ Fault(c), UNCHANGED placement PROVE Stand
    <2>1. UNCHANGED <<keyOf, raced>> /\ Active(c)
      BY <1>4, SettledFacts, StepStaysHome DEF placement, history
    <2>2. \A o \in Orders : orders'[o] = NoOrder <=> orders[o] = NoOrder
      BY <1>4, SettledFacts, EngineKeeps
    <2>3. ASSUME NEW o \in Orders, orders'[o] # orders[o], o \notin raced
          PROVE  orders[o].status = "PENDING"
      BY <1>4, <2>1, <2>3, SettledFacts, MarksItsOwn DEF SettledInv, Parts, AtWork
    <2>4. QED
      BY <2>1, <2>2, <2>3 DEF Stand
  <1>5. ASSUME NEW r \in Requests, Execute(r) PROVE UNCHANGED <<orders, keyOf, raced>>
    BY <1>5 DEF Execute, Start, db, history
  <1>6. ASSUME NEW c \in Calls, NEW o \in Orders, PutExecute(c, o)
        PROVE  UNCHANGED <<orders, keyOf>> /\ raced \subseteq raced'
    BY <1>6 DEF PutExecute, Start, db
  <1>7. CASE ProcessCrash \/ UNCHANGED pvars
    BY <1>1, <1>7 DEF ProcessCrash, pvars, vars, db, placement, history
  <1>8. ASSUME NEW r \in Requests,
               FindByKey(r) \/ FindTrade(r) \/ GuardPrice(r) \/ ReadCash(r) \/ ReadPositions(r)
                 \/ Filled(r) \/ Submit(r) \/ RequestFault(r)
        PROVE  UNCHANGED <<orders, keyOf, raced>>
    BY <1>8, Yields
  <1>9. QED
    BY <1>1, <1>2, <1>3, <1>4, <1>5, <1>6, <1>7, <1>8 DEF PlacementNext, Place1

(* A request that says nothing, and one that says what is so.              *)
LEMMA Unsaid ==
  ASSUME RepliesInv, Stand, NEW r \in Requests,
         \/ req'[r] = req[r]
         \/ req'[r].reply = NoReply /\ req'[r].pc # "trade"
  PROVE  Told(r)'
  <1>1. CASE req'[r] = req[r]
    BY <1>1 DEF RepliesInv, Told, Names, Reports, Stand
  <1>2. CASE req'[r].reply = NoReply /\ req'[r].pc # "trade"
    BY <1>2 DEF Told
  <1>3. QED
    BY <1>1, <1>2

LEMMA Said ==
  ASSUME RepliesInv, NEW r \in Requests, req \in [Requests -> ReqState],
         NEW o, Names(r, o), UNCHANGED <<orders, keyOf, raced>>,
         NEW status, NEW price, NEW traded,
         req' = [req EXCEPT ![r].pc = "replied", ![r].reply =
                   [order |-> o, status |-> status, price |-> price, traded |-> traded]],
         status = "EXECUTED" /\ o \notin raced => traded /\ Reports(o, price)
  PROVE  Told(r)'
  <1> DEFINE reply == [order |-> o, status |-> status, price |-> price, traded |-> traded]
  <1>1. /\ reply.order = o /\ reply.status = status /\ reply.price = price
        /\ reply.traded = traded
    OBVIOUS
  <1>2. req' = [req EXCEPT ![r].pc = "replied", ![r].reply = reply]
    OBVIOUS
  <1> HIDE DEF reply
  <1>3. req'[r].pc = "replied" /\ req'[r].reply = reply /\ req'[r].key = req[r].key
    BY <1>2 DEF ReqState
  <1>4. QED
    BY <1>1, <1>3 DEF Told, Names, Reports

LEMMA RepliesFacts ==
  ASSUME RepliesInv
  PROVE  /\ req \in [Requests -> ReqState]
         /\ \A r \in Requests : req[r].pc # "replied" => req[r].reply = NoReply
         /\ \A r \in Requests : Owns(r) => Names(r, req[r].order)
  BY DEF RepliesInv, SettledInv, PlaceInv, PlacementTypeOK, Told, ReqOK, Names

LEMMA ToldByFind ==
  ASSUME RepliesInv, Stand, NEW r \in Requests, FindByKey(r) \/ FindTrade(r)
  PROVE  Told(r)'
  <1>1. /\ req \in [Requests -> ReqState] /\ req[r].reply = NoReply
        /\ UNCHANGED <<orders, keyOf, raced>>
    BY RepliesFacts DEF FindByKey, FindTrade, At, vars, db, history
  <1>2. CASE FindTrade(r)
    <2> DEFINE traded == \E t \in trades : t.order = req[r].order
    <2>1. /\ Names(r, req[r].order)
          /\ req[r].order \notin raced => Reports(req[r].order, req[r].price)
      BY <1>2 DEF FindTrade, At, RepliesInv, Told
    <2>2. req[r].order \notin raced => traded
      BY <2>1 DEF RepliesInv, ExecutedHasTrade, Names, Reports
    <2>3. req' = [req EXCEPT ![r].pc = "replied", ![r].reply =
                    [order |-> req[r].order, status |-> "EXECUTED", price |-> req[r].price,
                     traded |-> traded]]
      BY <1>2 DEF FindTrade
    <2> HIDE DEF traded
    <2>4. QED
      BY <1>1, <2>1, <2>2, <2>3, Said
  <1>3. CASE FindByKey(r)
    <2>1. CASE \E pc \in {"create", "error", "resolve"} : Now(r, pc)
      <3>1. req'[r].reply = NoReply /\ req'[r].pc # "trade"
        BY <1>1, <2>1 DEF Now, ReqState
      <3>2. QED
        BY <3>1, Unsaid
    <2>2. CASE ~ \E pc \in {"create", "error", "resolve"} : Now(r, pc)
      <3>1. PICK o \in KeyedOrders(req[r].key) :
              IF HasFill(o)
              THEN req' = [req EXCEPT ![r].pc = "trade", ![r].order = o,
                                      ![r].price = orders[o].price]
              ELSE Answer(r, o, FALSE)
        BY <1>3, <2>2 DEF FindByKey
      <3>2. Names(r, o)
        BY <3>1 DEF KeyedOrders, Names
      <3>3. CASE HasFill(o)
        <4>1. /\ req'[r].pc = "trade" /\ req'[r].order = o /\ req'[r].price = orders[o].price
              /\ req'[r].reply = NoReply /\ req'[r].key = req[r].key
          BY <1>1, <3>1, <3>3 DEF ReqState
        <4>2. QED
          BY <1>1, <3>2, <3>3, <4>1 DEF Told, Names, Reports, HasFill
      <3>4. CASE ~HasFill(o)
        BY <1>1, <3>1, <3>2, <3>4, Said DEF Answer, HasFill
      <3>5. QED
        BY <3>3, <3>4
    <2>3. QED
      BY <2>1, <2>2
  <1>4. QED
    BY <1>2, <1>3

LEMMA ToldByCreate ==
  ASSUME RepliesInv, Stand, NEW r \in Requests, CreateOrder(r)
  PROVE  Told(r)'
  <1>1. /\ req \in [Requests -> ReqState] /\ req[r].reply = NoReply /\ UNCHANGED raced
        /\ keyOf \in [Orders -> Keys \cup {NoKey}] /\ Want(r) \in Tickets
        /\ orders \in [Orders -> OrderDoc \cup {NoOrder}] /\ req[r].pc = "create"
    BY RepliesFacts
    DEF CreateOrder, At, history, RepliesInv, SettledInv, PlaceInv, PlacementTypeOK, TypeOK, ReqOK
  <1>2. CASE Now(r, "resolve")
    <2>1. req'[r].reply = NoReply /\ req'[r].pc # "trade"
      BY <1>1, <1>2 DEF Now, ReqState
    <2>2. QED
      BY <2>1, Unsaid
  <1>3. CASE ~Now(r, "resolve")
    <2>1. PICK o \in Orders :
            /\ NewOrder(o, Want(r)) /\ keyOf' = [keyOf EXCEPT ![o] = req[r].key]
            /\ req' = [req EXCEPT ![r].order = o, ![r].pc = AfterCreate(Want(r)),
                 ![r].reply = IF AfterCreate(Want(r)) # "replied" THEN NoReply
                              ELSE [order |-> o, status |-> "PENDING", price |-> 0,
                                    traded |-> FALSE]]
      BY <1>3 DEF CreateOrder
    <2> DEFINE pending == [order |-> o, status |-> "PENDING", price |-> 0, traded |-> FALSE]
               reply == IF AfterCreate(Want(r)) # "replied" THEN NoReply ELSE pending
    <2>2. AfterCreate(Want(r)) # "trade" /\ pending.order = o /\ pending.status = "PENDING"
      BY DEF AfterCreate
    <2>3. orders'[o] # NoOrder /\ keyOf'[o] = req[r].key
      <3> DEFINE doc == [ticket |-> Want(r), status |-> "PENDING", price |-> 0]
      <3>1. doc \in OrderDoc /\ doc # NoOrder
        BY <1>1, NoOrderAssumption DEF OrderDoc
      <3>2. QED
        BY <1>1, <2>1, <3>1 DEF NewOrder
    <2> HIDE DEF pending
    <2>4. /\ req'[r].pc = AfterCreate(Want(r)) /\ req'[r].key = req[r].key
          /\ req'[r].reply = reply
      <3>1. req' = [req EXCEPT ![r].order = o, ![r].pc = AfterCreate(Want(r)),
                               ![r].reply = reply]
        BY <2>1 DEF pending
      <3> HIDE DEF reply
      <3>2. QED
        BY <1>1, <3>1 DEF ReqState
    <2>5. QED
      BY <2>2, <2>3, <2>4 DEF Told, Names
  <1>4. QED
    BY <1>2, <1>3

LEMMA ToldByGuard ==
  ASSUME RepliesInv, Stand, NEW r \in Requests,
         GuardPrice(r) \/ ReadCash(r) \/ ReadPositions(r)
  PROVE  Told(r)'
  <1>1. /\ req \in [Requests -> ReqState] /\ req[r].reply = NoReply
        /\ UNCHANGED <<orders, keyOf, raced>> /\ Names(r, req[r].order)
    BY RepliesFacts
    DEF GuardPrice, ReadCash, ReadPositions, At, vars, db, history, Owns, Gating
  <1>2. ASSUME NEW pc \in {"refuse", "execute"}, Now(r, pc) PROVE Told(r)'
    <2>1. req'[r].reply = NoReply /\ req'[r].pc # "trade"
      BY <1>1, <1>2 DEF Now, ReqState
    <2>2. QED
      BY <2>1, Unsaid
  <1>3. CASE GuardPrice(r)
    <2>1. ASSUME NEW p, req' = [req EXCEPT ![r].price = p, ![r].pc = "cash"]
          PROVE  Told(r)'
      <3>1. req'[r].reply = NoReply /\ req'[r].pc # "trade"
        BY <1>1, <2>1 DEF ReqState
      <3>2. QED
        BY <3>1, Unsaid
    <2>2. QED
      BY <1>2, <1>3, <2>1 DEF GuardPrice
  <1>4. CASE ReadCash(r)
    <2> DEFINE funded == req[r].price * Want(r).qty <= cash
    <2>1. req' = [req EXCEPT ![r].pc = "positions", ![r].funded = funded]
      BY <1>4 DEF ReadCash
    <2> HIDE DEF funded
    <2>2. req'[r].reply = NoReply /\ req'[r].pc # "trade"
      BY <1>1, <2>1 DEF ReqState
    <2>3. QED
      BY <2>2, Unsaid
  <1>5. CASE ReadPositions(r)
    <2>1. CASE Now(r, "execute") \/ Now(r, "refuse")
      BY <1>2, <2>1
    <2>2. CASE ~(Now(r, "execute") \/ Now(r, "refuse"))
      <3> DEFINE reply == [order |-> req[r].order, status |-> "PENDING", price |-> 0,
                           traded |-> FALSE]
      <3>1. req' = [req EXCEPT ![r].pc = "replied", ![r].reply = reply]
        BY <1>5, <2>2 DEF ReadPositions
      <3>2. reply.order = req[r].order /\ reply.status # "EXECUTED"
        OBVIOUS
      <3> HIDE DEF reply
      <3>3. req'[r].pc = "replied" /\ req'[r].reply = reply /\ req'[r].key = req[r].key
        BY <1>1, <3>1 DEF ReqState
      <3>4. QED
        BY <1>1, <3>2, <3>3 DEF Told, Names
    <2>3. QED
      BY <2>1, <2>2
  <1>6. QED
    BY <1>3, <1>4, <1>5

LEMMA ToldByFilled ==
  ASSUME RepliesInv, Stand, NEW r \in Requests, Filled(r)
  PROVE  Told(r)'
  <1>1. /\ req \in [Requests -> ReqState] /\ req[r].reply = NoReply
        /\ UNCHANGED <<orders, keyOf, raced>> /\ Names(r, req[r].order) /\ r \in Calls
    BY RepliesFacts, OrderPlacementAssumption DEF Filled, At, vars, db, history, Owns
  <1>2. CASE Now(r, "error")
    <2>1. req'[r].reply = NoReply /\ req'[r].pc # "trade"
      BY <1>1, <1>2 DEF Now, ReqState
    <2>2. QED
      BY <2>1, Unsaid
  <1>3. CASE ~Now(r, "error")
    <2>1. /\ call[r].pc = "done"
          /\ req' = [req EXCEPT ![r].pc = "replied",
               ![r].reply = [order |-> req[r].order, status |-> "EXECUTED",
                             price |-> call[r].price, traded |-> TRUE]]
      BY <1>3 DEF Filled
    <2>2. call[r].order = req[r].order
      <3>1. call[r].order \in Orders
        BY <1>1, <2>1, SettledFacts DEF RepliesInv, SettledInv, TradeMeansPaid
      <3>2. QED
        BY <3>1, OrderExecutionAssumption DEF RepliesInv, RunsItsOwn
    <2>3. req[r].order \notin raced => Reports(req[r].order, call[r].price)
      BY <1>1, <2>1, <2>2 DEF RepliesInv, DoneStands
    <2>4. QED
      BY <1>1, <2>1, <2>3, Said
  <1>4. QED
    BY <1>2, <1>3

LEMMA ToldNext ==
  ASSUME RepliesInv, [PlacementNext]_pvars, NEW r \in Requests
  PROVE  Told(r)'
  <1>1. Stand /\ req \in [Requests -> ReqState]
    BY OrdersStand, RepliesFacts DEF RepliesInv
  <1>2. CASE req'[r] = req[r]
    BY <1>1, <1>2, Unsaid
  <1>3. CASE ProcessCrash
    <2>1. req'[r] = req[r] \/ (req[r].pc \in ReqWaiting /\ req'[r] = [req[r] EXCEPT !.pc = "lost"])
      BY <1>3 DEF ProcessCrash
    <2>2. req'[r] = req[r] \/ (req'[r].reply = NoReply /\ req'[r].pc # "trade")
      BY <1>1, <2>1, RepliesFacts DEF ReqState, ReqWaiting
    <2>3. QED
      BY <1>1, <2>2, Unsaid
  <1>4. ASSUME NEW q \in Requests, Submit(q) \/ Place1(q) \/ RequestFault(q), q # r
        PROVE  Told(r)'
    BY <1>1, <1>2, <1>4, StaysWithin
  <1>5. CASE Submit(r)
    <2>1. PICK t \in Tickets, k \in Keys \cup {NoKey} :
            req' = [req EXCEPT ![r].ticket = t, ![r].key = k,
                               ![r].pc = IF k = NoKey THEN "create" ELSE "check"]
      BY <1>5 DEF Submit
    <2>2. req[r].reply = NoReply
      BY <1>5, RepliesFacts DEF Submit, At
    <2>3. req'[r].reply = NoReply /\ req'[r].pc # "trade"
      BY <1>1, <2>1, <2>2 DEF ReqState
    <2>4. QED
      BY <1>1, <2>3, Unsaid
  <1>6. CASE Refuse(r) \/ Execute(r) \/ RequestFault(r)
    <2>1. (Now(r, "error") \/ Now(r, "filling")) /\ req[r].pc # "replied"
      BY <1>6 DEF Refuse, Execute, RequestFault, At, ReqWaiting
    <2>2. req'[r].reply = NoReply /\ req'[r].pc # "trade"
      BY <1>1, <2>1, RepliesFacts DEF Now, ReqState
    <2>3. QED
      BY <1>1, <2>2, Unsaid
  <1>7. CASE Place1(r)
    BY <1>1, <1>6, <1>7, ToldByFind, ToldByCreate, ToldByGuard, ToldByFilled DEF Place1
  <1>8. CASE UNCHANGED req
    BY <1>2, <1>8
  <1>9. QED
    BY <1>3, <1>4, <1>5, <1>6, <1>7, <1>8
    DEF PlacementNext, PutExecute, pvars, placement

LEMMA OwnOrderNext ==
  ASSUME RepliesInv, [PlacementNext]_pvars, NEW r \in Requests
  PROVE  RunsItsOwn(r)'
  <1>1. /\ req \in [Requests -> ReqState] /\ Inv /\ r \in Calls /\ RunsItsOwn(r) /\ ReqOK(r)
        /\ call \in [Calls -> CallState]
    BY RepliesFacts, SettledFacts DEF RepliesInv, SettledInv, PlaceInv
  <1>2. ASSUME call'[r].order = call[r].order, Started(r) => Started(r)',
               Started(r) => req'[r].order = req[r].order
        PROVE  RunsItsOwn(r)'
    BY <1>1, <1>2 DEF RunsItsOwn
  <1>3. ASSUME NEW q \in Requests, Submit(q) \/ Place1(q) \/ RequestFault(q)
        PROVE  Started(r) => req'[r].order = req[r].order
    <2>1. CASE q # r
      BY <1>1, <1>3, <2>1, StaysWithin
    <2>2. CASE q = r
      <3> SUFFICES ASSUME req[r].pc \in {"filling", "replied", "error", "lost"}
                   PROVE  req'[r].order = req[r].order
        BY <1>1 DEF ReqOK
      <3>1. Filled(r) \/ RequestFault(r)
        BY <1>3, <2>2 DEF Submit, Place1, FindByKey, FindTrade, CreateOrder, GuardPrice, ReadCash,
           ReadPositions, Refuse, Execute, At
      <3>2. CASE Now(r, "error")
        BY <1>1, <3>2 DEF Now, ReqState
      <3>3. CASE ~Now(r, "error")
        <4>1. req' = [req EXCEPT ![r].pc = "replied",
                ![r].reply = [order |-> req[r].order, status |-> "EXECUTED",
                              price |-> call[r].price, traded |-> TRUE]]
          BY <3>1, <3>3 DEF Filled, RequestFault
        <4>2. QED
          BY <1>1, <4>1 DEF ReqState
      <3>4. QED
        BY <3>2, <3>3
    <2>3. QED
      BY <2>1, <2>2
  <1>4. ASSUME NEW q \in Requests, Execute(q) PROVE RunsItsOwn(r)'
    <2>1. /\ q \in Calls /\ req[q].order \in Orders /\ orders[req[q].order] # NoOrder
          /\ Start(q, req[q].order) /\ req' = [req EXCEPT ![q].pc = "filling"]
      BY <1>4, SettledFacts DEF Execute, At, Now, Claimed, RepliesInv
    <2>2. req'[r].order = req[r].order
      BY <1>1, <2>1 DEF ReqState
    <2>3. /\ q # r => call'[r] = call[r]
          /\ q = r => \/ call'[r].order = req[r].order /\ call'[r].pc = "quote"
                      \/ call'[r].order = call[r].order /\ call[r].pc = "idle"
      BY <1>1, <2>1, StartGives
    <2>4. QED
      BY <1>1, <2>2, <2>3 DEF RunsItsOwn, Started
  <1>5. ASSUME NEW q \in Requests, Submit(q) \/ Place1(q) \/ RequestFault(q), ~Execute(q)
        PROVE  RunsItsOwn(r)'
    <2>1. UNCHANGED call
      BY <1>5 DEF Submit, Place1, FindByKey, FindTrade, CreateOrder, GuardPrice, ReadCash,
         ReadPositions, Refuse, Filled, RequestFault, vars
    <2>2. QED
      BY <1>2, <1>3, <1>5, <2>1 DEF Started
  <1>6. ASSUME NEW c \in Calls, NEW o \in Orders, PutExecute(c, o) PROVE RunsItsOwn(r)'
    <2>1. call'[r] = call[r] /\ req' = req
      BY <1>1, <1>6, StartGives DEF PutExecute
    <2>2. QED
      BY <1>2, <2>1 DEF Started
  <1>7. ASSUME NEW c \in Calls, Step(c) \/ Fault(c), UNCHANGED placement PROVE RunsItsOwn(r)'
    BY <1>1, <1>2, <1>7, EngineKeeps DEF placement
  <1>8. CASE ProcessCrash
    <2>1. /\ call'[r] = call[r] \/ call'[r] = [call[r] EXCEPT !.pc = "crashed"]
          /\ req'[r] = req[r] \/ req'[r] = [req[r] EXCEPT !.pc = "lost"]
      BY <1>1, <1>8 DEF ProcessCrash
    <2>2. QED
      BY <1>1, <1>2, <2>1 DEF CallState, ReqState, Started
  <1>9. CASE UNCHANGED pvars
    BY <1>2, <1>9 DEF pvars, vars, placement, Started
  <1>10. QED
    BY <1>4, <1>5, <1>6, <1>7, <1>8, <1>9 DEF PlacementNext, Place1

LEMMA DoneNext ==
  ASSUME RepliesInv, [PlacementNext]_pvars, NEW c \in Calls
  PROVE  DoneStands(c)'
  <1>1. /\ Stand /\ DoneStands(c) /\ SettledInv /\ Inv
        /\ call \in [Calls -> CallState]
    BY OrdersStand, SettledFacts DEF RepliesInv
  <1>2. call[c].pc = "done" => call[c].order \in Orders /\ orders[call[c].order] # NoOrder
    BY SettledFacts, <1>1 DEF TradeMeansPaid, SettledInv, Parts
  <1>3. ASSUME call'[c] = call[c] \/ call'[c].pc # "done" PROVE DoneStands(c)'
    BY <1>1, <1>2, <1>3 DEF DoneStands, Reports, Stand
  <1>4. ASSUME NEW d \in Calls, Step(d) \/ Fault(d), UNCHANGED placement PROVE DoneStands(c)'
    <2>1. CASE c # d
      BY <1>1, <1>3, <1>4, <2>1, StepStaysHome
    <2>2. CASE c = d /\ call'[c].pc = "done"
      <3>1. call'[c].order = call[c].order
        BY <1>1, <1>4, <2>2, EngineKeeps
      <3>2. QED
        BY <1>1, <1>4, <2>2, <3>1, DoneByCommit, CommitMarks DEF DoneStands, Reports
    <2>3. QED
      BY <1>3, <2>1, <2>2
  <1>5. ASSUME NEW d \in Calls, NEW o \in Orders, Start(d, o), orders[o] # NoOrder
        PROVE  DoneStands(c)'
    BY <1>1, <1>3, <1>5, StartGives
  <1>6. ASSUME NEW q \in Requests, Execute(q) PROVE DoneStands(c)'
    BY <1>1, <1>5, <1>6, SettledFacts DEF Execute, At, Claimed
  <1>7. ASSUME NEW q \in Requests, Submit(q) \/ Place1(q) \/ RequestFault(q), ~Execute(q)
        PROVE  UNCHANGED call
    BY <1>7 DEF Submit, Place1, FindByKey, FindTrade, CreateOrder, GuardPrice, ReadCash,
       ReadPositions, Refuse, Filled, RequestFault, vars
  <1>8. CASE ProcessCrash
    BY <1>1, <1>3, <1>8 DEF ProcessCrash, CallState
  <1>9. CASE UNCHANGED pvars
    BY <1>3, <1>9 DEF pvars, vars
  <1>10. QED
    BY <1>3, <1>4, <1>5, <1>6, <1>7, <1>8, <1>9 DEF PlacementNext, Place1, PutExecute

LEMMA TradeForExecuted ==
  ASSUME RepliesInv, [PlacementNext]_pvars
  PROVE  ExecutedHasTrade'
  <1>1. Inv /\ TradeMeansPaid /\ ExecutedHasTrade /\ SettledInv
    BY SettledFacts DEF RepliesInv, SettledInv
  <1>2. CASE [Next]_vars
    BY <1>1, <1>2, ExecutedNext
  <1>3. CASE UNCHANGED <<orders, trades>>
    BY <1>1, <1>3 DEF ExecutedHasTrade
  <1>4. ASSUME NEW r \in Requests, Refuse(r) PROVE ExecutedHasTrade'
    <2>1. /\ orders' = [orders EXCEPT ![req[r].order].status = "REJECTED"]
          /\ UNCHANGED trades
      BY <1>4 DEF Refuse
    <2>2. ASSUME NEW o \in Orders, orders'[o] # NoOrder, orders'[o].status = "EXECUTED"
          PROVE  orders'[o] = orders[o]
      BY <1>1, <2>1, <2>2, SettledFacts DEF OrderDoc
    <2>3. QED
      BY <1>1, <2>1, <2>2 DEF ExecutedHasTrade
  <1>5. ASSUME NEW r \in Requests, CreateOrder(r) PROVE ExecutedHasTrade'
    <2>1. UNCHANGED trades
      BY <1>5 DEF CreateOrder
    <2>2. CASE UNCHANGED orders
      BY <1>3, <2>1, <2>2
    <2>3. CASE ~UNCHANGED orders
      <3>1. PICK o \in Orders : NewOrder(o, Want(r))
        BY <1>5, <2>3 DEF CreateOrder
      <3>2. ASSUME NEW p \in Orders, orders'[p].status = "EXECUTED"
            PROVE  orders'[p] = orders[p]
        BY <1>1, <3>1, <3>2, SettledFacts DEF NewOrder
      <3>3. QED
        BY <1>1, <2>1, <3>2 DEF ExecutedHasTrade
    <2>4. QED
      BY <2>2, <2>3
  <1>6. ASSUME NEW r \in Requests, Execute(r) PROVE UNCHANGED <<orders, trades>>
    BY <1>6 DEF Execute, Start, db
  <1>7. ASSUME NEW c \in Calls, NEW o \in Orders, PutExecute(c, o)
        PROVE  UNCHANGED <<orders, trades>>
    BY <1>7 DEF PutExecute, Start, db
  <1>8. ASSUME NEW r \in Requests,
               FindByKey(r) \/ FindTrade(r) \/ GuardPrice(r) \/ ReadCash(r) \/ ReadPositions(r)
                 \/ Filled(r) \/ Submit(r) \/ RequestFault(r)
        PROVE  UNCHANGED <<orders, trades>>
    BY <1>1, <1>8, Yields
  <1>9. CASE ProcessCrash \/ UNCHANGED pvars
    BY <1>3, <1>9 DEF ProcessCrash, db, pvars, vars
  <1>10. QED
    BY <1>2, <1>3, <1>4, <1>5, <1>6, <1>7, <1>8, <1>9 DEF PlacementNext, Place1, Next

LEMMA RepliesNext == RepliesInv /\ [PlacementNext]_pvars => RepliesInv'
  BY SettledNext, ToldNext, OwnOrderNext, DoneNext, TradeForExecuted DEF RepliesInv

(* For any repeats of any keys, all answers to a key name one order, and   *)
(* an answer that says EXECUTED carries the trade and the price that the   *)
(* stored order reports, from then on, unless a PUT raced the order        *)
(* (findByClientOrderId 118-135, placementResult).                         *)
THEOREM AnswersAreTrue == PlacementSpec => []RepliesAreTrue
  <1>1. RepliesInv => RepliesAreTrue
    <2> SUFFICES ASSUME RepliesInv, NEW q \in Requests, NEW r \in Requests,
                        req[q].reply # NoReply, req[r].reply # NoReply
                 PROVE  /\ (req[q].key = req[r].key /\ req[q].key # NoKey) =>
                             req[q].reply.order = req[r].reply.order
                        /\ (req[q].reply.status = "EXECUTED"
                              /\ req[q].reply.order \notin raced) =>
                             /\ req[q].reply.traded
                             /\ orders[req[q].reply.order].status = "EXECUTED"
                             /\ orders[req[q].reply.order].price = req[q].reply.price
      BY DEF RepliesAreTrue
    <2>1. /\ Names(q, req[q].reply.order) /\ Names(r, req[r].reply.order)
          /\ (req[q].reply.status = "EXECUTED" /\ req[q].reply.order \notin raced) =>
               req[q].reply.traded /\ Reports(req[q].reply.order, req[q].reply.price)
      BY DEF RepliesInv, Told
    <2>2. (req[q].key = req[r].key /\ req[q].key # NoKey) =>
            req[q].reply.order = req[r].reply.order
      BY <2>1 DEF Names, RepliesInv, SettledInv, PlaceInv, KeysUnique
    <2>3. QED
      BY <2>1, <2>2 DEF Reports
  <1>2. QED
    BY <1>1, RepliesInit, RepliesNext, PTL DEF PlacementSpec
=============================================================================
