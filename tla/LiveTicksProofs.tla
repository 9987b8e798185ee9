-------------------------- MODULE LiveTicksProofs --------------------------
(***************************************************************************)
(* What holds of the gateway's bookkeeping for any number of clients,      *)
(* symbols, exchanges, messages, losses and restarts.                      *)
(*                                                                         *)
(* The counts are exact because every handler changes the watchers of a    *)
(* pair by one client at most, and changes the count by as much: the guard *)
(* of decrementWatcher (count <= 1) is equivalent to "this is the last     *)
(* watcher" only while the counts are exact, which is why the two facts    *)
(* are proved together.                                                    *)
(***************************************************************************)
EXTENDS LiveTicks, FiniteSetTheorems, TLAPS

GatewayType ==
  /\ connected \subseteq Clients
  /\ watching \in [Clients -> [Symbols -> Exchanges \cup {NoExchange}]]
  /\ counts \in [Pairs -> Nat]
  /\ rooms \in [Symbols -> SUBSET Clients]

CountOf(p) == Watchers(p) \subseteq connected /\ counts[p] = Cardinality(Watchers(p))

Inv == GatewayType /\ CountsExact

(* The watchers of a pair are finitely many.                               *)
LEMMA WatchersFinite ==
  ASSUME NEW p \in Pairs
  PROVE  IsFiniteSet(Watchers(p)) /\ Cardinality(Watchers(p)) \in Nat
  <1>1. Watchers(p) \in SUBSET Clients
    BY DEF Watchers
  <1>2. IsFiniteSet(Watchers(p))
    BY <1>1, FS_Subset, LiveTicksAssumption
  <1> QED
    BY <1>2, FS_CardinalityType

(* Taking one watcher off an exact count.                                  *)
LEMMA DecrementExact ==
  ASSUME NEW S, IsFiniteSet(S), NEW c \in S
  PROVE  Decremented(Cardinality(S)) = Cardinality(S \ {c})
  <1>1. Cardinality(S \ {c}) = Cardinality(S) - 1
    BY FS_RemoveElement
  <1>2. Cardinality(S) \in Nat /\ Cardinality(S \ {c}) \in Nat
    BY FS_CardinalityType, FS_RemoveElement
  <1> QED
    BY <1>1, <1>2, SMT DEF Decremented, LastWatcher

(* A pair whose watchers and count a step leaves alone stays exact.        *)
LEMMA UntouchedPair ==
  ASSUME NEW p \in Pairs, CountOf(p), connected \subseteq connected',
         Watchers(p)' = Watchers(p), counts'[p] = counts[p]
  PROVE  CountOf(p)'
  BY DEF CountOf

(* A pair a client comes to watch.                                         *)
LEMMA GainedWatcher ==
  ASSUME NEW p \in Pairs, NEW c \in connected', CountOf(p),
         connected \subseteq connected', c \notin Watchers(p),
         Watchers(p)' = Watchers(p) \cup {c}, counts'[p] = counts[p] + 1
  PROVE  CountOf(p)'
  <1>1. Cardinality(Watchers(p) \cup {c}) = Cardinality(Watchers(p)) + 1
    BY WatchersFinite, FS_AddElement
  <1> QED
    BY <1>1 DEF CountOf

(* A pair a client stops watching.                                         *)
LEMMA LostWatcher ==
  ASSUME NEW p \in Pairs, NEW c \in Watchers(p), CountOf(p),
         connected \ {c} \subseteq connected',
         Watchers(p)' = Watchers(p) \ {c}, counts'[p] = Decremented(counts[p])
  PROVE  CountOf(p)'
  <1>1. Decremented(Cardinality(Watchers(p))) = Cardinality(Watchers(p) \ {c})
    BY WatchersFinite, DecrementExact
  <1> QED
    BY <1>1 DEF CountOf

(* A count that is decremented stays a natural number.                     *)
LEMMA DecrementedNat ==
  ASSUME NEW n \in Nat
  PROVE  Decremented(n) \in Nat
  BY SMT DEF Decremented, LastWatcher

(* Watching, pair by pair.                                                 *)
LEMMA WatchersOf ==
  ASSUME NEW p \in Pairs
  PROVE  /\ Watchers(p) = {c \in Clients : watching[c][p[1]] = p[2]}
         /\ Watchers(p)' = {c \in Clients : watching'[c][p[1]] = p[2]}
         /\ p[1] \in Symbols /\ p[2] \in Exchanges /\ p = <<p[1], p[2]>>
         /\ p[2] # NoExchange
  BY LiveTicksAssumption DEF Watchers, Watched, Pairs

-----------------------------------------------------------------------------
(* One client changes what it watches on one symbol, from old to new, and  *)
(* the counts follow.                                                      *)
LEMMA SwitchExact ==
  ASSUME Inv, NEW c \in connected', NEW s \in Symbols,
         NEW new \in Exchanges \cup {NoExchange}, watching[c][s] # new,
         connected' = connected,
         watching' = [watching EXCEPT ![c][s] = new],
         \A p \in Pairs : counts'[p] =
           IF p = <<s, watching[c][s]>> THEN Decremented(counts[p])
           ELSE IF p = <<s, new>> THEN counts[p] + 1 ELSE counts[p]
  PROVE  CountsExact'
  <1> SUFFICES ASSUME NEW p \in Pairs PROVE CountOf(p)'
    BY DEF CountsExact, CountOf
  <1>1. c \in Clients /\ CountOf(p)
    BY DEF Inv, GatewayType, CountsExact, CountOf
  <1>2. \A d \in Clients, t \in Symbols :
          watching'[d][t] = IF d = c /\ t = s THEN new ELSE watching[d][t]
    BY DEF Inv, GatewayType
  <1>3. CASE p = <<s, watching[c][s]>>
    <2>1. c \in Watchers(p) /\ Watchers(p)' = Watchers(p) \ {c}
      BY <1>1, <1>2, <1>3, WatchersOf
    <2> QED
      BY <2>1, <1>1, <1>3, LostWatcher
  <1>4. CASE p = <<s, new>> /\ p # <<s, watching[c][s]>>
    <2>1. c \notin Watchers(p) /\ Watchers(p)' = Watchers(p) \cup {c}
      BY <1>1, <1>2, <1>4, WatchersOf
    <2> QED
      BY <2>1, <1>1, <1>4, GainedWatcher
  <1>5. CASE p # <<s, new>> /\ p # <<s, watching[c][s]>>
    <2>1. Watchers(p)' = Watchers(p)
      <3>1. p[1] = s => p[2] # new /\ p[2] # watching[c][s]
        BY <1>5, WatchersOf
      <3>2. \A d \in Clients : watching'[d][p[1]] = p[2] <=> watching[d][p[1]] = p[2]
        BY <1>2, <3>1, WatchersOf
      <3> QED
        BY <3>2, WatchersOf
    <2>2. connected \subseteq connected' /\ counts'[p] = counts[p]
      BY <1>5
    <2> QED
      BY <2>1, <2>2, <1>1, UntouchedPair
  <1> QED
    BY <1>3, <1>4, <1>5

(* A subscription keeps the counts exact.                                  *)
LEMMA SubscribeExact ==
  ASSUME Inv, NEW c \in Clients, NEW s \in Symbols, NEW e \in Exchanges, Subscribe(c, s, e)
  PROVE  CountsExact'
  <1>1. CASE watching[c][s] = e
    <2>1. UNCHANGED <<connected, watching, counts>>
      BY <1>1 DEF Subscribe
    <2> QED
      BY <2>1 DEF Inv, CountsExact, Watchers, Watched
  <1>2. CASE watching[c][s] # e
    <2>1. /\ c \in connected' /\ connected' = connected
          /\ watching' = [watching EXCEPT ![c][s] = e]
      BY <1>2 DEF Subscribe
    <2>2. \A p \in Pairs : counts'[p] =
            IF p = <<s, watching[c][s]>> THEN Decremented(counts[p])
            ELSE IF p = <<s, e>> THEN counts[p] + 1 ELSE counts[p]
      <3> SUFFICES ASSUME NEW p \in Pairs
                   PROVE  counts'[p] =
                     IF p = <<s, watching[c][s]>> THEN Decremented(counts[p])
                     ELSE IF p = <<s, e>> THEN counts[p] + 1 ELSE counts[p]
        OBVIOUS
      <3>1. p = <<s, watching[c][s]>> => watching[c][s] # NoExchange
        BY WatchersOf
      <3> QED
        BY <1>2, <3>1 DEF Subscribe
    <2> QED
      BY <1>2, <2>1, <2>2, SwitchExact
  <1> QED
    BY <1>1, <1>2

(* So does an unsubscription, of the pair watched or of another.           *)
LEMMA UnsubscribeExact ==
  ASSUME Inv, NEW c \in Clients, NEW s \in Symbols, NEW e \in Exchanges, Unsubscribe(c, s, e)
  PROVE  CountsExact'
  <1>1. CASE watching[c][s] # e
    <2>1. UNCHANGED <<connected, watching, counts>>
      BY <1>1 DEF Unsubscribe
    <2> QED
      BY <2>1 DEF Inv, CountsExact, Watchers, Watched
  <1>2. CASE watching[c][s] = e
    <2>1. /\ c \in connected' /\ connected' = connected
          /\ watching' = [watching EXCEPT ![c][s] = NoExchange]
          /\ counts' = [counts EXCEPT ![<<s, e>>] = Decremented(@)]
      BY <1>2 DEF Unsubscribe
    <2>2. \A p \in Pairs : counts'[p] =
            IF p = <<s, watching[c][s]>> THEN Decremented(counts[p])
            ELSE IF p = <<s, NoExchange>> THEN counts[p] + 1 ELSE counts[p]
      <3> SUFFICES ASSUME NEW p \in Pairs
                   PROVE  counts'[p] =
                     IF p = <<s, watching[c][s]>> THEN Decremented(counts[p])
                     ELSE IF p = <<s, NoExchange>> THEN counts[p] + 1 ELSE counts[p]
        OBVIOUS
      <3>1. counts'[p] = IF p = <<s, e>> THEN Decremented(counts[p]) ELSE counts[p]
        BY <2>1 DEF Inv, GatewayType
      <3>2. p # <<s, NoExchange>>
        BY WatchersOf
      <3> QED
        BY <1>2, <3>1, <3>2
    <2>3. watching[c][s] # NoExchange /\ NoExchange \in Exchanges \cup {NoExchange}
      BY <1>2, LiveTicksAssumption
    <2>4. CountsExact'
      BY ONLY Inv, s \in Symbols, <2>1, <2>2, <2>3, SwitchExact
    <2> QED
      BY <2>4
  <1> QED
    BY <1>1, <1>2

(* So does a disconnection, which takes the client off all its pairs.      *)
LEMMA DisconnectExact ==
  ASSUME Inv, NEW c \in Clients, Disconnect(c)
  PROVE  CountsExact'
  <1> SUFFICES ASSUME NEW p \in Pairs PROVE CountOf(p)'
    BY DEF CountsExact, CountOf
  <1>1. CountOf(p)
    BY DEF Inv, CountsExact, CountOf
  <1>2. /\ connected' = connected \ {c}
        /\ watching' = [watching EXCEPT ![c] = [s \in Symbols |-> NoExchange]]
        /\ counts'[p] = IF p \in Watched(c) THEN Decremented(counts[p]) ELSE counts[p]
    BY DEF Disconnect
  <1>3. \A d \in Clients, t \in Symbols :
          watching'[d][t] = IF d = c THEN NoExchange ELSE watching[d][t]
    BY <1>2 DEF Inv, GatewayType
  <1>4. Watchers(p)' = Watchers(p) \ {c}
    BY <1>3, WatchersOf
  <1>5. CASE p \in Watched(c)
    <2>1. c \in Watchers(p)
      BY <1>5 DEF Watchers
    <2> QED
      BY <2>1, <1>1, <1>2, <1>4, <1>5, LostWatcher
  <1>6. CASE p \notin Watched(c)
    <2>1. c \notin Watchers(p)
      BY <1>6 DEF Watchers
    <2>2. Watchers(p)' = Watchers(p) /\ counts'[p] = counts[p]
      BY <2>1, <1>2, <1>4, <1>6
    <2> QED
      BY <2>1, <2>2, <1>1, <1>2 DEF CountOf
  <1> QED
    BY <1>5, <1>6

-----------------------------------------------------------------------------
(* What a client watches, with one symbol's exchange replaced.             *)
LEMMA WatchingReplaced ==
  ASSUME GatewayType, NEW c \in Clients, NEW s \in Symbols, NEW e \in Exchanges \cup {NoExchange}
  PROVE  [watching EXCEPT ![c][s] = e] \in [Clients -> [Symbols -> Exchanges \cup {NoExchange}]]
  <1>1. watching[c] \in [Symbols -> Exchanges \cup {NoExchange}]
    BY DEF GatewayType
  <1>2. [watching[c] EXCEPT ![s] = e] \in [Symbols -> Exchanges \cup {NoExchange}]
    BY <1>1
  <1>3. [watching EXCEPT ![c][s] = e] = [watching EXCEPT ![c] = [watching[c] EXCEPT ![s] = e]]
    OBVIOUS
  <1> QED
    BY <1>2, <1>3 DEF GatewayType

(* The gateway's maps keep their types over every step.                    *)
LEMMA GatewayTypeStep ==
  ASSUME GatewayType, [Next]_vars
  PROVE  GatewayType'
  <1>1. ASSUME NEW c \in Clients, Connect(c) PROVE GatewayType'
    BY <1>1 DEF Connect, GatewayType
  <1>2. ASSUME NEW c \in Clients, Disconnect(c) PROVE GatewayType'
    BY <1>2, DecrementedNat DEF Disconnect, GatewayType
  <1>3. ASSUME NEW c \in Clients, NEW s \in Symbols, NEW e \in Exchanges, Subscribe(c, s, e)
        PROVE  GatewayType'
    <2>1. connected' \subseteq Clients /\ rooms' \in [Symbols -> SUBSET Clients]
      BY <1>3 DEF Subscribe, GatewayType
    <2>2. watching' \in [Clients -> [Symbols -> Exchanges \cup {NoExchange}]]
      <3>1. watching' = watching \/ watching' = [watching EXCEPT ![c][s] = e]
        BY <1>3 DEF Subscribe
      <3> QED
        BY <3>1, WatchingReplaced DEF GatewayType
    <2>3. counts' \in [Pairs -> Nat]
      BY <1>3, DecrementedNat DEF Subscribe, GatewayType
    <2> QED
      BY <2>1, <2>2, <2>3 DEF GatewayType
  <1>4. ASSUME NEW c \in Clients, NEW s \in Symbols, NEW e \in Exchanges, Unsubscribe(c, s, e)
        PROVE  GatewayType'
    <2>1. connected' \subseteq Clients /\ rooms' \in [Symbols -> SUBSET Clients]
      BY <1>4 DEF Unsubscribe, GatewayType, RoomAfterUnsubscribe
    <2>2. watching' \in [Clients -> [Symbols -> Exchanges \cup {NoExchange}]]
      <3>1. watching' = watching \/ watching' = [watching EXCEPT ![c][s] = NoExchange]
        BY <1>4 DEF Unsubscribe
      <3> QED
        BY <3>1, WatchingReplaced DEF GatewayType
    <2>3. counts' \in [Pairs -> Nat]
      <3>1. \/ counts' = counts
            \/ counts' = [counts EXCEPT ![<<s, e>>] = Decremented(counts[<<s, e>>])]
        BY <1>4 DEF Unsubscribe
      <3>2. <<s, e>> \in Pairs
        BY DEF Pairs
      <3>3. Decremented(counts[<<s, e>>]) \in Nat
        BY <3>2, DecrementedNat DEF GatewayType
      <3> QED
        BY <3>1, <3>2, <3>3 DEF GatewayType
    <2> QED
      BY <2>1, <2>2, <2>3 DEF GatewayType
  <1>5. ASSUME ApiRestart PROVE GatewayType'
    BY <1>5 DEF ApiRestart, GatewayType
  <1>6. ASSUME Settle \/ UpstreamRestart \/ UNCHANGED vars PROVE GatewayType'
    BY <1>6 DEF Settle, Deliver, Lose, UpstreamRestart, vars, gateway, GatewayType
  <1> QED
    BY <1>1, <1>2, <1>3, <1>4, <1>5, <1>6 DEF Next, ClientStep

(* A step that leaves the sockets and the maps alone.                      *)
LEMMA UntouchedExact ==
  ASSUME Inv, UNCHANGED <<watching, counts>>, connected \subseteq connected'
  PROVE  CountsExact'
  BY DEF Inv, CountsExact, Watchers, Watched

(* The counts stay exact over every step.                                  *)
LEMMA CountsExactStep ==
  ASSUME Inv, [Next]_vars
  PROVE  CountsExact'
  <1>1. ASSUME NEW c \in Clients, Connect(c) PROVE CountsExact'
    BY <1>1, UntouchedExact DEF Connect
  <1>2. ASSUME NEW c \in Clients, Disconnect(c) PROVE CountsExact'
    BY <1>2, DisconnectExact
  <1>3. ASSUME NEW c \in Clients, NEW s \in Symbols, NEW e \in Exchanges, Subscribe(c, s, e)
        PROVE  CountsExact'
    BY <1>3, SubscribeExact
  <1>4. ASSUME NEW c \in Clients, NEW s \in Symbols, NEW e \in Exchanges, Unsubscribe(c, s, e)
        PROVE  CountsExact'
    BY <1>4, UnsubscribeExact
  <1>5. ASSUME ApiRestart PROVE CountsExact'
    <2>1. \A p \in Pairs : Watchers(p)' = {} /\ counts'[p] = 0
      BY <1>5, WatchersOf DEF ApiRestart
    <2> QED
      BY <2>1, FS_EmptySet DEF CountsExact
  <1>6. ASSUME Settle \/ UpstreamRestart \/ UNCHANGED vars PROVE CountsExact'
    BY <1>6, UntouchedExact DEF Settle, Deliver, Lose, UpstreamRestart, vars, gateway
  <1> QED
    BY <1>1, <1>2, <1>3, <1>4, <1>5, <1>6 DEF Next, ClientStep

(* The count of a pair is always the number of connected clients watching  *)
(* it (133-178, 208-241).                                                  *)
THEOREM CountsAreExact == Spec => []CountsExact
  <1>1. Init => Inv
    <2> SUFFICES ASSUME Init PROVE Inv
      OBVIOUS
    <2>1. GatewayType
      BY DEF Init, GatewayType
    <2>2. \A p \in Pairs : Watchers(p) = {} /\ counts[p] = 0
      BY WatchersOf DEF Init
    <2> QED
      BY <2>1, <2>2, FS_EmptySet DEF Inv, CountsExact
  <1>2. Inv /\ [Next]_vars => Inv'
    BY GatewayTypeStep, CountsExactStep DEF Inv
  <1>3. Inv => CountsExact
    BY DEF Inv
  <1> QED
    BY <1>1, <1>2, <1>3, PTL DEF Spec

-----------------------------------------------------------------------------
(* The members of a room keep watching its symbol, and a watcher is absent *)
(* from the room only after a stale unsubscription, over every step.       *)
LEMMA RoomFollowsWatchStep ==
  ASSUME GatewayType, RoomFollowsWatch, [Next]_vars
  PROVE  RoomFollowsWatch'
  <1> SUFFICES ASSUME NEW d \in Clients, NEW t \in Symbols
               PROVE  /\ d \in rooms'[t] => watching'[d][t] # NoExchange
                      /\ watching'[d][t] # NoExchange => d \in rooms'[t] \/ <<d, t>> \in misled'
    BY DEF RoomFollowsWatch
  <1> DEFINE Kept == /\ d \in rooms'[t] => watching'[d][t] # NoExchange
                     /\ watching'[d][t] # NoExchange => d \in rooms'[t] \/ <<d, t>> \in misled'
  <1>0. /\ d \in rooms[t] => watching[d][t] # NoExchange
        /\ watching[d][t] # NoExchange => d \in rooms[t] \/ <<d, t>> \in misled
    BY DEF RoomFollowsWatch
  <1>1. ASSUME NEW c \in Clients, Disconnect(c) PROVE Kept
    BY <1>0, <1>1 DEF Disconnect, GatewayType
  <1>2. ASSUME NEW c \in Clients, NEW s \in Symbols, NEW e \in Exchanges, Subscribe(c, s, e)
        PROVE  Kept
    <2>1. /\ rooms' = [rooms EXCEPT ![s] = @ \cup {c}]
          /\ misled' = misled \ {<<c, s>>}
      BY <1>2 DEF Subscribe
    <2>2. watching'[d][t] = IF d = c /\ t = s THEN e ELSE watching[d][t]
      BY <1>2 DEF Subscribe, GatewayType
    <2> QED
      BY <1>0, <2>1, <2>2, LiveTicksAssumption DEF GatewayType
  <1>3. ASSUME NEW c \in Clients, NEW s \in Symbols, NEW e \in Exchanges, Unsubscribe(c, s, e)
        PROVE  Kept
    <2>1. rooms' = [rooms EXCEPT ![s] = @ \ {c}]
      BY <1>3 DEF Unsubscribe, RoomAfterUnsubscribe
    <2>2. CASE watching[c][s] # e
      <3>1. watching' = watching /\ misled' = misled \cup {<<c, s>>}
        BY <1>3, <2>2 DEF Unsubscribe
      <3> QED
        BY <1>0, <2>1, <3>1 DEF GatewayType
    <2>3. CASE watching[c][s] = e
      <3>1. /\ watching'[d][t] = IF d = c /\ t = s THEN NoExchange ELSE watching[d][t]
            /\ misled' = misled \ {<<c, s>>}
        BY <1>3, <2>3 DEF Unsubscribe, GatewayType
      <3> QED
        BY <1>0, <2>1, <3>1 DEF GatewayType
    <2> QED
      BY <2>2, <2>3
  <1>4. ASSUME ApiRestart PROVE Kept
    BY <1>4 DEF ApiRestart
  <1>5. ASSUME \/ \E c \in Clients : Connect(c)
               \/ Settle \/ UpstreamRestart \/ UNCHANGED vars
        PROVE  Kept
    BY <1>0, <1>5 DEF Connect, Settle, Deliver, Lose, UpstreamRestart, vars, gateway
  <1> QED
    BY <1>1, <1>2, <1>3, <1>4, <1>5 DEF Next, ClientStep

(* A client in the room of a symbol always watches it; one that watches it *)
(* is in the room, or last unsubscribed from another exchange (217-228).   *)
THEOREM RoomsFollowWatches == Spec => []RoomFollowsWatch
  <1>1. Init => GatewayType /\ RoomFollowsWatch
    BY DEF Init, GatewayType, RoomFollowsWatch
  <1>2. GatewayType /\ RoomFollowsWatch /\ [Next]_vars => (GatewayType /\ RoomFollowsWatch)'
    BY GatewayTypeStep, RoomFollowsWatchStep
  <1> QED
    BY <1>1, <1>2, PTL DEF Spec

-----------------------------------------------------------------------------
(* The calls.  A call that is clean is alone on its pair, and asks for     *)
(* what the count says; so what it leaves behind is what the count says.   *)

Actions == {"subscribe", "unsubscribe"}

LEMMA SendTyped ==
  ASSUME TicksTypeOK, events < MaxEvents, NEW requests,
         DOMAIN requests \subseteq Pairs,
         \A p \in DOMAIN requests : requests[p] \in Actions,
         Send(requests)
  PROVE  calls' \subseteq Call
  <1>1. events + 1 \in 1..MaxEvents
    BY LiveTicksAssumption DEF TicksTypeOK
  <1>2. \A k \in calls : [k EXCEPT !.clean = FALSE] \in Call
    BY DEF TicksTypeOK, Call
  <1>3. ASSUME NEW p \in DOMAIN requests
        PROVE  [number |-> events + 1, action |-> requests[p], pair |-> p, tries |-> 2,
                clean |-> InFlight(p) = {}] \in Call
    BY <1>1 DEF Call, Actions
  <1>4. calls \subseteq Call
    BY DEF TicksTypeOK
  <1> QED
    BY <1>2, <1>3, <1>4 DEF Send

(* What a client's event does to the calls on a pair it does not concern,  *)
(* and on one it does.                                                     *)
LEMMA SendFlight ==
  ASSUME TicksTypeOK, NEW requests, Send(requests), NEW p \in Pairs
  PROVE  /\ p \notin DOMAIN requests => InFlight(p)' = InFlight(p)
         /\ p \in DOMAIN requests =>
              /\ InFlight(p)' # {}
              /\ \A k \in InFlight(p)' :
                   k.clean => InFlight(p)' = {k} /\ k.action = requests[p]
  <1> DEFINE soiled == {k \in calls : k.pair \in DOMAIN requests}
             made(q) == [number |-> events + 1, action |-> requests[q], pair |-> q,
                         tries |-> 2, clean |-> InFlight(q) = {}]
             dirty(k) == [k EXCEPT !.clean = FALSE]
  <1>1. calls' = (calls \ soiled) \cup {dirty(k) : k \in soiled}
                   \cup {made(q) : q \in DOMAIN requests}
    BY DEF Send
  <1>2. \A k \in calls : dirty(k).pair = k.pair /\ dirty(k).clean = FALSE
    BY DEF TicksTypeOK, Call
  <1>3. \A q : made(q).pair = q /\ (made(q).clean <=> InFlight(q) = {})
               /\ made(q).action = requests[q]
    OBVIOUS
  <1> HIDE DEF made, dirty
  <1>4. CASE p \notin DOMAIN requests
    BY <1>1, <1>2, <1>3, <1>4 DEF InFlight
  <1>5. CASE p \in DOMAIN requests
    <2>1. made(p) \in InFlight(p)'
      BY <1>1, <1>3, <1>5 DEF InFlight
    <2>2. ASSUME NEW k \in InFlight(p)'
          PROVE  k = made(p) \/ \E j \in InFlight(p) : k = dirty(j)
      <3>1. k \in calls' /\ k.pair = p
        BY DEF InFlight
      <3>2. CASE k \in calls \ soiled
        BY <1>5, <3>1, <3>2
      <3>3. CASE \E j \in soiled : k = dirty(j)
        BY <1>2, <3>1, <3>3 DEF InFlight
      <3>4. CASE \E q \in DOMAIN requests : k = made(q)
        BY <1>3, <3>1, <3>4
      <3> QED
        BY <1>1, <3>1, <3>2, <3>3, <3>4
    <2>3. ASSUME NEW k \in InFlight(p)', k.clean
          PROVE  InFlight(p)' = {k} /\ k.action = requests[p]
      <3>1. k = made(p)
        BY <1>2, <2>2, <2>3 DEF InFlight
      <3>2. InFlight(p) = {}
        BY <1>3, <2>3, <3>1
      <3> QED
        BY <1>3, <2>1, <2>2, <3>1, <3>2
    <2> QED
      BY <1>5, <2>1, <2>3
  <1> QED
    BY <1>4, <1>5

LiveOK(p) ==
  /\ \A k \in InFlight(p) :
       k.clean => InFlight(p) = {k} /\ (k.action = "subscribe" <=> counts[p] > 0)
  /\ p \notin disturbed /\ InFlight(p) = {} => (p \in live <=> counts[p] > 0)

(* An event of a client either leaves the calls on a pair alone, and that  *)
(* somebody watches it or not, or makes a call for what it changes.        *)
LEMMA EventFollowed ==
  ASSUME TicksTypeOK, NEW requests, Send(requests), NEW p \in Pairs, LiveOK(p),
         live' = live, disturbed' = disturbed,
         p \notin DOMAIN requests => (counts'[p] > 0 <=> counts[p] > 0),
         p \in DOMAIN requests => (requests[p] = "subscribe" <=> counts'[p] > 0)
  PROVE  LiveOK(p)'
  <1>1. CASE p \notin DOMAIN requests
    <2>1. InFlight(p)' = InFlight(p)
      BY <1>1, SendFlight
    <2> QED
      BY <1>1, <2>1 DEF LiveOK
  <1>2. CASE p \in DOMAIN requests
    BY <1>2, SendFlight DEF LiveOK
  <1> QED
    BY <1>1, <1>2

LEMMA SubscribeFollowed ==
  ASSUME TicksTypeOK, NEW c \in Clients, NEW s \in Symbols, NEW e \in Exchanges,
         Subscribe(c, s, e)
  PROVE  calls' \subseteq Call /\ \A p \in Pairs : LiveOK(p) => LiveOK(p)'
  <1> DEFINE old == watching[c][s]
             left == IF old = NoExchange THEN {} ELSE {<<s, old>>}
             asks == {q \in left : LastWatcher(counts[q])}
                       \cup {q \in {<<s, e>>} : FirstWatcher(counts[q] + 1)}
             requests == [p \in asks |-> IF p \in left THEN "unsubscribe" ELSE "subscribe"]
  <1>1. CASE old = e
    <2>1. calls' = calls /\ counts' = counts /\ live' = live /\ disturbed' = disturbed
      BY <1>1 DEF Subscribe
    <2> QED
      BY <2>1 DEF LiveOK, InFlight, TicksTypeOK
  <1>2. CASE old # e
    <2>1. /\ Send(requests) /\ live' = live /\ disturbed' = disturbed /\ events < MaxEvents
          /\ counts' = [p \in Pairs |->
               IF p \in left THEN Decremented(counts[p])
               ELSE IF p = <<s, e>> THEN counts[p] + 1 ELSE counts[p]]
      BY <1>2 DEF Subscribe, Happens
    <2>2. old \in Exchanges \cup {NoExchange}
      BY DEF TicksTypeOK
    <2>3. left \subseteq Pairs /\ <<s, e>> \in Pairs /\ <<s, e>> \notin left
      BY <1>2, <2>2 DEF Pairs
    <2>4. DOMAIN requests \subseteq Pairs /\ \A p \in DOMAIN requests : requests[p] \in Actions
      BY <2>3 DEF Actions
    <2>5. ASSUME NEW p \in Pairs
          PROVE  /\ p \notin DOMAIN requests => (counts'[p] > 0 <=> counts[p] > 0)
                 /\ p \in DOMAIN requests => (requests[p] = "subscribe" <=> counts'[p] > 0)
      <3>1. counts[p] \in Nat
        BY DEF TicksTypeOK
      <3>2. CASE p \in left
        <4>1. counts'[p] = Decremented(counts[p]) /\ (p \in asks <=> LastWatcher(counts[p]))
          BY <2>1, <2>3, <3>2
        <4> QED
          BY <3>1, <3>2, <4>1 DEF Decremented, LastWatcher
      <3>3. CASE p = <<s, e>>
        <4>1. counts'[p] = counts[p] + 1 /\ (p \in asks <=> FirstWatcher(counts[p] + 1))
              /\ p \notin left
          BY <2>1, <2>3, <3>3
        <4> QED
          BY <3>1, <4>1 DEF FirstWatcher
      <3>4. CASE p \notin left /\ p # <<s, e>>
        BY <2>1, <3>4
      <3> QED
        BY <3>2, <3>3, <3>4
    <2> HIDE DEF requests
    <2>6. calls' \subseteq Call
      BY <2>1, <2>4, SendTyped
    <2> QED
      BY <2>1, <2>5, <2>6, EventFollowed
  <1> QED
    BY <1>1, <1>2

LEMMA UnsubscribeFollowed ==
  ASSUME TicksTypeOK, NEW c \in Clients, NEW s \in Symbols, NEW e \in Exchanges,
         Unsubscribe(c, s, e)
  PROVE  calls' \subseteq Call /\ \A p \in Pairs : LiveOK(p) => LiveOK(p)'
  <1> DEFINE asks == {q \in {<<s, e>>} : LastWatcher(counts[q])}
             requests == [p \in asks |-> "unsubscribe"]
  <1>1. CASE watching[c][s] # e
    <2>1. calls' = calls /\ counts' = counts /\ live' = live /\ disturbed' = disturbed
      BY <1>1 DEF Unsubscribe
    <2> QED
      BY <2>1 DEF LiveOK, InFlight, TicksTypeOK
  <1>2. CASE watching[c][s] = e
    <2>1. /\ Send(requests) /\ live' = live /\ disturbed' = disturbed /\ events < MaxEvents
          /\ counts' = [counts EXCEPT ![<<s, e>>] = Decremented(counts[<<s, e>>])]
      BY <1>2 DEF Unsubscribe, Happens
    <2>2. <<s, e>> \in Pairs
      BY DEF Pairs
    <2>3. DOMAIN requests \subseteq Pairs /\ \A p \in DOMAIN requests : requests[p] \in Actions
      BY <2>2 DEF Actions
    <2>4. ASSUME NEW p \in Pairs
          PROVE  /\ p \notin DOMAIN requests => (counts'[p] > 0 <=> counts[p] > 0)
                 /\ p \in DOMAIN requests => (requests[p] = "subscribe" <=> counts'[p] > 0)
      <3>1. counts[p] \in Nat /\ counts \in [Pairs -> Nat]
        BY DEF TicksTypeOK
      <3>2. CASE p = <<s, e>>
        <4>1. counts'[p] = Decremented(counts[p]) /\ (p \in asks <=> LastWatcher(counts[p]))
          BY <2>1, <3>1, <3>2
        <4> QED
          BY <3>1, <4>1 DEF Decremented, LastWatcher
      <3>3. CASE p # <<s, e>>
        BY <2>1, <3>1, <3>3
      <3> QED
        BY <3>2, <3>3
    <2> HIDE DEF requests
    <2>5. calls' \subseteq Call
      BY <2>1, <2>3, SendTyped
    <2> QED
      BY <2>1, <2>4, <2>5, EventFollowed
  <1> QED
    BY <1>1, <1>2

LEMMA DisconnectFollowed ==
  ASSUME TicksTypeOK, NEW c \in Clients, Disconnect(c)
  PROVE  calls' \subseteq Call /\ \A p \in Pairs : LiveOK(p) => LiveOK(p)'
  <1> DEFINE asks == {q \in Watched(c) : LastWatcher(counts[q])}
             requests == [p \in asks |-> "unsubscribe"]
  <1>1. /\ Send(requests) /\ live' = live /\ disturbed' = disturbed /\ events < MaxEvents
        /\ counts' = [p \in Pairs |->
             IF p \in Watched(c) THEN Decremented(counts[p]) ELSE counts[p]]
    BY DEF Disconnect, Happens
  <1>2. DOMAIN requests \subseteq Pairs /\ \A p \in DOMAIN requests : requests[p] \in Actions
    BY DEF Actions, Watched
  <1>3. ASSUME NEW p \in Pairs
        PROVE  /\ p \notin DOMAIN requests => (counts'[p] > 0 <=> counts[p] > 0)
               /\ p \in DOMAIN requests => (requests[p] = "subscribe" <=> counts'[p] > 0)
    <2>1. counts[p] \in Nat
      BY DEF TicksTypeOK
    <2> QED
      BY <1>1, <2>1 DEF Decremented, LastWatcher
  <1> HIDE DEF requests
  <1>4. calls' \subseteq Call
    BY <1>1, <1>2, SendTyped
  <1> QED
    BY <1>1, <1>3, <1>4, EventFollowed

LEMMA SettleFollowed ==
  ASSUME TicksTypeOK, NEW k \in calls, Deliver(k) \/ Lose(k)
  PROVE  calls' \subseteq Call /\ \A p \in Pairs : LiveOK(p) => LiveOK(p)'
  <1> DEFINE again == [k EXCEPT !.tries = 1]
  <1>1. /\ k \in Call /\ calls \subseteq Call /\ counts' = counts
        /\ disturbed \subseteq disturbed' \cup {k.pair}
        /\ live' \in {live, Applied(k)}
    BY DEF TicksTypeOK, Deliver, Lose, gateway
  <1>2. /\ again \in Call /\ again.pair = k.pair /\ again.clean = k.clean
        /\ again.action = k.action
    BY <1>1 DEF Call
  <1> HIDE DEF again
  <1>3. \/ calls' = (calls \ {k}) \cup {again} /\ disturbed' = disturbed
        \/ calls' = calls \ {k} /\ k.pair \in disturbed'
        \/ calls' = calls \ {k} /\ k.clean /\ live' = Applied(k)
    BY DEF Deliver, Lose, again
  <1>4. calls' \subseteq Call
    BY <1>1, <1>2, <1>3
  <1>5. ASSUME NEW p \in Pairs, LiveOK(p) PROVE LiveOK(p)'
    <2>1. CASE p # k.pair
      <3>1. InFlight(p)' = InFlight(p)
        BY <1>2, <1>3, <2>1 DEF InFlight
      <3>2. p \in live' <=> p \in live
        BY <1>1, <2>1 DEF Applied
      <3> QED
        BY <1>1, <1>5, <2>1, <3>1, <3>2 DEF LiveOK
    <2>2. CASE p = k.pair
      <3>1. k \in InFlight(p)
        BY <2>2 DEF InFlight
      <3>2. CASE calls' = (calls \ {k}) \cup {again}
        <4>1. InFlight(p)' = (InFlight(p) \ {k}) \cup {again}
          BY <1>2, <2>2, <3>2 DEF InFlight
        <4> QED
          BY <1>1, <1>2, <1>5, <3>1, <4>1 DEF LiveOK
      <3>3. CASE calls' = calls \ {k} /\ k.pair \in disturbed'
        <4>1. InFlight(p)' = InFlight(p) \ {k}
          BY <3>3 DEF InFlight
        <4> QED
          BY <1>1, <1>5, <2>2, <3>1, <3>3, <4>1 DEF LiveOK
      <3>4. CASE calls' = calls \ {k} /\ k.clean /\ live' = Applied(k)
        <4>1. InFlight(p)' = InFlight(p) \ {k} /\ InFlight(p) = {k}
              /\ (k.action = "subscribe" <=> counts[p] > 0)
          BY <1>5, <3>1, <3>4 DEF LiveOK, InFlight
        <4>2. p \in live' <=> k.action = "subscribe"
          BY <2>2, <3>4 DEF Applied
        <4> QED
          BY <1>1, <4>1, <4>2 DEF LiveOK
      <3> QED
        BY <1>3, <3>2, <3>3, <3>4
    <2> QED
      BY <2>1, <2>2
  <1> QED
    BY <1>4, <1>5

LiveInv == TicksTypeOK /\ \A p \in Pairs : LiveOK(p)

LEMMA LiveInit == Init => LiveInv
  <1> SUFFICES ASSUME Init PROVE LiveInv
    OBVIOUS
  <1>1. TicksTypeOK
    BY LiveTicksAssumption DEF Init, TicksTypeOK
  <1>2. \A p \in Pairs : InFlight(p) = {} /\ p \notin live /\ counts[p] = 0
    BY DEF Init, InFlight
  <1> QED
    BY <1>1, <1>2 DEF LiveInv, LiveOK

(* The counters stay within their bounds, and the history speaks of        *)
(* clients and symbols.                                                    *)
HistoryType ==
  /\ events \in 0..MaxEvents /\ losses \in 0..MaxLosses /\ restarts \in 0..MaxRestarts
  /\ misled \subseteq Clients \X Symbols

LEMMA HistoryTyped == ASSUME TicksTypeOK, [Next]_vars PROVE HistoryType'
  <1>1. HistoryType /\ MaxEvents \in Nat /\ MaxLosses \in Nat /\ MaxRestarts \in Nat
    BY LiveTicksAssumption DEF TicksTypeOK, HistoryType
  <1>2. ASSUME NEW c \in Clients, Connect(c) PROVE HistoryType'
    BY <1>1, <1>2 DEF Connect, bounds, HistoryType
  <1>3. ASSUME NEW c \in Clients, Disconnect(c) PROVE HistoryType'
    BY <1>1, <1>3 DEF Disconnect, Happens, HistoryType
  <1>4. ASSUME NEW c \in Clients, NEW s \in Symbols, NEW e \in Exchanges, Subscribe(c, s, e)
        PROVE  HistoryType'
    <2>1. events < MaxEvents /\ events' = events + 1 /\ losses' = losses
          /\ restarts' = restarts /\ misled' = misled \ {<<c, s>>}
      BY <1>4 DEF Subscribe, Happens
    <2> QED
      BY <1>1, <2>1 DEF HistoryType
  <1>5. ASSUME NEW c \in Clients, NEW s \in Symbols, NEW e \in Exchanges, Unsubscribe(c, s, e)
        PROVE  HistoryType'
    <2>1. events < MaxEvents /\ events' = events + 1 /\ losses' = losses
          /\ restarts' = restarts /\ misled' \subseteq misled \cup {<<c, s>>}
      BY <1>5 DEF Unsubscribe, Happens
    <2> QED
      BY <1>1, <2>1 DEF HistoryType
  <1>6. ASSUME NEW k \in calls, Deliver(k) \/ Lose(k) PROVE HistoryType'
    BY <1>1, <1>6 DEF Deliver, Lose, bounds, HistoryType
  <1>7. ASSUME UpstreamRestart \/ ApiRestart PROVE HistoryType'
    BY <1>1, <1>7 DEF UpstreamRestart, ApiRestart, HistoryType
  <1>8. ASSUME UNCHANGED vars PROVE HistoryType'
    BY <1>1, <1>8 DEF vars, bounds, HistoryType
  <1> QED
    BY <1>2, <1>3, <1>4, <1>5, <1>6, <1>7, <1>8 DEF Next, ClientStep, Settle

LEMMA LiveNext == ASSUME LiveInv, [Next]_vars PROVE LiveInv'
  <1>1. TicksTypeOK /\ GatewayType'
    BY GatewayTypeStep DEF LiveInv, TicksTypeOK, GatewayType
  <1>2. /\ events' \in 0..MaxEvents /\ losses' \in 0..MaxLosses
        /\ restarts' \in 0..MaxRestarts /\ misled' \subseteq Clients \X Symbols
    BY HistoryTyped DEF LiveInv, HistoryType
  <1>4. live' \subseteq Pairs /\ disturbed' \subseteq Pairs
    <2>1. \A k \in calls : k.pair \in Pairs
      BY <1>1 DEF TicksTypeOK, Call
    <2>2. ASSUME ClientStep \/ UNCHANGED vars PROVE live' = live /\ disturbed' = disturbed
      <3>1. ASSUME NEW c \in Clients, Connect(c) \/ Disconnect(c)
            PROVE  live' = live /\ disturbed' = disturbed
        BY <3>1 DEF Connect, Disconnect
      <3>2. ASSUME NEW c \in Clients, NEW s \in Symbols, NEW e \in Exchanges,
                   Subscribe(c, s, e) \/ Unsubscribe(c, s, e)
            PROVE  live' = live /\ disturbed' = disturbed
        BY <3>2 DEF Subscribe, Unsubscribe
      <3> QED
        BY <2>2, <3>1, <3>2 DEF ClientStep, vars
    <2>3. ASSUME Settle PROVE live' \subseteq Pairs /\ disturbed' \subseteq Pairs
      BY <1>1, <2>1, <2>3 DEF Settle, Deliver, Lose, Applied, TicksTypeOK
    <2>4. ASSUME UpstreamRestart \/ ApiRestart
          PROVE  live' \subseteq Pairs /\ disturbed' \subseteq Pairs
      BY <1>1, <2>1, <2>4 DEF UpstreamRestart, ApiRestart, ActiveSymbols, TicksTypeOK
    <2> QED
      BY <1>1, <2>2, <2>3, <2>4 DEF Next, TicksTypeOK
  <1>5. calls' \subseteq Call /\ \A p \in Pairs : LiveOK(p)'
    <2>1. \A p \in Pairs : LiveOK(p)
      BY DEF LiveInv
    <2>2. ASSUME NEW c \in Clients, Connect(c)
          PROVE  calls' \subseteq Call /\ \A p \in Pairs : LiveOK(p)'
      BY <1>1, <2>1, <2>2 DEF Connect, LiveOK, InFlight, TicksTypeOK
    <2>3. CASE UNCHANGED vars
      BY <1>1, <2>1, <2>3 DEF vars, gateway, LiveOK, InFlight, TicksTypeOK
    <2>4. CASE UpstreamRestart
      <3>1. \A p \in Pairs : InFlight(p)' = InFlight(p)
        BY <2>4 DEF UpstreamRestart, InFlight
      <3> QED
        BY <1>1, <2>1, <2>4, <3>1
        DEF UpstreamRestart, ActiveSymbols, LiveOK, gateway, TicksTypeOK
    <2>5. CASE ApiRestart
      <3>1. \A p \in Pairs : InFlight(p)' = {} /\ counts'[p] = 0
        BY <2>5 DEF ApiRestart, InFlight
      <3> QED
        BY <2>5, <3>1 DEF ApiRestart, LiveOK
    <2>6. CASE Settle
      BY <1>1, <2>1, <2>6, SettleFollowed DEF Settle
    <2>7. ASSUME NEW c \in Clients, Disconnect(c)
          PROVE  calls' \subseteq Call /\ \A p \in Pairs : LiveOK(p)'
      BY <1>1, <2>1, <2>7, DisconnectFollowed
    <2>8. ASSUME NEW c \in Clients, NEW s \in Symbols, NEW e \in Exchanges,
                 Subscribe(c, s, e) \/ Unsubscribe(c, s, e)
          PROVE  calls' \subseteq Call /\ \A p \in Pairs : LiveOK(p)'
      BY <1>1, <2>1, <2>8, SubscribeFollowed, UnsubscribeFollowed
    <2> QED
      BY <2>2, <2>3, <2>4, <2>5, <2>6, <2>7, <2>8 DEF Next, ClientStep
  <1> QED
    BY <1>1, <1>2, <1>4, <1>5 DEF LiveInv, TicksTypeOK, GatewayType

LEMMA LiveInvariant == Spec => []LiveInv
  BY LiveInit, LiveNext, PTL DEF Spec

(* Every reachable state of the gateway, its calls and the signals         *)
(* service's set of pairs is well-typed (signals.gateway.ts:40-251).       *)
THEOREM TicksTypeCorrect == Spec => []TicksTypeOK
  <1>1. LiveInv => TicksTypeOK
    BY DEF LiveInv
  <1> QED
    BY <1>1, LiveInvariant, PTL

(* With no call on a pair in flight, it is streamed exactly if it is       *)
(* watched, unless its last calls overlapped, failed or were cut off by a  *)
(* restart of the API (171-177, 243-251; live-ticks-internal.controller).  *)
THEOREM StreamedIfWatched == Spec => []LiveFollowsCounts
  <1>1. LiveInv => LiveFollowsCounts
    BY DEF LiveInv, LiveOK, LiveFollowsCounts
  <1> QED
    BY <1>1, LiveInvariant, PTL

=============================================================================
