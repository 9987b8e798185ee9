----------------------------- MODULE LiveTicks -----------------------------
(***************************************************************************)
(* Live-tick subscriptions: SignalsGateway                                 *)
(* (src/src/signals/signals.gateway.ts) counts, per (symbol, exchange)     *)
(* pair, the browser sockets that watch it, and tells the signals service  *)
(* when the first one comes and the last one goes.                         *)
(*                                                                         *)
(* The handlers are synchronous, so each is one action.  The calls they    *)
(* make are not awaited: any number may be in flight, in any order, and    *)
(* each may fail, be retried once (UpstreamHttpClient.request), or be      *)
(* applied although it seemed to fail.                                     *)
(*                                                                         *)
(* The signals service is external: it keeps the set of live pairs, and    *)
(* asks for the watched pairs when it starts.  A socket's authentication   *)
(* is over before its first message; rejected sockets never get here.      *)
(***************************************************************************)
EXTENDS Integers, FiniteSets

CONSTANTS
  Clients, Symbols, Exchanges, NoExchange,
  MaxEvents,     \* bound: messages and disconnections of clients
  MaxLosses,     \* bound: attempts of a call that fail
  MaxRestarts    \* bound: restarts, of the API or of the signals service

ASSUME LiveTicksAssumption ==
  /\ IsFiniteSet(Clients) /\ NoExchange \notin Exchanges
  /\ MaxEvents \in Nat /\ MaxLosses \in Nat /\ MaxRestarts \in Nat

VARIABLES
  connected,  \* sockets that are connected
  watching,   \* clientWatching: per client and symbol, the exchange watched
  counts,     \* watcherCounts; 0 is no entry
  rooms,      \* members of the Socket.IO room of each symbol
  calls,      \* calls to the signals service not yet settled
  live,       \* pairs the signals service streams
  events, losses, restarts,
  misled,     \* history: <<client, symbol>> whose last message about the symbol
              \* was an unsubscribe for an exchange it did not watch
  disturbed   \* history: pairs whose last settled call failed, or overlapped
              \* another one, or was cut off by a restart of the API

gateway == <<connected, watching, counts, rooms>>
bounds == <<events, losses, restarts>>
vars == <<gateway, calls, live, bounds, misled, disturbed>>

Pairs == Symbols \X Exchanges
\* A call, numbered after the event that made it; clean as long as no other on its
\* pair is in flight with it.
Call == [number : 1..MaxEvents, action : {"subscribe", "unsubscribe"}, pair : Pairs,
         tries : 1..2, clean : BOOLEAN]

Init ==
  /\ connected = {}
  /\ watching = [c \in Clients |-> [s \in Symbols |-> NoExchange]]
  /\ counts = [p \in Pairs |-> 0]
  /\ rooms = [s \in Symbols |-> {}]
  /\ calls = {} /\ live = {}
  /\ events = 0 /\ losses = 0 /\ restarts = 0
  /\ misled = {} /\ disturbed = {}

-----------------------------------------------------------------------------
InFlight(p) == {k \in calls : k.pair = p}

(* callInternal, for the pairs an event concerns: requests maps each pair  *)
(* to the call made for it.                                                *)
Send(requests) ==
  LET soiled == {k \in calls : k.pair \in DOMAIN requests}
  IN calls' = (calls \ soiled)
       \cup {[k EXCEPT !.clean = FALSE] : k \in soiled}
       \cup {[number |-> events + 1, action |-> requests[p], pair |-> p, tries |-> 2,
              clean |-> InFlight(p) = {}] : p \in DOMAIN requests}

Happens == events < MaxEvents /\ events' = events + 1

Watched(c) == {p \in Pairs : watching[c][p[1]] = p[2]}

FirstWatcher(count) == count = 1
\* Mutant (CountsExact): the last watcher but one is taken for the last.
LastWatcherOff(count) == count <= 2
LastWatcher(count) == count <= 1
Decremented(count) == IF LastWatcher(count) THEN 0 ELSE count - 1

Connect(c) ==
  /\ c \notin connected
  /\ connected' = connected \cup {c}
  /\ UNCHANGED <<watching, counts, rooms, calls, live, bounds, misled, disturbed>>

(* handleSubscribeSymbol: join the room, and unless the client watches the *)
(* pair already, leave the exchange it watched and be counted on this one. *)
Subscribe(c, s, e) ==
  LET old == watching[c][s]
      left == IF old = NoExchange THEN {} ELSE {<<s, old>>}
  IN /\ c \in connected /\ Happens
     /\ rooms' = [rooms EXCEPT ![s] = @ \cup {c}]
     /\ misled' = misled \ {<<c, s>>}
     /\ IF old = e THEN UNCHANGED <<watching, counts, calls>>
        ELSE /\ watching' = [watching EXCEPT ![c][s] = e]
             /\ counts' = [p \in Pairs |->
                  IF p \in left THEN Decremented(counts[p])
                  ELSE IF p = <<s, e>> THEN counts[p] + 1 ELSE counts[p]]
             /\ Send([p \in {q \in left : LastWatcher(counts[q])}
                            \cup {q \in {<<s, e>>} : FirstWatcher(counts[q] + 1)} |->
                        IF p \in left THEN "unsubscribe" ELSE "subscribe"])
     /\ UNCHANGED <<connected, live, losses, restarts, disturbed>>

\* Mutant (RoomFollowsWatch): the room is not left.
RoomAfterUnsubscribeKept(c, s) == rooms[s]
RoomAfterUnsubscribe(c, s) == rooms[s] \ {c}

(* handleUnsubscribeSymbol: leave the room, then, if the client watches    *)
(* this very pair, stop counting it.                                       *)
Unsubscribe(c, s, e) ==
  /\ c \in connected /\ Happens
  /\ rooms' = [rooms EXCEPT ![s] = RoomAfterUnsubscribe(c, s)]
  /\ IF watching[c][s] # e
     THEN /\ misled' = misled \cup {<<c, s>>}
          /\ UNCHANGED <<watching, counts, calls>>
     ELSE /\ watching' = [watching EXCEPT ![c][s] = NoExchange]
          /\ counts' = [counts EXCEPT ![<<s, e>>] = Decremented(@)]
          /\ Send([p \in {q \in {<<s, e>>} : LastWatcher(counts[q])} |-> "unsubscribe"])
          /\ misled' = misled \ {<<c, s>>}
  /\ UNCHANGED <<connected, live, losses, restarts, disturbed>>

(* handleDisconnect: every pair the client watched loses it; Socket.IO     *)
(* takes the socket out of its rooms.                                      *)
Disconnect(c) ==
  /\ c \in connected /\ Happens
  /\ connected' = connected \ {c}
  /\ watching' = [watching EXCEPT ![c] = [s \in Symbols |-> NoExchange]]
  /\ counts' = [p \in Pairs |->
       IF p \in Watched(c) THEN Decremented(counts[p]) ELSE counts[p]]
  /\ Send([p \in {q \in Watched(c) : LastWatcher(counts[q])} |-> "unsubscribe"])
  /\ rooms' = [s \in Symbols |-> rooms[s] \ {c}]
  /\ misled' = misled \ ({c} \X Symbols)
  /\ UNCHANGED <<live, losses, restarts, disturbed>>

-----------------------------------------------------------------------------
(* The signals service and the network.                                    *)

Applied(k) ==
  IF k.action = "subscribe" THEN live \cup {k.pair} ELSE live \ {k.pair}

\* Mutant (TicksComeLive): the second attempt is never made.
AttemptedOnce == {k \in calls : k.tries = 2}
Attempted == calls

(* The call is applied and answered.                                       *)
Deliver(k) ==
  /\ k \in Attempted
  /\ live' = Applied(k)
  /\ calls' = calls \ {k}
  /\ disturbed' = IF k.clean THEN disturbed \ {k.pair} ELSE disturbed \cup {k.pair}
  /\ UNCHANGED <<gateway, bounds, misled>>

(* An attempt fails with a network error or its timeout, whether or not    *)
(* the service applied it; the second time the call is given up.  An error *)
(* status ends it at once.                                                 *)
Lose(k) ==
  /\ k \in Attempted /\ losses < MaxLosses
  /\ losses' = losses + 1
  /\ live' \in {live, Applied(k)}
  /\ \/ /\ k.tries = 2
        /\ calls' = (calls \ {k}) \cup {[k EXCEPT !.tries = 1]}
        /\ UNCHANGED disturbed
     \/ /\ calls' = calls \ {k}
        /\ disturbed' = disturbed \cup {k.pair}
  /\ UNCHANGED <<gateway, events, restarts, misled>>

\* Mutant (LiveFollowsCounts): only pairs with several watchers are reported.
ActiveSymbolsShared == {p \in Pairs : counts[p] > 1}
\* getActiveSymbols, the answer of GET active-symbols.
ActiveSymbols == {p \in Pairs : counts[p] > 0}

(* The signals service restarts and asks for the watched pairs.            *)
UpstreamRestart ==
  /\ restarts < MaxRestarts
  /\ restarts' = restarts + 1
  /\ live' = ActiveSymbols
  /\ disturbed' = {p \in Pairs : \E k \in InFlight(p) : ~k.clean}
  /\ UNCHANGED <<gateway, calls, events, losses, misled>>

(* The API restarts: its maps and its sockets are gone, and nothing tells  *)
(* the signals service.                                                    *)
ApiRestart ==
  /\ restarts < MaxRestarts
  /\ restarts' = restarts + 1
  /\ connected' = {} /\ misled' = {}
  /\ watching' = [c \in Clients |-> [s \in Symbols |-> NoExchange]]
  /\ counts' = [p \in Pairs |-> 0]
  /\ rooms' = [s \in Symbols |-> {}]
  /\ calls' = {}
  /\ disturbed' = disturbed \cup live \cup {k.pair : k \in calls}
  /\ UNCHANGED <<live, events, losses>>

Settle == \E k \in calls : Deliver(k) \/ Lose(k)

ClientStep ==
  \E c \in Clients :
    \/ Connect(c) \/ Disconnect(c)
    \/ \E s \in Symbols, e \in Exchanges : Subscribe(c, s, e) \/ Unsubscribe(c, s, e)

Next == ClientStep \/ Settle \/ UpstreamRestart \/ ApiRestart

Spec == Init /\ [][Next]_vars

(* Every attempt of a call has a timeout, so every call settles.           *)
FairSpec == Spec /\ WF_vars(Settle)

-----------------------------------------------------------------------------
(* The gateway's maps, the calls and the history have their types.         *)
TicksTypeOK ==
  /\ connected \subseteq Clients
  /\ watching \in [Clients -> [Symbols -> Exchanges \cup {NoExchange}]]
  /\ counts \in [Pairs -> Nat]
  /\ rooms \in [Symbols -> SUBSET Clients]
  /\ calls \subseteq Call /\ live \subseteq Pairs
  /\ events \in 0..MaxEvents /\ losses \in 0..MaxLosses /\ restarts \in 0..MaxRestarts
  /\ misled \subseteq Clients \X Symbols /\ disturbed \subseteq Pairs

Watchers(p) == {c \in Clients : p \in Watched(c)}

(* A pair's count is the number of connected clients that watch it, over   *)
(* repeated and stale messages, switches of exchange, disconnections and   *)
(* restarts: "a duplicate/stale unsubscribe ... must not decrement a real  *)
(* remaining watcher's count" (133-178, 222-241).                          *)
CountsExact ==
  \A p \in Pairs : Watchers(p) \subseteq connected /\ counts[p] = Cardinality(Watchers(p))

(* The members of a symbol's room, who receive its ticks, are the clients  *)
(* that watch it on some exchange.  A client that watches it and is not in *)
(* the room has left it by unsubscribing from an exchange it had already   *)
(* switched away from (217-228).                                           *)
RoomFollowsWatch ==
  \A c \in Clients, s \in Symbols :
    /\ c \in rooms[s] => watching[c][s] # NoExchange
    /\ watching[c][s] # NoExchange => c \in rooms[s] \/ <<c, s>> \in misled

(* Once no call on a pair is in flight, the signals service streams it if  *)
(* and only if somebody watches it; except after calls that overlapped or  *)
(* failed, or a restart of the API, until the next call on the pair or the *)
(* next start of the signals service: "so a process restart ... doesn't    *)
(* silently stop live ticks" (live-ticks-internal.controller.ts:6-11).     *)
LiveFollowsCounts ==
  \A p \in Pairs \ disturbed : InFlight(p) = {} => (p \in live <=> counts[p] > 0)

(* The first watcher of a pair brings its ticks: a watched pair goes live, *)
(* unless it is given up or its calls fail or overlap (171-177, 243-251).  *)
TicksComeLive ==
  \A p \in Pairs : (counts[p] > 0) ~> (p \in live \/ counts[p] = 0 \/ p \in disturbed)

=============================================================================
