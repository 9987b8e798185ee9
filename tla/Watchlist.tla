----------------------------- MODULE Watchlist -----------------------------
(***************************************************************************)
(* The watchlist of one user: WatchlistService                             *)
(* (src/src/watchlist/watchlist.service.ts).  An add counts the list, then *)
(* inserts; the two are separate calls of the database, between which      *)
(* other requests of the user run.                                         *)
(***************************************************************************)
EXTENDS Integers, FiniteSets

CONSTANTS
  Adds,        \* requests to add
  Items,       \* pairs of a symbol and an exchange, trimmed and in capitals
  MaxItems,    \* MAX_WATCHLIST_SIZE
  NoAdd        \* a request that is not under way

ASSUME WatchlistAssumption ==
  /\ IsFiniteSet(Adds) /\ MaxItems \in Nat \ {0} /\ NoAdd \notin Items

VARIABLES
  watchlist,   \* the WatchlistItem documents
  add,         \* the item of each add that has counted, and not yet inserted
  crowd        \* history: the most adds that were at that point together

wvars == <<watchlist, add, crowd>>

WatchlistInit == watchlist = {} /\ add = [a \in Adds |-> NoAdd] /\ crowd = 0

Counted == {a \in Adds : add[a] # NoAdd}

\* Mutant (WatchlistBounded): count > MAX_WATCHLIST_SIZE is refused.
HasRoomOrIsFull == Cardinality(watchlist) <= MaxItems
HasRoom == Cardinality(watchlist) < MaxItems

(* countDocuments.  A full list refuses the request.                       *)
Count(a) ==
  /\ add[a] = NoAdd /\ HasRoom
  /\ \E i \in Items : add' = [add EXCEPT ![a] = i]
  /\ crowd' = IF Cardinality(Counted') > crowd THEN Cardinality(Counted') ELSE crowd
  /\ UNCHANGED watchlist

(* create.  The unique index leaves an item that is there already as it    *)
(* is, and the request ends in a conflict; it may also fail.               *)
InsertItem(a) ==
  /\ a \in Counted
  /\ watchlist' = watchlist \cup {add[a]} \/ UNCHANGED watchlist
  /\ add' = [add EXCEPT ![a] = NoAdd]
  /\ UNCHANGED crowd

\* remove: deleteOne.
RemoveItem(i) ==
  /\ i \in watchlist /\ watchlist' = watchlist \ {i}
  /\ UNCHANGED <<add, crowd>>

WatchlistNext ==
  (\E a \in Adds : Count(a) \/ InsertItem(a)) \/ (\E i \in Items : RemoveItem(i))

WatchlistSpec == WatchlistInit /\ [][WatchlistNext]_wvars

-----------------------------------------------------------------------------
(* The list and the requests have their types.                             *)
WatchlistTypeOK ==
  /\ watchlist \subseteq Items
  /\ add \in [Adds -> Items \cup {NoAdd}]
  /\ crowd \in Nat

(* "Watchlist is limited to 15 symbols" (26-29): one add at a time keeps   *)
(* the limit, whatever is removed in between; adds that count together may *)
(* pass it, but by no more than those that did, less one.                  *)
WatchlistBounded ==
  Cardinality(watchlist) <= MaxItems + (IF crowd = 0 THEN 0 ELSE crowd - 1)

=============================================================================
