---------------------------- MODULE StoresProofs ----------------------------
(***************************************************************************)
(* What holds of the smaller components for any number of tabs, adds,      *)
(* checks and requests, and any window, limits, rows and streams: a chart  *)
(* is not overwritten unseen; the watchlist's limit is passed only by adds *)
(* that count together; a check of a user's tokens agrees with the admin's *)
(* page; two signals that restate one another were posted by requests that *)
(* overlapped, or late, and each is broadcast once, unless the request     *)
(* that stored it was dropped; a report is true of the rows it was made    *)
(* of; the risk gate's limits hold of the fills it reckoned; and a stream  *)
(* cut anywhere gives the frames of the stream uncut.                      *)
(*                                                                         *)
(* The recursive functions of the relay are reasoned about like the sums   *)
(* of SumProofs: if a text broke a rule, a shortest one would (Smallest),  *)
(* and the rule holds of the shorter text the function calls itself with.  *)
(***************************************************************************)
EXTENDS MCStores, SumProofs, SequenceTheorems

-----------------------------------------------------------------------------
(* Chart layouts.                                                          *)

(* A tab that has read since the last clear shows an older version than    *)
(* the stored one, or that one and its drawings.                           *)
LayoutInv ==
  /\ LayoutTypeOK
  /\ layout # NoLayout => layout.version > 0
  /\ \A t \in Tabs \ outlived :
       IF layout = NoLayout THEN tab[t] = Blank
       ELSE /\ tab[t].version <= layout.version
            /\ tab[t].version = layout.version => tab[t].drawings = layout.drawings

(* No stored layout is the absence of one.                                 *)
LEMMA NoLayoutIsNoView == NoLayout \notin View
  BY ChartLayoutAssumption DEF View

LEMMA LayoutInitInv == LayoutInit => LayoutInv
  BY ChartLayoutAssumption DEF LayoutInit, LayoutInv, LayoutTypeOK, Blank, View

(* A save accepted makes a version that no tab which is up to date has.    *)
LEMMA SaveStep ==
  ASSUME LayoutInv, NEW t \in Tabs, Save(t)
  PROVE  LayoutInv'
  <1> DEFINE v == tab[t].version
             new == [version |-> v + 1, drawings |-> saves + 1]
  <1>1. v \in Nat /\ saves \in Nat /\ saves < MaxSaves /\ MaxSaves \in Nat
    BY ChartLayoutAssumption DEF LayoutInv, LayoutTypeOK, View, Save
  <1>2. layout' = new /\ saves' = saves + 1 /\ new \in View
    BY <1>1 DEF Save, SavedBy, View
  <1>3. layout' # NoLayout
    BY <1>2, NoLayoutIsNoView
  <1>4. /\ tab' \in [Tabs -> View] /\ outlived' \subseteq Tabs
        /\ \A u \in Tabs : tab'[u] = tab[u] \/ tab'[u] = new
        /\ \A u \in Tabs \ outlived' : u \in Tabs \ outlived \/ tab'[u] = new
    <2>1. CASE Shows(t, SavedBy(t))
      BY <2>1, <1>2 DEF Shows, SavedBy, LayoutInv, LayoutTypeOK
    <2>2. CASE UNCHANGED <<tab, outlived>>
      BY <2>2 DEF LayoutInv, LayoutTypeOK
    <2>3. QED
      BY <2>1, <2>2 DEF Save
  <1>5. ASSUME NEW u \in Tabs \ outlived PROVE tab[u].version \in Nat /\ tab[u].version <= v
    <2>1. tab[u].version \in Nat
      BY DEF LayoutInv, LayoutTypeOK, View
    <2>2. CASE Matches(t)
      BY <2>1, <2>2 DEF Matches, LayoutInv
    <2>3. CASE Upserts(t)
      BY <2>1, <2>3 DEF Upserts, LayoutInv, Blank
    <2>4. QED
      BY <2>1, <2>2, <2>3 DEF Save, Accepts
  <1>6. ASSUME NEW u \in Tabs \ outlived'
        PROVE  /\ tab'[u].version <= layout'.version
               /\ tab'[u].version = layout'.version => tab'[u].drawings = layout'.drawings
    <2>1. CASE tab'[u] = new
      BY <2>1, <1>1, <1>2
    <2>2. CASE tab'[u] # new
      <3>1. u \in Tabs \ outlived /\ tab'[u] = tab[u]
        BY <2>2, <1>4
      <3>2. tab'[u].version \in Nat /\ tab'[u].version <= v
        BY <3>1, <1>5
      <3>3. QED
        BY <3>2, <1>1, <1>2
    <2>3. QED
      BY <2>1, <2>2
  <1>7. LayoutTypeOK'
    BY <1>1, <1>2, <1>4 DEF LayoutTypeOK
  <1>8. QED
    BY <1>1, <1>2, <1>3, <1>6, <1>7 DEF LayoutInv

LEMMA LayoutStep == LayoutInv /\ [LayoutNext]_lvars => LayoutInv'
  <1> SUFFICES ASSUME LayoutInv, [LayoutNext]_lvars PROVE LayoutInv'
    OBVIOUS
  <1>1. Blank \in View
    BY DEF Blank, View
  <1>2. ASSUME NEW t \in Tabs, Load(t) PROVE LayoutInv'
    <2>1. Current \in View
      BY <1>1 DEF Current, LayoutInv, LayoutTypeOK
    <2>2. \A u \in Tabs \ outlived' : u \in Tabs \ outlived \/ tab'[u] = Current
      BY <1>2 DEF Load, Shows, LayoutInv, LayoutTypeOK
    <2>3. \A u \in Tabs : tab'[u] = tab[u] \/ tab'[u] = Current
      BY <1>2 DEF Load, Shows, LayoutInv, LayoutTypeOK
    <2>4. LayoutTypeOK'
      BY <1>2, <2>1 DEF Load, Shows, LayoutInv, LayoutTypeOK
    <2>5. layout # NoLayout => layout.version \in Nat
      BY DEF LayoutInv, LayoutTypeOK, View
    <2>6. QED
      BY <1>2, <2>2, <2>3, <2>4, <2>5 DEF Load, LayoutInv, Current
  <1>3. ASSUME NEW t \in Tabs, Clear(t) PROVE LayoutInv'
    <2>1. layout' = NoLayout /\ saves' = saves
      BY <1>3 DEF Clear
    <2>2. LayoutTypeOK' /\ \A u \in Tabs \ outlived' : tab'[u] = Blank
      BY <1>1, <1>3, <2>1 DEF Clear, LayoutInv, LayoutTypeOK
    <2>3. QED
      BY <2>1, <2>2 DEF LayoutInv, Blank
  <1>4. ASSUME UNCHANGED lvars PROVE LayoutInv'
    BY <1>4 DEF lvars, LayoutInv, LayoutTypeOK, Blank
  <1>5. QED
    BY <1>2, <1>3, <1>4, SaveStep DEF LayoutNext

(* However tabs load, save and clear, and whatever answers are lost, a     *)
(* save that is accepted replaces the layout its tab shows, unless the tab *)
(* has not read since a clear (save, 58-100).                              *)
THEOREM SavesReplaceTheShown == LayoutSpec => []SavesReplaceWhatTheyShow
  <1>1. LayoutInv => SavesReplaceWhatTheyShow
    BY DEF LayoutInv, LayoutTypeOK, SavesReplaceWhatTheyShow, Accepts, Matches, Upserts, Current, Blank
  <1>2. QED
    BY <1>1, LayoutInitInv, LayoutStep, PTL DEF LayoutSpec

-----------------------------------------------------------------------------
(* The watchlist.                                                          *)

(* Every add that has counted was promised a place, and no more places     *)
(* were promised at once than adds had counted together.                   *)
WatchlistInv ==
  /\ WatchlistTypeOK
  /\ IsFiniteSet(watchlist)
  /\ Cardinality(Counted) <= crowd
  /\ Cardinality(watchlist) + Cardinality(Counted) < MaxItems + crowd

LEMMA CountedIsFinite == IsFiniteSet(Counted) /\ Cardinality(Counted) \in Nat
  <1>1. IsFiniteSet(Counted)
    BY WatchlistAssumption, FS_Subset DEF Counted
  <1>2. QED
    BY <1>1, FS_CardinalityType

LEMMA WatchlistInitInv == WatchlistInit => WatchlistInv
  <1> SUFFICES ASSUME WatchlistInit PROVE WatchlistInv
    OBVIOUS
  <1>1. Counted = {} /\ watchlist = {}
    BY DEF WatchlistInit, Counted
  <1>2. QED
    BY <1>1, FS_EmptySet, WatchlistAssumption DEF WatchlistInit, WatchlistInv, WatchlistTypeOK

(* An add that has inserted, or failed to, has not counted any more.       *)
LEMMA InsertStep ==
  ASSUME WatchlistInv, NEW a \in Adds, InsertItem(a)
  PROVE  WatchlistInv'
  <1>1. a \in Counted /\ add' = [add EXCEPT ![a] = NoAdd] /\ crowd' = crowd
    BY DEF InsertItem
  <1>2. Counted' = Counted \ {a}
    BY <1>1 DEF Counted, WatchlistInv, WatchlistTypeOK
  <1>3. Cardinality(Counted') = Cardinality(Counted) - 1
    BY <1>1, <1>2, CountedIsFinite, FS_RemoveElement
  <1>4. add[a] \in Items
    BY <1>1 DEF Counted, WatchlistInv, WatchlistTypeOK
  <1>5. /\ IsFiniteSet(watchlist') /\ watchlist' \subseteq Items
        /\ Cardinality(watchlist') <= Cardinality(watchlist) + 1
    <2>1. Cardinality(watchlist) \in Nat
      BY FS_CardinalityType DEF WatchlistInv
    <2>2. CASE watchlist' = watchlist \cup {add[a]}
      <3>1. IsFiniteSet(watchlist)
        BY DEF WatchlistInv
      <3>2. /\ IsFiniteSet(watchlist \cup {add[a]})
            /\ Cardinality(watchlist \cup {add[a]}) =
                 IF add[a] \in watchlist THEN Cardinality(watchlist)
                 ELSE Cardinality(watchlist) + 1
        BY <3>1, FS_AddElement, Zenon
      <3>3. Cardinality(watchlist') <= Cardinality(watchlist) + 1
        BY <2>1, <2>2, <3>2
      <3>4. QED
        BY <1>4, <2>2, <3>2, <3>3 DEF WatchlistInv, WatchlistTypeOK
    <2>3. CASE watchlist' = watchlist
      BY <2>1, <2>3 DEF WatchlistInv, WatchlistTypeOK
    <2>4. QED
      BY <2>2, <2>3 DEF InsertItem
  <1>6. WatchlistTypeOK'
    BY <1>1, <1>5 DEF WatchlistInv, WatchlistTypeOK
  <1>7. /\ Cardinality(watchlist) \in Nat /\ Cardinality(watchlist') \in Nat
        /\ Cardinality(Counted) \in Nat /\ crowd \in Nat /\ MaxItems \in Nat
    BY <1>5, CountedIsFinite, FS_CardinalityType, WatchlistAssumption DEF WatchlistInv, WatchlistTypeOK
  <1>8. QED
    BY <1>1, <1>3, <1>5, <1>6, <1>7 DEF WatchlistInv

LEMMA CountStep ==
  ASSUME WatchlistInv, NEW a \in Adds, Count(a)
  PROVE  WatchlistInv'
  <1>1. PICK i \in Items : add' = [add EXCEPT ![a] = i]
    BY DEF Count
  <1>2. /\ IsFiniteSet(Counted') /\ Cardinality(Counted') \in Nat
    <2>1. Counted' \subseteq Adds
      BY DEF Counted
    <2>2. QED
      BY <2>1, WatchlistAssumption, FS_Subset, FS_CardinalityType
  <1>3. crowd' \in Nat /\ Cardinality(Counted') <= crowd'
    BY <1>2 DEF Count, WatchlistInv, WatchlistTypeOK
  <1>4. watchlist' = watchlist /\ Cardinality(watchlist) < MaxItems
    BY DEF Count, HasRoom
  <1>5. Cardinality(watchlist) \in Nat /\ MaxItems \in Nat
    BY FS_CardinalityType, WatchlistAssumption DEF WatchlistInv
  <1>6. WatchlistTypeOK'
    BY <1>1, <1>3, <1>4 DEF WatchlistInv, WatchlistTypeOK
  <1>7. QED
    BY <1>2, <1>3, <1>4, <1>5, <1>6 DEF WatchlistInv

LEMMA RemoveStep ==
  ASSUME WatchlistInv, NEW i \in Items, RemoveItem(i)
  PROVE  WatchlistInv'
  <1>1. watchlist' = watchlist \ {i} /\ i \in watchlist /\ UNCHANGED <<add, crowd>>
    BY DEF RemoveItem
  <1>2. /\ IsFiniteSet(watchlist') /\ Cardinality(watchlist') = Cardinality(watchlist) - 1
    BY <1>1, FS_RemoveElement DEF WatchlistInv
  <1>3. Counted' = Counted
    BY <1>1 DEF Counted
  <1>4. /\ Cardinality(watchlist) \in Nat /\ Cardinality(Counted) \in Nat
        /\ crowd \in Nat /\ MaxItems \in Nat
    BY CountedIsFinite, FS_CardinalityType, WatchlistAssumption DEF WatchlistInv, WatchlistTypeOK
  <1>5. QED
    BY <1>1, <1>2, <1>3, <1>4 DEF WatchlistInv, WatchlistTypeOK

LEMMA WatchlistStep == WatchlistInv /\ [WatchlistNext]_wvars => WatchlistInv'
  <1> SUFFICES ASSUME WatchlistInv, [WatchlistNext]_wvars PROVE WatchlistInv'
    OBVIOUS
  <1>1. ASSUME UNCHANGED wvars PROVE WatchlistInv'
    BY <1>1 DEF wvars, WatchlistInv, WatchlistTypeOK, Counted
  <1>2. QED
    BY <1>1, CountStep, InsertStep, RemoveStep DEF WatchlistNext

(* For any number of requests and any limit, the list never grows past the *)
(* limit by more than the adds that had counted together, less one (add,   *)
(* 19-39).                                                                 *)
THEOREM WatchlistStaysBounded == WatchlistSpec => []WatchlistBounded
  <1>1. WatchlistInv => WatchlistBounded
    <2> SUFFICES ASSUME WatchlistInv PROVE WatchlistBounded
      OBVIOUS
    <2>1. /\ Cardinality(watchlist) \in Nat /\ Cardinality(Counted) \in Nat
          /\ crowd \in Nat /\ MaxItems \in Nat
      BY CountedIsFinite, FS_CardinalityType, WatchlistAssumption DEF WatchlistInv, WatchlistTypeOK
    <2>2. QED
      BY <2>1 DEF WatchlistInv, WatchlistBounded
  <1>2. QED
    BY <1>1, WatchlistInitInv, WatchlistStep, PTL DEF WatchlistSpec

-----------------------------------------------------------------------------
(* Token caps.                                                             *)

(* A check that is steady holds, of its two answers, those it would get    *)
(* now.                                                                    *)
Fresh(c) ==
  /\ check[c].day = today
  /\ check[c].tokens \notin {Unread, Failed} =>
       check[c].tokens = spent[check[c].user][today].tokens
  /\ check[c].cap # Unread => check[c].cap = CapOf(check[c].user)

SpendInv == SpendTypeOK /\ \A c \in UnderCheck : check[c].steady => Fresh(c)

LEMMA CapIsNumber ==
  ASSUME SpendTypeOK, NEW u \in Users
  PROVE  CapOf(u) \in Nat
  BY SpendCapsAssumption DEF SpendTypeOK, CapOf

LEMMA SpendInitInv == SpendInit => SpendInv
  BY SpendCapsAssumption DEF SpendInit, SpendInv, SpendTypeOK, UnderCheck, NoTurns

(* A check moves on or ends; what the checks may read stays as it is.      *)
LEMMA CheckMoves ==
  ASSUME SpendInv, NEW c \in Checks, UNCHANGED <<today, override, spent>>,
         check' = [check EXCEPT ![c] = check'[c]],
         \/ check'[c] = NoCheck
         \/ check'[c] \in CheckState /\ (check'[c].steady => Fresh(c)')
  PROVE  SpendInv'
  <1>1. SpendTypeOK'
    BY DEF SpendInv, SpendTypeOK
  <1>2. ASSUME NEW d \in UnderCheck', check'[d].steady PROVE Fresh(d)'
    <2>1. CASE d = c
      BY <1>2, <2>1 DEF UnderCheck
    <2>2. CASE d # c
      <3>1. check'[d] = check[d] /\ d \in UnderCheck
        BY <1>2, <2>2 DEF UnderCheck, SpendInv, SpendTypeOK
      <3>2. Fresh(d)
        BY <1>2, <3>1 DEF SpendInv
      <3>3. QED
        BY <3>1, <3>2 DEF Fresh, CapOf
    <2>3. QED
      BY <2>1, <2>2
  <1>3. QED
    BY <1>1, <1>2 DEF SpendInv

LEMMA ReadStep ==
  ASSUME SpendInv, NEW c \in Checks, Begin(c) \/ ReadSpend(c) \/ ReadCap(c)
  PROVE  SpendInv'
  <1>1. UNCHANGED <<today, override, spent>>
    BY DEF Begin, ReadSpend, ReadCap
  <1>2. /\ check'[c] \in CheckState
        /\ check' = [check EXCEPT ![c] = check'[c]]
        /\ check'[c].steady => Fresh(c)'
    <2>1. CASE Begin(c)
      BY <1>1, <2>1, SpendCapsAssumption DEF Begin, SpendInv, SpendTypeOK, CheckState, Fresh
    <2>2. CASE ReadSpend(c)
      <3>1. check[c] \in CheckState /\ (check[c].steady => Fresh(c))
        BY <2>2 DEF ReadSpend, SpendInv, SpendTypeOK, UnderCheck
      <3>2. PICK tokens \in {spent[check[c].user][check[c].day].tokens, Failed} :
              check' = [check EXCEPT ![c].tokens = tokens]
        BY <2>2 DEF ReadSpend
      <3>3. tokens \in Nat \cup {Failed}
        <4>1. spent[check[c].user][check[c].day].tokens \in Nat
          BY <3>1 DEF SpendInv, SpendTypeOK, CheckState
        <4>2. QED
          BY <3>2, <4>1
      <3>4. check'[c] = [check[c] EXCEPT !.tokens = tokens]
        BY <3>2 DEF SpendInv, SpendTypeOK
      <3>5. check'[c] \in CheckState
        BY <3>1, <3>3, <3>4 DEF CheckState
      <3>6. QED
        BY <1>1, <3>1, <3>2, <3>4, <3>5 DEF SpendInv, SpendTypeOK, CheckState, Fresh, CapOf
    <2>3. CASE ReadCap(c)
      <3>1. check[c] \in CheckState /\ (check[c].steady => Fresh(c))
        BY <2>3 DEF ReadCap, SpendInv, SpendTypeOK, UnderCheck
      <3>2. CapOf(check[c].user) \in Nat /\ DefaultCap \in Nat
        BY <3>1, CapIsNumber, SpendCapsAssumption DEF SpendInv, CheckState
      <3>3. CASE check' = [check EXCEPT ![c].cap = CapOf(check[c].user)]
        <4>1. check'[c] = [check[c] EXCEPT !.cap = CapOf(check[c].user)]
          BY <3>3 DEF SpendInv, SpendTypeOK
        <4>2. check'[c] \in CheckState
          BY <3>1, <3>2, <4>1 DEF CheckState
        <4>3. QED
          BY <1>1, <3>1, <3>3, <4>1, <4>2 DEF SpendInv, SpendTypeOK, CheckState, Fresh, CapOf
      <3>4. CASE check' = [check EXCEPT ![c].cap = DefaultCap, ![c].steady = FALSE]
        <4>1. check'[c] = [check[c] EXCEPT !.cap = DefaultCap, !.steady = FALSE]
          BY <3>4 DEF SpendInv, SpendTypeOK
        <4>2. check'[c] \in CheckState /\ ~check'[c].steady
          BY <3>1, <3>2, <4>1 DEF CheckState
        <4>3. QED
          BY <3>4, <4>1, <4>2 DEF SpendInv, SpendTypeOK
      <3>5. QED
        BY <2>3, <3>3, <3>4 DEF ReadCap
    <2>4. QED
      BY <2>1, <2>2, <2>3
  <1>3. QED
    BY <1>1, <1>2, CheckMoves

LEMMA VerdictStep ==
  ASSUME SpendInv, NEW c \in Checks, Admit(c) \/ Refuse(c) \/ LoseTurn(c)
  PROVE  SpendInv'
  <1>1. UNCHANGED <<today, override, spent>>
    BY DEF Admit, Refuse, LoseTurn
  <1>2. CASE Admit(c)
    <2>1. check[c] \in CheckState /\ (check[c].steady => Fresh(c))
      BY <1>2 DEF Admit, AnswersIn, SpendInv, SpendTypeOK, UnderCheck
    <2>2. check'[c] = [check[c] EXCEPT !.passed = TRUE]
      BY <1>2 DEF Admit, SpendInv, SpendTypeOK
    <2>3. check'[c] \in CheckState
      BY <2>1, <2>2 DEF CheckState
    <2>4. check' = [check EXCEPT ![c] = check'[c]] /\ (check'[c].steady => Fresh(c)')
      BY <1>1, <1>2, <2>1, <2>2 DEF Admit, SpendInv, SpendTypeOK, CheckState, Fresh, CapOf
    <2>5. QED
      BY <1>1, <2>3, <2>4, CheckMoves
  <1>3. CASE check' = [check EXCEPT ![c] = NoCheck]
    <2>1. check'[c] = NoCheck /\ check' = [check EXCEPT ![c] = check'[c]]
      BY <1>3 DEF SpendInv, SpendTypeOK
    <2>2. QED
      BY <1>1, <2>1, CheckMoves
  <1>4. QED
    BY <1>2, <1>3 DEF Refuse, LoseTurn

(* The steps that change what a check may have read: the checks of that    *)
(* user, or at midnight all of them, are steady no more.                   *)
LEMMA Unsettling ==
  ASSUME SpendInv, NEW u \in Users
  PROVE  /\ Unsettled(u) \in [Checks -> CheckState \cup {NoCheck}]
         /\ \A c \in Checks :
              \/ Unsettled(u)[c] = check[c]
                 /\ (c \in UnderCheck => check[c].user # u /\ check[c] \in CheckState)
              \/ Unsettled(u)[c] \in CheckState /\ ~Unsettled(u)[c].steady
  <1>1. ASSUME NEW c \in UnderCheck
        PROVE  /\ check[c] \in CheckState
               /\ [check[c] EXCEPT !.steady = FALSE] \in CheckState
               /\ ~[check[c] EXCEPT !.steady = FALSE].steady
    BY DEF SpendInv, SpendTypeOK, UnderCheck, CheckState
  <1>2. QED
    BY <1>1 DEF Unsettled, UnderCheck, SpendInv, SpendTypeOK

LEMMA CapStep ==
  ASSUME SpendInv, NEW u \in Users, SetCap(u)
  PROVE  SpendInv'
  <1>1. /\ check' = Unsettled(u) /\ UNCHANGED <<today, spent>>
        /\ override' \in [Users -> Caps \cup {NoOverride}]
        /\ \A w \in Users : w # u => override'[w] = override[w]
    BY DEF SetCap, SpendInv, SpendTypeOK
  <1>2. ASSUME NEW c \in UnderCheck', check'[c].steady PROVE Fresh(c)'
    <2>1. check'[c] = check[c] /\ check[c].user # u /\ check[c] \in CheckState /\ c \in UnderCheck
      BY <1>1, <1>2, Unsettling DEF UnderCheck
    <2>2. Fresh(c)
      BY <1>2, <2>1 DEF SpendInv
    <2>3. CapOf(check[c].user)' = CapOf(check[c].user)
      BY <1>1, <2>1 DEF CapOf, CheckState
    <2>4. QED
      BY <1>1, <2>1, <2>2, <2>3 DEF Fresh, CapOf
  <1>3. QED
    BY <1>1, <1>2, Unsettling DEF SpendInv, SpendTypeOK

LEMMA RecordStep ==
  ASSUME SpendInv, NEW c \in Checks, RecordTurn(c)
  PROVE  SpendInv'
  <1> DEFINE u == check[c].user
  <1>1. check[c] \in CheckState /\ u \in Users
    BY DEF RecordTurn, UnderCheck, SpendInv, SpendTypeOK, CheckState
  <1>2. PICK cost \in TurnCosts :
          spent' = [spent EXCEPT ![u][today] =
                      [tokens |-> @.tokens + cost, turns |-> @.turns + 1]]
    BY DEF RecordTurn
  <1>3. /\ UNCHANGED <<today, override>> /\ spent[u][today].turns < MaxTurns
        /\ check' = [Unsettled(u) EXCEPT ![c] = NoCheck]
    BY DEF RecordTurn
  <1>4. /\ spent' \in [Users -> [0..MaxDay -> [tokens : Nat, turns : 0..MaxTurns]]]
        /\ \A w \in Users : w # u => spent'[w] = spent[w]
    <2>1. spent[u] \in [0..MaxDay -> [tokens : Nat, turns : 0..MaxTurns]] /\ today \in 0..MaxDay
      BY <1>1 DEF SpendInv, SpendTypeOK
    <2>2. spent[u][today].tokens \in Nat /\ spent[u][today].turns \in 0..MaxTurns
      BY <2>1
    <2>3. spent[u][today].tokens + cost \in Nat /\ spent[u][today].turns + 1 \in 0..MaxTurns
      BY <1>3, <2>2, SpendCapsAssumption
    <2>4. QED
      BY <1>2, <2>1, <2>3 DEF SpendInv, SpendTypeOK
  <1>5. check' \in [Checks -> CheckState \cup {NoCheck}]
    BY <1>1, <1>3, Unsettling
  <1>6. ASSUME NEW d \in UnderCheck', check'[d].steady PROVE Fresh(d)'
    <2>1. d # c /\ check'[d] = Unsettled(u)[d]
      BY <1>1, <1>3, <1>6, Unsettling DEF UnderCheck
    <2>2. check'[d] = check[d] /\ check[d].user # u /\ check[d] \in CheckState /\ d \in UnderCheck
      BY <1>1, <1>6, <2>1, Unsettling DEF UnderCheck
    <2>3. Fresh(d)
      BY <1>6, <2>2 DEF SpendInv
    <2>4. spent'[check[d].user] = spent[check[d].user]
      BY <1>4, <2>2 DEF CheckState
    <2>5. QED
      BY <1>3, <2>2, <2>3, <2>4 DEF Fresh, CapOf
  <1>7. QED
    BY <1>3, <1>4, <1>5, <1>6 DEF SpendInv, SpendTypeOK

LEMMA MidnightStep ==
  ASSUME SpendInv, Midnight
  PROVE  SpendInv'
  <1>1. ASSUME NEW c \in Checks
        PROVE  check'[c] = NoCheck \/ (check'[c] \in CheckState /\ ~check'[c].steady)
    <2>1. CASE c \in UnderCheck
      BY <2>1 DEF Midnight, UnderCheck, SpendInv, SpendTypeOK, CheckState
    <2>2. CASE c \notin UnderCheck
      <3>1. check'[c] = NoCheck
        BY <2>2, Zenon DEF Midnight
      <3>2. QED
        BY <3>1
    <2>3. QED
      BY <2>1, <2>2
  <1>2. check' \in [Checks -> CheckState \cup {NoCheck}]
    BY <1>1 DEF Midnight
  <1>3. SpendTypeOK'
    BY <1>2, SpendCapsAssumption DEF Midnight, SpendInv, SpendTypeOK
  <1>4. QED
    BY <1>1, <1>3 DEF SpendInv, UnderCheck

LEMMA SpendStep == SpendInv /\ [SpendNext]_bvars => SpendInv'
  <1> SUFFICES ASSUME SpendInv, [SpendNext]_bvars PROVE SpendInv'
    OBVIOUS
  <1>1. ASSUME UNCHANGED bvars PROVE SpendInv'
    BY <1>1 DEF bvars, SpendInv, SpendTypeOK, UnderCheck, Fresh, CapOf
  <1>2. QED
    BY <1>1, ReadStep, VerdictStep, CapStep, RecordStep, MidnightStep DEF SpendNext

(* For any number of users, checks, caps and turns, the check admits a     *)
(* turn exactly if the admin's page shows tokens remaining, as long as     *)
(* both reads worked and nothing changed meanwhile (assertWithinBudget,    *)
(* 110-139; usageToday, 28-72).                                            *)
THEOREM CheckAgreesWithPage == SpendSpec => []GateAgreesWithAdmin
  <1>1. SpendInv => GateAgreesWithAdmin
    <2> SUFFICES ASSUME SpendInv, NEW c \in UnderCheck,
                        AnswersIn(c), check[c].steady, check[c].tokens # Failed
                 PROVE  Admits(c) <=> UsageRow(check[c].user).remaining > 0
      BY DEF GateAgreesWithAdmin
    <2>1. check[c].user \in Users /\ Fresh(c)
      BY DEF SpendInv, SpendTypeOK, UnderCheck, CheckState
    <2>2. /\ check[c].tokens = spent[check[c].user][today].tokens
          /\ check[c].cap = CapOf(check[c].user)
      BY <2>1 DEF Fresh, AnswersIn
    <2>3. CapOf(check[c].user) = IF override[check[c].user] \in Nat
                                 THEN override[check[c].user] ELSE DefaultCap
      BY <2>1, SpendCapsAssumption DEF CapOf, SpendInv, SpendTypeOK
    <2>4. QED
      BY <2>2, <2>3 DEF Admits, UsageRow
  <1>2. QED
    BY <1>1, SpendInitInv, SpendStep, PTL DEF SpendSpec

-----------------------------------------------------------------------------
(* The signal store.                                                       *)

(* What a request found out when it looked.  A signal that restates one it *)
(* knew would have been stopped: by the window check if the other is       *)
(* recent; and if it is not, it was generated too long ago to be restated  *)
(* by one that is generated now.                                           *)
KnewNoRestatement(s, docs, time) ==
  /\ s.at <= s.asked /\ s.asked <= time /\ s.knew <= Len(docs)
  /\ \A i \in 1..s.knew :
       docs[i].setup = s.setup /\ s.at >= s.asked => ~Restates(s, docs[i])

Holds(p) == At(p, "inserted") \/ At(p, "dropped")

StoredInv ==
  \A j \in DOMAIN stored :
    /\ stored[j].created <= clock /\ stored[j].asked <= stored[j].created
    /\ KnewNoRestatement(stored[j], stored, clock)
    /\ \A i \in DOMAIN stored :
         i # j => ~(stored[i].setup = stored[j].setup /\ stored[i].at = stored[j].at)

PostInv ==
  \A p \in Posts :
    /\ At(p, "new") =>
         post[p].index = 0 /\ post[p].doc \in Signal /\ KnewNoRestatement(post[p].doc, stored, clock)
    /\ Holds(p) => post[p].index \in 0..Len(stored)
    /\ At(p, "inserted") => post[p].index # 0
    /\ \A q \in Posts :
         Holds(p) /\ Holds(q) /\ post[p].index = post[q].index /\ post[p].index # 0 => p = q

SignalInv == SignalsTypeOK /\ StoredInv /\ PostInv /\ AnnouncedOnce

-----------------------------------------------------------------------------
LEMMA SignalsInitInv == SignalsInit => SignalInv
  BY SignalStoreAssumption
  DEF SignalsInit, SignalInv, SignalsTypeOK, StoredInv, PostInv, AnnouncedOnce, At, Holds

(* What a request has found out stays true while documents are added and   *)
(* time passes.                                                            *)
LEMMA KnowledgeStays ==
  ASSUME NEW s \in Signal, KnewNoRestatement(s, stored, clock), SignalsTypeOK,
         clock' \in Nat, clock <= clock', stored' \in Seq(Signal),
         Len(stored) <= Len(stored'), \A i \in DOMAIN stored : stored'[i] = stored[i]
  PROVE  KnewNoRestatement(s, stored', clock')
  <1>1. s.at \in Int /\ s.asked \in Int /\ s.knew \in Nat /\ clock \in Nat
    BY DEF Signal, SignalsTypeOK
  <1>2. Len(stored) \in Nat /\ Len(stored') \in Nat /\ DOMAIN stored = 1..Len(stored)
    BY DEF SignalsTypeOK
  <1>3. s.at <= s.asked /\ s.asked <= clock' /\ s.knew <= Len(stored')
    BY <1>1, <1>2 DEF KnewNoRestatement
  <1>4. ASSUME NEW i \in 1..s.knew PROVE i \in DOMAIN stored
    BY <1>1, <1>2 DEF KnewNoRestatement
  <1>5. QED
    BY <1>3, <1>4 DEF KnewNoRestatement, Restates

(* A request that finds no recent restatement knows that there is none.    *)
LEMMA LookingSuffices ==
  ASSUME SignalInv, NEW setup \in Setups, NEW price \in EntryPrices,
         NEW at \in 0..clock \cup {Undated},
         ~IsDuplicateSetup(ToDocument(setup, price, at))
  PROVE  /\ ToDocument(setup, price, at) \in Signal
         /\ KnewNoRestatement(ToDocument(setup, price, at), stored, clock)
  <1> DEFINE s == ToDocument(setup, price, at)
  <1>1. clock \in Nat /\ Len(stored) \in Nat /\ DOMAIN stored = 1..Len(stored)
    BY DEF SignalInv, SignalsTypeOK
  <1>2. /\ s \in Signal /\ s.setup = setup /\ s.price = price /\ s.at <= clock
        /\ s.asked = clock /\ s.knew = Len(stored)
    <2>1. CASE at = Undated
      BY <1>1, <2>1 DEF ToDocument, Signal
    <2>2. CASE at # Undated
      BY <1>1, <2>2 DEF ToDocument, Signal
    <2>3. QED
      BY <2>1, <2>2
  <1>3. ASSUME NEW i \in 1..s.knew, stored[i].setup = s.setup, s.at >= s.asked
        PROVE  ~Restates(s, stored[i])
    <2>1. i \in DOMAIN stored /\ stored[i] \in Signal
      BY <1>1, <1>2 DEF SignalInv, SignalsTypeOK
    <2>2. CASE i \in Recent(s.setup)
      BY <2>2 DEF IsDuplicateSetup
    <2>3. CASE i \notin Recent(s.setup)
      <3>1. /\ stored[i].created \in Int /\ stored[i].at \in Int /\ stored[i].asked \in Int
            /\ s.at \in Int /\ Window \in Nat
        BY <1>2, <2>1, SignalStoreAssumption DEF Signal
      <3>2. ~(stored[i].created >= clock - Window)
        BY <1>2, <1>3, <2>1, <2>3 DEF Recent
      <3>3. stored[i].at <= stored[i].created
        BY <2>1, <3>1 DEF SignalInv, StoredInv, KnewNoRestatement
      <3>4. s.at = clock
        BY <1>1, <1>2, <1>3, <3>1
      <3>5. s.at - stored[i].at > Window /\ s.at > stored[i].at
        BY <1>1, <3>1, <3>2, <3>3, <3>4
      <3>6. QED
        BY <3>1, <3>5 DEF Restates, Distance
    <2>4. QED
      BY <2>2, <2>3
  <1>4. KnewNoRestatement(s, stored, clock)
    BY <1>1, <1>2, <1>3 DEF KnewNoRestatement
  <1>5. QED
    BY <1>2, <1>4

-----------------------------------------------------------------------------
(* A request that moves without storing or broadcasting anything, and goes *)
(* on holding what it held.                                                *)
LEMMA MoveStep ==
  ASSUME SignalInv, NEW p \in Posts, NEW x \in PostState,
         post' = [post EXCEPT ![p] = x], UNCHANGED <<clock, stored, announced>>,
         x.pc \in {"new", "done", "dropped"},
         x.pc = "new" => x.index = 0 /\ x.doc \in Signal /\ KnewNoRestatement(x.doc, stored, clock),
         Holds(p) => x.pc = "dropped" /\ x.index = post[p].index,
         x.pc = "dropped" => Holds(p) \/ x.index = 0
  PROVE  SignalInv'
  <1>1. /\ post \in [Posts -> PostState \cup {Nothing}] /\ x # Nothing
        /\ post'[p] = x /\ \A q \in Posts : q # p => post'[q] = post[q]
    BY SignalStoreAssumption DEF SignalInv, SignalsTypeOK
  <1>2. SignalsTypeOK'
    BY <1>1 DEF SignalInv, SignalsTypeOK
  <1>3. StoredInv'
    BY DEF SignalInv, StoredInv, KnewNoRestatement, Restates
  <1>4. ASSUME NEW q \in Posts
        PROVE  /\ At(q, "new")' =>
                    /\ post'[q].index = 0 /\ post'[q].doc \in Signal
                    /\ KnewNoRestatement(post'[q].doc, stored', clock')
               /\ At(q, "inserted")' => q # p /\ At(q, "inserted")
               /\ Holds(q)' /\ post'[q].index # 0 => Holds(q) /\ post'[q].index = post[q].index
               /\ Holds(q) => Holds(q)' /\ post'[q].index = post[q].index
    <2>1. CASE q = p
      BY <1>1, <2>1 DEF At, Holds, KnewNoRestatement, Restates
    <2>2. CASE q # p
      BY <1>1, <2>2 DEF At, Holds, SignalInv, PostInv, KnewNoRestatement, Restates
    <2>3. QED
      BY <2>1, <2>2
  <1>5. PostInv'
    <2>1. ASSUME NEW q \in Posts
          PROVE  /\ Holds(q)' => post'[q].index \in 0..Len(stored')
                 /\ At(q, "inserted")' => post'[q].index # 0
      <3>1. Len(stored) \in Nat
        BY DEF SignalInv, SignalsTypeOK
      <3>2. CASE q = p
        BY <1>1, <3>1, <3>2 DEF At, Holds, SignalInv, PostInv
      <3>3. CASE q # p
        BY <1>1, <1>4, <3>3 DEF At, Holds, SignalInv, PostInv
      <3>4. QED
        BY <3>2, <3>3
    <2>2. ASSUME NEW q \in Posts, NEW r \in Posts, Holds(q)', Holds(r)',
                 post'[q].index = post'[r].index, post'[q].index # 0
          PROVE  q = r
      BY <1>4, <2>2 DEF SignalInv, PostInv
    <2>3. QED
      BY <1>4, <2>1, <2>2 DEF PostInv
  <1>6. AnnouncedOnce'
    <2> SUFFICES ASSUME NEW i \in DOMAIN stored
                 PROVE  (\E q \in Posts : Holds(q)' /\ post'[q].index = i)
                          <=> (\E q \in Posts : Holds(q) /\ post[q].index = i)
      BY DEF SignalInv, AnnouncedOnce, Holds
    <2>1. i # 0
      BY DEF SignalInv, SignalsTypeOK
    <2>2. QED
      BY <1>4, <2>1
  <1>7. QED
    BY <1>2, <1>3, <1>5, <1>6 DEF SignalInv

LEMMA LookStep ==
  ASSUME SignalInv, NEW p \in Posts, Look(p)
  PROVE  SignalInv'
  <1>1. PICK setup \in Setups, price \in EntryPrices, at \in 0..clock \cup {Undated} :
          LET s == ToDocument(setup, price, at) IN
          IF IsDuplicateSetup(s) THEN Moved(p, "done", Nothing, 0) ELSE Moved(p, "new", s, 0)
    BY DEF Look
  <1> DEFINE s == ToDocument(setup, price, at)
  <1>2. ~Holds(p) /\ UNCHANGED <<clock, stored, announced>>
    BY DEF Look, Holds, At
  <1>3. CASE IsDuplicateSetup(s)
    <2>1. [pc |-> "done", doc |-> Nothing, index |-> 0] \in PostState
      BY DEF PostState
    <2>2. QED
      BY <1>1, <1>2, <1>3, <2>1, MoveStep DEF Moved
  <1>4. CASE ~IsDuplicateSetup(s)
    <2>1. s \in Signal /\ KnewNoRestatement(s, stored, clock)
      BY <1>4, LookingSuffices
    <2>2. [pc |-> "new", doc |-> s, index |-> 0] \in PostState
      BY <2>1 DEF PostState
    <2> HIDE DEF s
    <2>3. QED
      BY <1>1, <1>2, <1>4, <2>1, <2>2, MoveStep DEF Moved, s
  <1>5. QED
    BY <1>3, <1>4

LEMMA RefusedStep ==
  ASSUME SignalInv, NEW p \in Posts, Refused(p)
  PROVE  SignalInv'
  <1>1. [pc |-> "done", doc |-> Nothing, index |-> 0] \in PostState
    BY DEF PostState
  <1>2. QED
    BY <1>1, MoveStep DEF Refused, Moved, Holds, At

LEMMA DropStep ==
  ASSUME SignalInv, NEW p \in Posts, Drop(p)
  PROVE  SignalInv'
  <1> DEFINE x == [pc |-> "dropped", doc |-> Nothing, index |-> post[p].index]
  <1>1. post[p] \in PostState
    BY DEF Drop, At, SignalInv, SignalsTypeOK
  <1>2. x \in PostState
    BY <1>1 DEF PostState
  <1>3. Holds(p) \/ x.index = 0
    BY DEF Drop, Holds, SignalInv, PostInv
  <1>4. QED
    BY <1>2, <1>3, MoveStep DEF Drop, Moved

(* What is stored is stored under no other document's fingerprint, by a    *)
(* request that knows of no restatement.                                   *)
LEMMA PostInsertStep ==
  ASSUME SignalInv, NEW p \in Posts, Insert(p)
  PROVE  SignalInv'
  <1> DEFINE s == [post[p].doc EXCEPT !.created = clock]
             n == Len(stored) + 1
             x == [pc |-> "inserted", doc |-> Nothing, index |-> n]
  <1>1. /\ post \in [Posts -> PostState \cup {Nothing}] /\ clock \in Nat
        /\ stored \in Seq(Signal) /\ announced \in Seq(Nat) /\ Len(announced) = Len(stored)
        /\ Len(stored) \in Nat /\ DOMAIN stored = 1..Len(stored)
        /\ DOMAIN announced = 1..Len(stored)
    BY DEF SignalInv, SignalsTypeOK
  <1>2. /\ At(p, "new") /\ post[p].doc \in Signal /\ KnewNoRestatement(post[p].doc, stored, clock)
        /\ post[p].index = 0
    BY DEF Insert, SignalInv, PostInv
  <1>3. /\ s \in Signal /\ s.setup = post[p].doc.setup /\ s.price = post[p].doc.price
        /\ s.at = post[p].doc.at /\ s.asked = post[p].doc.asked /\ s.knew = post[p].doc.knew
        /\ s.created = clock
    <2>1. PICK d \in Signal : d = post[p].doc
      BY <1>2
    <2>2. s = [d EXCEPT !.created = clock] /\ clock \in Int
      BY <1>1, <2>1
    <2>3. QED
      BY <2>1, <2>2 DEF Signal
  <1>4. KnewNoRestatement(s, stored, clock)
    BY <1>2, <1>3 DEF KnewNoRestatement, Restates
  <1>5. \A i \in DOMAIN stored : ~(stored[i].setup = s.setup /\ stored[i].at = s.at)
    BY <1>3 DEF Insert, Indexed
  <1> HIDE DEF s
  <1>6. /\ stored' = Append(stored, s) /\ announced' = Append(announced, 0)
        /\ post' = [post EXCEPT ![p] = x] /\ clock' = clock
    BY DEF Insert, Moved, s
  <1>7. /\ stored' \in Seq(Signal) /\ Len(stored') = n /\ DOMAIN stored' = 1..n
        /\ \A i \in DOMAIN stored : stored'[i] = stored[i]
        /\ stored'[n] = s
    BY <1>1, <1>3, <1>6
  <1>8. /\ announced' \in Seq(Nat) /\ Len(announced') = n
        /\ \A i \in DOMAIN stored : announced'[i] = announced[i]
        /\ announced'[n] = 0
    BY <1>1, <1>6
  <1>9. x \in PostState /\ x # Nothing
    BY <1>1, SignalStoreAssumption DEF PostState
  <1>10. /\ post'[p] = x /\ \A q \in Posts : q # p => post'[q] = post[q]
    BY <1>1, <1>6
  <1>11. SignalsTypeOK'
    BY <1>1, <1>6, <1>7, <1>8, <1>9 DEF SignalsTypeOK
  <1>12. ASSUME NEW d \in Signal, KnewNoRestatement(d, stored, clock) PROVE KnewNoRestatement(d, stored', clock')
    <2>1. SignalsTypeOK
      BY DEF SignalInv
    <2>2. clock' \in Nat /\ clock <= clock'
      BY <1>1, <1>6
    <2>3. Len(stored) <= Len(stored') /\ stored' \in Seq(Signal)
      BY <1>1, <1>7
    <2>4. QED
      BY <1>7, <1>12, <2>1, <2>2, <2>3, KnowledgeStays
  <1>13. StoredInv'
    <2>1. ASSUME NEW j \in DOMAIN stored
          PROVE  /\ stored'[j].created <= clock' /\ stored'[j].asked <= stored'[j].created
                 /\ KnewNoRestatement(stored'[j], stored', clock')
      <3>1. stored[j] \in Signal /\ KnewNoRestatement(stored[j], stored, clock)
        BY <1>1 DEF SignalInv, StoredInv
      <3>2. KnewNoRestatement(stored[j], stored', clock')
        BY <1>12, <3>1
      <3>3. QED
        BY <1>6, <1>7, <3>2 DEF SignalInv, StoredInv
    <2>2. /\ s.created <= clock' /\ s.asked <= s.created
          /\ KnewNoRestatement(s, stored', clock')
      <3>1. s.asked \in Int /\ s.asked <= clock
        BY <1>3, <1>4 DEF Signal, KnewNoRestatement
      <3>2. QED
        BY <1>1, <1>3, <1>4, <1>6, <1>12, <3>1
    <2>3. ASSUME NEW j \in DOMAIN stored', NEW i \in DOMAIN stored', i # j
          PROVE  ~(stored'[i].setup = stored'[j].setup /\ stored'[i].at = stored'[j].at)
      <3>1. CASE i \in DOMAIN stored /\ j \in DOMAIN stored
        BY <1>7, <2>3, <3>1 DEF SignalInv, StoredInv
      <3>2. CASE i = n /\ j \in DOMAIN stored
        BY <1>5, <1>7, <3>2
      <3>3. CASE j = n /\ i \in DOMAIN stored
        BY <1>5, <1>7, <3>3
      <3>4. QED
        BY <1>1, <1>7, <2>3, <3>1, <3>2, <3>3
    <2>4. ASSUME NEW j \in DOMAIN stored'
          PROVE  /\ stored'[j].created <= clock' /\ stored'[j].asked <= stored'[j].created
                 /\ KnewNoRestatement(stored'[j], stored', clock')
      <3>1. j \in DOMAIN stored \/ j = n
        BY <1>1, <1>7
      <3>2. QED
        BY <1>7, <2>1, <2>2, <3>1
    <2>5. QED
      BY <2>3, <2>4 DEF StoredInv
  <1>14. ASSUME NEW q \in Posts
         PROVE  /\ At(q, "new")' => q # p /\ At(q, "new")
                /\ At(q, "inserted")' => q = p \/ At(q, "inserted")
                /\ Holds(q)' <=> q = p \/ Holds(q)
                /\ q # p => post'[q] = post[q]
                /\ Holds(q) => q # p
    BY <1>2, <1>9, <1>10 DEF At, Holds
  <1>15. ASSUME NEW q \in Posts, Holds(q) PROVE post[q].index \in 0..Len(stored)
    BY <1>15 DEF SignalInv, PostInv
  <1>16. PostInv'
    <2>1. ASSUME NEW q \in Posts, At(q, "new")'
          PROVE  /\ post'[q].index = 0 /\ post'[q].doc \in Signal
                 /\ KnewNoRestatement(post'[q].doc, stored', clock')
      BY <1>12, <1>14, <2>1 DEF SignalInv, PostInv
    <2>2. ASSUME NEW q \in Posts
          PROVE  /\ Holds(q)' => post'[q].index \in 0..Len(stored')
                 /\ At(q, "inserted")' => post'[q].index # 0
      <3>1. CASE q = p
        BY <1>1, <1>7, <1>10, <3>1
      <3>2. CASE q # p
        BY <1>1, <1>7, <1>14, <1>15, <3>2 DEF SignalInv, PostInv
      <3>3. QED
        BY <3>1, <3>2
    <2>3. ASSUME NEW q \in Posts, NEW r \in Posts, Holds(q)', Holds(r)',
                 post'[q].index = post'[r].index, post'[q].index # 0
          PROVE  q = r
      <3>1. CASE q = p \/ r = p
        BY <1>1, <1>10, <1>14, <1>15, <2>3, <3>1
      <3>2. CASE q # p /\ r # p
        BY <1>14, <2>3, <3>2 DEF SignalInv, PostInv
      <3>3. QED
        BY <3>1, <3>2
    <2>4. QED
      BY <2>1, <2>2, <2>3 DEF PostInv
  <1>17. AnnouncedOnce'
    <2> SUFFICES ASSUME NEW i \in DOMAIN stored'
                 PROVE  /\ announced'[i] <= 1
                        /\ announced'[i] = 0 <=> \E q \in Posts : Holds(q)' /\ post'[q].index = i
      BY DEF AnnouncedOnce, Holds
    <2>1. CASE i = n
      BY <1>8, <1>10, <1>14, <2>1
    <2>2. CASE i \in DOMAIN stored
      <3>1. /\ announced[i] <= 1
            /\ announced[i] = 0 <=> \E q \in Posts : Holds(q) /\ post[q].index = i
        BY <2>2 DEF SignalInv, AnnouncedOnce, Holds
      <3>2. i # n /\ announced'[i] = announced[i]
        BY <1>1, <1>8, <2>2
      <3>3. ASSUME NEW q \in Posts
            PROVE  Holds(q)' /\ post'[q].index = i <=> Holds(q) /\ post[q].index = i
        BY <1>10, <1>14, <3>2
      <3>4. QED
        BY <3>1, <3>2, <3>3
    <2>3. QED
      BY <1>1, <1>7, <2>1, <2>2
  <1>18. QED
    BY <1>11, <1>13, <1>16, <1>17 DEF SignalInv

(* The only request that holds a signal broadcasts it.                     *)
LEMMA AnnounceStep ==
  ASSUME SignalInv, NEW p \in Posts, Announce(p)
  PROVE  SignalInv'
  <1> DEFINE n == post[p].index
             x == [pc |-> "done", doc |-> Nothing, index |-> 0]
  <1>1. /\ post \in [Posts -> PostState \cup {Nothing}]
        /\ announced \in Seq(Nat) /\ Len(announced) = Len(stored) /\ Len(stored) \in Nat
        /\ DOMAIN stored = 1..Len(stored) /\ DOMAIN announced = 1..Len(stored)
    BY DEF SignalInv, SignalsTypeOK
  <1>2. Holds(p) /\ n \in DOMAIN stored
    BY <1>1 DEF Announce, Holds, SignalInv, PostInv
  <1>3. announced[n] = 0
    BY <1>2 DEF SignalInv, AnnouncedOnce, Holds
  <1>4. /\ announced' = [announced EXCEPT ![n] = 1] /\ UNCHANGED <<clock, stored>>
        /\ post' = [post EXCEPT ![p] = x]
    BY <1>1, <1>2, <1>3 DEF Announce, Moved
  <1>5. x \in PostState /\ x # Nothing
    BY SignalStoreAssumption DEF PostState
  <1>6. SignalsTypeOK'
    BY <1>1, <1>2, <1>4, <1>5 DEF SignalInv, SignalsTypeOK
  <1>7. StoredInv'
    BY <1>4 DEF SignalInv, StoredInv
  <1>8. ASSUME NEW q \in Posts
        PROVE  /\ At(q, "new")' => q # p /\ At(q, "new")
               /\ At(q, "inserted")' => q # p /\ At(q, "inserted")
               /\ Holds(q)' <=> q # p /\ Holds(q)
               /\ q # p => post'[q] = post[q]
    BY <1>1, <1>4, <1>5 DEF At, Holds
  <1>9. PostInv'
    BY <1>4, <1>8 DEF SignalInv, PostInv
  <1>10. AnnouncedOnce'
    <2> SUFFICES ASSUME NEW i \in DOMAIN stored
                 PROVE  /\ announced'[i] <= 1
                        /\ announced'[i] = 0 <=> \E q \in Posts : Holds(q)' /\ post'[q].index = i
      BY <1>4 DEF AnnouncedOnce, Holds
    <2>1. CASE i = n
      <3>1. announced'[i] = 1
        BY <1>1, <1>2, <1>4, <2>1
      <3>2. ASSUME NEW q \in Posts, Holds(q)' PROVE post'[q].index # n
        <4>1. q # p /\ Holds(q) /\ post'[q].index = post[q].index
          BY <1>8, <3>2
        <4>2. QED
          BY <1>1, <1>2, <4>1 DEF SignalInv, PostInv
      <3>3. QED
        BY <2>1, <3>1, <3>2
    <2>2. CASE i # n
      <3>1. announced'[i] = announced[i]
        BY <1>1, <1>4, <2>2
      <3>2. \A q \in Posts : Holds(q)' /\ post'[q].index = i <=> Holds(q) /\ post[q].index = i
        BY <1>8, <2>2
      <3>3. QED
        BY <3>1, <3>2 DEF SignalInv, AnnouncedOnce, Holds
    <2>3. QED
      BY <2>1, <2>2
  <1>11. QED
    BY <1>6, <1>7, <1>9, <1>10 DEF SignalInv

LEMMA TickStep ==
  ASSUME SignalInv, SignalsTick
  PROVE  SignalInv'
  <1>1. clock \in Nat /\ clock' = clock + 1 /\ UNCHANGED <<post, stored, announced>>
    BY DEF SignalsTick, SignalInv, SignalsTypeOK
  <1>2. SignalsTypeOK'
    BY <1>1 DEF SignalInv, SignalsTypeOK
  <1>3. ASSUME NEW d \in Signal, KnewNoRestatement(d, stored, clock)
        PROVE  KnewNoRestatement(d, stored', clock')
    BY <1>1, <1>3 DEF KnewNoRestatement, Signal
  <1>4. StoredInv'
    <2>1. ASSUME NEW j \in DOMAIN stored
          PROVE  stored[j] \in Signal /\ stored[j].created <= clock'
      <3>1. stored[j] \in Signal /\ stored[j].created <= clock
        BY DEF SignalInv, SignalsTypeOK, StoredInv
      <3>2. stored[j].created \in Int
        BY <3>1 DEF Signal
      <3>3. QED
        BY <1>1, <3>1, <3>2
    <2>2. QED
      BY <1>1, <1>3, <2>1 DEF SignalInv, StoredInv
  <1>5. PostInv'
    BY <1>1, <1>3 DEF SignalInv, PostInv, At, Holds
  <1>6. AnnouncedOnce'
    BY <1>1 DEF SignalInv, AnnouncedOnce, At
  <1>7. QED
    BY <1>2, <1>4, <1>5, <1>6 DEF SignalInv

LEMMA SignalStep == SignalInv /\ [SignalsNext]_svars => SignalInv'
  <1> SUFFICES ASSUME SignalInv, [SignalsNext]_svars PROVE SignalInv'
    OBVIOUS
  <1>1. CASE UNCHANGED svars
    BY <1>1 DEF svars, SignalInv, SignalsTypeOK, StoredInv, PostInv, AnnouncedOnce, At, Holds
  <1>2. QED
    BY <1>1, LookStep, RefusedStep, PostInsertStep, AnnounceStep, DropStep, TickStep
    DEF SignalsNext

(* For any requests, window and tolerance, a setup is stored twice within  *)
(* the window only by requests that overlap or arrive late (the window     *)
(* check and the unique index of persistSignal, 40-67).                    *)
THEOREM RestatedByOverlapOnly == SignalsSpec => []RestatementsOverlap
  <1>1. SignalInv => RestatementsOverlap
    <2> SUFFICES ASSUME SignalInv, NEW j \in DOMAIN stored, NEW i \in 1..(j - 1),
                        stored[i].setup = stored[j].setup
                 PROVE  /\ stored[i].at # stored[j].at
                        /\ Restates(stored[j], stored[i]) =>
                             i > stored[j].knew \/ stored[j].at < stored[j].asked
      BY DEF RestatementsOverlap
    <2>1. /\ DOMAIN stored = 1..Len(stored) /\ Len(stored) \in Nat /\ stored[j] \in Signal
      BY DEF SignalInv, SignalsTypeOK
    <2>2. i \in DOMAIN stored /\ i # j /\ KnewNoRestatement(stored[j], stored, clock)
      BY <2>1 DEF SignalInv, StoredInv
    <2>3. /\ stored[j].at \in Int /\ stored[j].asked \in Int /\ stored[j].knew \in Nat
          /\ i \in Nat \ {0}
      BY <2>1 DEF Signal
    <2>4. i <= stored[j].knew /\ stored[j].at >= stored[j].asked
            => ~Restates(stored[j], stored[i])
      BY <2>2, <2>3 DEF KnewNoRestatement
    <2>5. QED
      BY <2>2, <2>3, <2>4 DEF SignalInv, StoredInv
  <1>2. QED
    BY <1>1, SignalsInitInv, SignalStep, PTL DEF SignalsSpec

(* A stored signal is broadcast at most once, and is silent exactly while  *)
(* the request that stored it is at work, or for good if that request was  *)
(* dropped (69-72).                                                        *)
THEOREM BroadcastByItsRequest == SignalsSpec => []AnnouncedOnce
  <1>1. SignalInv => AnnouncedOnce
    BY DEF SignalInv
  <1>2. QED
    BY <1>1, SignalsInitInv, SignalStep, PTL DEF SignalsSpec

-----------------------------------------------------------------------------
(* How the signals did.                                                    *)

(* A report, once made, is what the rows say of each signal of the sample. *)
StatsInv ==
  /\ StatsTypeOK
  /\ report # NoReport =>
       sample # {} /\ report = [s \in sample |-> OutcomeOf(answer, s)]

\* The empty report is a report about nothing.
LEMMA NoReportIsEmpty == DOMAIN NoReport = {}
  BY DEF NoReport

LEMMA StatsInitInv == StatsInit => StatsInv
  BY NoReportIsEmpty, SignalStatsAssumption DEF StatsInit, StatsInv, StatsTypeOK

LEMMA ReportedStep ==
  ASSUME StatsInv, NEW rows \in Seq(Rows), Reported(rows)
  PROVE  StatsInv'
  <1>1. /\ answer' = rows /\ UNCHANGED <<newest, sample>> /\ sample # {}
        /\ report' = [s \in sample |-> OutcomeOf(rows, s)]
    BY DEF Reported
  <1> QED
    BY <1>1 DEF StatsInv, StatsTypeOK, OutcomeOf, RowsOf

LEMMA StatsStep == StatsInv /\ [StatsNext]_tvars => StatsInv'
  <1> SUFFICES ASSUME StatsInv, [StatsNext]_tvars PROVE StatsInv'
    OBVIOUS
  <1>1. CASE NewSignal
    <2>1. UNCHANGED <<sample, answer, report>> /\ newest' \in 0..MaxSignals /\ newest' > newest
      BY <1>1, SignalStatsAssumption DEF NewSignal, StatsInv, StatsTypeOK
    <2>2. sample' \subseteq 1..newest'
      BY <2>1, SignalStatsAssumption DEF StatsInv, StatsTypeOK
    <2> QED
      BY <2>1, <2>2 DEF StatsInv, StatsTypeOK, OutcomeOf, RowsOf
  <1>2. CASE Ask
    <2>1. UNCHANGED <<newest, answer, report>> /\ sample' \subseteq 1..newest /\ sample = {}
      BY <1>2 DEF Ask
    <2>2. report = NoReport
      BY <2>1 DEF StatsInv
    <2> QED
      BY <2>1, <2>2, NoReportIsEmpty DEF StatsInv, StatsTypeOK
  <1>3. CASE Evaluated
    <2>0. PICK n \in 0..MaxRows : \E rows \in [1..n -> Rows] : Reported(rows)
      BY <1>3 DEF Evaluated
    <2>1. PICK rows \in [1..n -> Rows] : Reported(rows)
      BY <2>0
    <2>2. rows \in Seq(Rows)
      BY SignalStatsAssumption
    <2> QED
      BY <2>1, <2>2, ReportedStep
  <1>4. CASE EvaluationFailed
    <2>1. <<>> \in Seq(Rows)
      OBVIOUS
    <2> QED
      BY <1>4, <2>1, ReportedStep DEF EvaluationFailed
  <1>5. CASE StatsAgain
    BY <1>5, NoReportIsEmpty DEF StatsAgain, StatsInv, StatsTypeOK
  <1>6. CASE UNCHANGED tvars
    BY <1>6 DEF tvars, StatsInv, StatsTypeOK, OutcomeOf, RowsOf
  <1> QED
    BY <1>1, <1>2, <1>3, <1>4, <1>5, <1>6 DEF StatsNext

(* The last row about a signal is one about it.                            *)
LEMMA RowsPaired ==
  ASSUME StatsInv, report # NoReport
  PROVE  PairedById
  <1> SUFFICES ASSUME NEW s \in DOMAIN report
               PROVE  LET about == {i \in DOMAIN answer : answer[i].id = s} IN
                      IF about = {} THEN report[s].outcome = "NO_DATA"
                      ELSE \E i \in about :
                             report[s] = [outcome |-> answer[i].outcome, pnl |-> answer[i].pnl]
    BY DEF PairedById
  <1>1. report[s] = OutcomeOf(answer, s)
    BY DEF StatsInv
  <1>2. RowsOf(answer, s) \in SUBSET (1..Len(answer)) /\ Len(answer) \in Nat
    BY DEF StatsInv, StatsTypeOK, RowsOf
  <1>3. CASE RowsOf(answer, s) = {}
    BY <1>1, <1>3 DEF RowsOf, OutcomeOf, Unevaluated
  <1>4. CASE RowsOf(answer, s) # {}
    <2>1. Max(RowsOf(answer, s)) \in RowsOf(answer, s)
      BY <1>2, <1>4, LastPosition
    <2> QED
      BY <1>1, <1>4, <2>1 DEF RowsOf, OutcomeOf
  <1> QED
    BY <1>3, <1>4

(* What the break-even rate decides, in numbers: w and l are what the wins *)
(* made and the losses lost, m and n how many there were of each.          *)
LEMMA AboveBreakeven ==
  ASSUME NEW w \in Int, NEW l \in Int, NEW m \in Nat, NEW n \in Nat, l > 0, m > 0, n > 0
  PROVE  m * (w * n + l * m) > (l * m) * (m + n) <=> w - l > 0
  <1>1. m * (w * n + l * m) - (l * m) * (m + n) = (m * n) * (w - l)
    OBVIOUS
  <1> DEFINE a == m * (w * n + l * m)
             b == (l * m) * (m + n)
             k == m * n
  <1>2. k \in Int /\ k > 0
    <2>1. \A x, y \in Nat : x > 0 /\ y > 0 => x * y \in Nat /\ x * y > 0
      OBVIOUS
    <2> QED
      BY <2>1
  <1>3. a \in Int /\ b \in Int
    OBVIOUS
  <1>4. a - b = k * (w - l)
    BY <1>1
  <1> HIDE DEF a, b, k
  <1>5. k * (w - l) > 0 <=> w - l > 0
    <2>1. \A x, y \in Int : x > 0 => (x * y > 0 <=> y > 0)
      OBVIOUS
    <2> QED
      BY <1>2, <2>1
  <1>6. k * (w - l) \in Int
    BY <1>2
  <1>7. a > b <=> w - l > 0
    BY <1>3, <1>4, <1>5, <1>6
  <1> QED
    BY <1>7 DEF a, b

LEMMA BreakevenRight ==
  ASSUME StatsInv, report # NoReport
  PROVE  BreakevenDecides
  <1> SUFFICES ASSUME HasBreakeven, Pnl(Losses) <= 0
               PROVE  Above(WinRate, Breakeven) <=> Expectancy[1] > 0
    BY DEF BreakevenDecides
  <1> DEFINE f == [s \in DOMAIN report |-> report[s].pnl]
  <1>1. /\ DOMAIN report \subseteq 1..newest /\ newest \in Nat
        /\ \A s \in DOMAIN report : f[s] \in Int
    <2>1. DOMAIN report = sample /\ sample \subseteq 1..newest /\ newest \in Nat
      BY SignalStatsAssumption DEF StatsInv, StatsTypeOK
    <2>2. ASSUME NEW s \in DOMAIN report PROVE report[s].pnl \in Int
      <3>1. report[s] = OutcomeOf(answer, s)
        BY DEF StatsInv
      <3>2. CASE RowsOf(answer, s) = {}
        BY <3>1, <3>2 DEF OutcomeOf, Unevaluated
      <3>3. CASE RowsOf(answer, s) # {}
        <4>1. RowsOf(answer, s) \in SUBSET (1..Len(answer)) /\ Len(answer) \in Nat
          BY DEF StatsInv, StatsTypeOK, RowsOf
        <4>2. Max(RowsOf(answer, s)) \in DOMAIN answer
          BY <3>3, <4>1, LastPosition DEF RowsOf
        <4>3. answer[Max(RowsOf(answer, s))].pnl \in Int
          BY <4>2, SignalStatsAssumption DEF StatsInv, StatsTypeOK
        <4> QED
          BY <3>1, <3>3, <4>3 DEF OutcomeOf
      <3> QED
        BY <3>2, <3>3
    <2> QED
      BY <2>1, <2>2
  <1>2. IsFiniteSet(DOMAIN report)
    <2>1. 1 \in Int /\ newest \in Int
      BY <1>1
    <2>2. IsFiniteSet(1..newest)
      BY <2>1, FS_Interval
    <2> QED
      BY <1>1, <2>2, FS_Subset
  <1>3. /\ IsFiniteSet(Wins) /\ IsFiniteSet(Losses) /\ Wins \cap Losses = {}
        /\ Wins \subseteq DOMAIN report /\ Losses \subseteq DOMAIN report
    BY <1>2, FS_Subset DEF Wins, Losses
  <1> HIDE DEF f
  <1>4. \A S \in SUBSET DOMAIN report : Pnl(S) = SumFunctionOnSet(f, S) /\ Pnl(S) \in Int
    <2> SUFFICES ASSUME NEW S \in SUBSET DOMAIN report
                 PROVE  Pnl(S) = SumFunctionOnSet(f, S) /\ Pnl(S) \in Int
      OBVIOUS
    <2> DEFINE g == [s \in S |-> report[s].pnl]
    <2>1. Pnl(S) = SumFunctionOnSet(g, S)
      BY DEF Pnl, SumFunction
    <2>2. IsFiniteSet(S) /\ \A s \in S : g[s] = f[s] /\ f[s] \in Int
      BY <1>1, <1>2, FS_Subset DEF f
    <2> HIDE DEF g
    <2>3. SumFunctionOnSet(g, S) = SumFunctionOnSet(f, S)
      BY <2>2, SumSame
    <2>4. SumFunctionOnSet(f, S) \in Int
      BY <2>2, SumInt
    <2> QED
      BY <2>1, <2>3, <2>4
  <1> DEFINE w == Pnl(Wins)
             p == Pnl(Losses)
             m == Cardinality(Wins)
             n == Cardinality(Losses)
  <1>5. w \in Int /\ p \in Int /\ p <= 0 /\ m \in Nat /\ n \in Nat
    BY <1>3, <1>4, FS_CardinalityType
  <1>6. Pnl(Closed) = w + p
    <2>1. SumFunctionOnSet(f, Wins \cup Losses)
            = SumFunctionOnSet(f, Wins) + SumFunctionOnSet(f, Losses)
      BY <1>1, <1>3, SumUnion
    <2>2. Closed \in SUBSET DOMAIN report
      BY <1>3 DEF Closed
    <2> QED
      BY <1>3, <1>4, <2>1, <2>2 DEF Closed
  <1>7. Cardinality(Closed) = m + n
    <2>1. Cardinality(Wins \cup Losses)
            = Cardinality(Wins) + Cardinality(Losses) - Cardinality(Wins \cap Losses)
      BY <1>3, FS_Union
    <2>2. Cardinality(Wins \cap Losses) = 0
      BY <1>3, FS_EmptySet
    <2> QED
      BY <1>5, <2>1, <2>2 DEF Closed
  <1>8. /\ (m = 0 <=> Wins = {}) /\ (n = 0 <=> Losses = {})
        /\ (Wins = {} => w = 0) /\ (Losses = {} => p = 0)
    <2>1. (m = 0 <=> Wins = {}) /\ (n = 0 <=> Losses = {})
      BY <1>3, FS_EmptySet
    <2>2. Pnl({}) = 0
      BY <1>4, SumEmpty
    <2> QED
      BY <2>1, <2>2
  <1> HIDE DEF w, p, m, n
  <1>9. AvgLoss = <<-p, n>> /\ n > 0 /\ -p > 0
    <2>1. Magnitude(p) = -p
      BY <1>5 DEF Magnitude
    <2>2. CASE Losses = {}
      <3>1. AvgLoss = <<0, 1>>
        BY <1>8, <2>1, <2>2 DEF AvgLoss, Mean, p
      <3>2. LossTerm = 0 * AvgWin[2]
        BY <3>1 DEF LossTerm
      <3>3. AvgWin[2] \in Int
        BY <1>5 DEF AvgWin, Mean, m
      <3>4. LossTerm = 0
        BY <3>2, <3>3
      <3> QED
        BY <3>4 DEF HasBreakeven
    <2>3. CASE Losses # {}
      <3>1. AvgLoss = <<-p, n>> /\ n > 0
        BY <1>5, <1>8, <2>1, <2>3 DEF AvgLoss, Mean, p, n
      <3>2. AvgWin[2] \in Int
        BY <1>5 DEF AvgWin, Mean, m
      <3>3. p # 0
        <4> SUFFICES ASSUME p = 0 PROVE FALSE
          OBVIOUS
        <4>1. LossTerm = 0 * AvgWin[2]
          BY <3>1 DEF LossTerm
        <4> QED
          BY <3>2, <4>1 DEF HasBreakeven
      <3> QED
        BY <1>5, <3>1, <3>3
    <2> QED
      BY <2>2, <2>3
  <1> DEFINE l == -p
  <1>10. l \in Int /\ l > 0
    BY <1>5, <1>9
  <1>11. WinRate = <<m, m + n>> /\ Expectancy[1] = w - l
    BY <1>5, <1>6, <1>7 DEF WinRate, Expectancy, m
  <1>12. CASE Wins = {}
    <2>1. AvgWin = <<0, 1>> /\ m = 0 /\ w = 0
      BY <1>8, <1>12 DEF AvgWin, Mean, w
    <2>2. LossTerm = l * 1 /\ WinTerm = 0 * n
      BY <1>9, <2>1 DEF LossTerm, WinTerm
    <2>3. LossTerm = l /\ WinTerm = 0
      BY <1>5, <1>10, <2>2
    <2>4. Breakeven = <<l, l>>
      BY <1>10, <2>3 DEF Breakeven
    <2>5. Above(WinRate, Breakeven) <=> 0 * l > l * (0 + n)
      BY <1>11, <2>1, <2>4 DEF Above
    <2>6. 0 * l = 0 /\ l * (0 + n) > 0
      <3>1. \A x, y \in Int : x > 0 /\ y > 0 => x * (0 + y) > 0 /\ 0 * x = 0
        OBVIOUS
      <3> QED
        BY <1>5, <1>9, <1>10, <3>1
    <2>7. ~(w - l > 0)
      BY <1>10, <2>1
    <2> HIDE DEF l
    <2>8. ~(0 * l > l * (0 + n))
      <3> DEFINE k == l * (0 + n)
      <3>1. k \in Int /\ 0 * l = 0 /\ k > 0
        BY <1>5, <1>10, <2>6
      <3> HIDE DEF k
      <3>2. ~(0 > k)
        BY <3>1
      <3> QED
        BY <3>1, <3>2 DEF k
    <2>9. ~Above(WinRate, Breakeven)
      BY <2>5, <2>8
    <2>10. ~(Expectancy[1] > 0)
      BY <1>11, <2>7 DEF l
    <2> QED
      BY <2>9, <2>10
  <1>13. CASE Wins # {}
    <2>1. AvgWin = <<w, m>> /\ m > 0
      BY <1>5, <1>8, <1>13 DEF AvgWin, Mean, w, m
    <2>2. LossTerm = l * m /\ WinTerm = w * n
      BY <1>9, <2>1 DEF LossTerm, WinTerm
    <2>3. Breakeven = <<l * m, w * n + l * m>>
      BY <2>2 DEF Breakeven
    <2>4. Above(WinRate, Breakeven) <=> m * (w * n + l * m) > (l * m) * (m + n)
      BY <1>11, <2>3 DEF Above
    <2> HIDE DEF l
    <2>5. m * (w * n + l * m) > (l * m) * (m + n) <=> w - l > 0
      BY <1>5, <1>9, <1>10, <2>1, AboveBreakeven
    <2> QED
      BY <1>11, <2>4, <2>5 DEF l
  <1> QED
    BY <1>12, <1>13

(* For any number of signals, rows and reports: whatever order the rows    *)
(* come in and whatever they leave out, each signal is reported as a row   *)
(* about it says; and as long as the stops together lost, the win rate is  *)
(* above the break-even rate exactly when the closed trades made money     *)
(* (indexOutcomes and performanceStats of eval.ts, 49-68, 88-110).         *)
THEOREM ReportsAreTrue == StatsSpec => []ReportIsTrue
  <1>1. StatsInv => ReportIsTrue
    BY RowsPaired, BreakevenRight DEF ReportIsTrue
  <1>2. QED
    BY <1>1, StatsInitInv, StatsStep, PTL DEF StatsSpec

-----------------------------------------------------------------------------
(* The risk gate.                                                          *)

(* What was reckoned of the order that passed still stands: it can be paid *)
(* for, and with it neither the positions nor the risk are too many.       *)
Reckoned ==
  (gated # NoOrderYet /\ gated.steady) =>
    LET o == gated.order
    IN  /\ Cardinality(HeldNames \cup {o.name}) <= MaxPositions
        /\ OpenRisk + PositionRisk(o.quantity, o.quantity * gated.price, o.stop)
             <= MaxRiskPct * Value

\* The session's P&L is what was realised since the opening bell rang.
BellRung ==
  /\ realised \in [0..MaxTime -> Int]
  /\ \A t \in 0..MaxTime : t > now => realised[t] = 0
  /\ sinceBell = SessionPnl

HoldingsOK == holding \in [Names -> Holding \cup {NoHolding}] /\ IsFiniteSet(HeldNames)

RiskInv == RiskTypeOK /\ HoldingsOK /\ BellRung /\ Reckoned

(* Arithmetic the prover does not find inside a larger step.               *)
LEMMA Multiplied ==
  /\ \A m, n \in Nat : m * n \in Nat
  /\ \A m, n \in Int : m * n \in Int
  /\ \A m, n \in Nat : m > 0 /\ n > 0 => m * n > 0
  <1>1. \A m, n \in Nat : m * n \in Nat
    OBVIOUS
  <1>2. \A m, n \in Int : m * n \in Int
    OBVIOUS
  <1>3. \A m, n \in Nat : m > 0 /\ n > 0 => m * n > 0
    OBVIOUS
  <1> QED
    BY <1>1, <1>2, <1>3

LEMMA MultipliedMore ==
  ASSUME NEW q \in Nat, NEW m \in Nat, NEW n \in Nat
  PROVE  /\ m <= n => q * m <= q * n /\ m * q <= n * q
         /\ m < n /\ q > 0 => m * q < q * n
         /\ (m + n) * q = m * q + n * q
  <1>1. m <= n => q * m <= q * n
    OBVIOUS
  <1>2. m <= n => m * q <= n * q
    OBVIOUS
  <1>3. m < n /\ q > 0 => m * q < q * n
    OBVIOUS
  <1>4. (m + n) * q = m * q + n * q
    OBVIOUS
  <1> QED
    BY <1>1, <1>2, <1>3, <1>4

LEMMA DividedBack ==
  ASSUME NEW q \in Nat, q > 0, NEW p \in Nat
  PROVE  (q * p) \div q = p
  OBVIOUS

LEMMA Quotient ==
  ASSUME NEW t \in Nat, NEW d \in Nat, d > 0
  PROVE  /\ t \div d \in Nat /\ t % d \in Nat /\ t % d < d
         /\ (t \div d) * d \in Nat /\ t = (t \div d) * d + (t % d)
  <1>1. t \div d \in Nat /\ t % d \in Nat
    OBVIOUS
  <1>2. t % d < d
    OBVIOUS
  <1>3. t % d = t - d * (t \div d)
    OBVIOUS
  <1>4. d * (t \div d) = (t \div d) * d /\ (t \div d) * d \in Nat
    BY <1>1, Multiplied
  <1> QED
    BY <1>1, <1>2, <1>3, <1>4

LEMMA QuotientIs ==
  ASSUME NEW d \in Nat, d > 0, NEW q \in Nat, NEW r \in Nat, r < d, NEW t, t = q * d + r
  PROVE  t \div d = q /\ t % d = r
  OBVIOUS

(* The session that a tick belongs to is that of the tick before, unless   *)
(* the bell rings at it.                                                   *)
LEMMA SessionAt ==
  ASSUME NEW t \in Nat
  PROVE  /\ SessionStart(t) \in Int /\ SessionStart(t) <= t
         /\ SessionStart(t + 1)
              = IF (t + 1) % DayLength = SessionOpen THEN t + 1 ELSE SessionStart(t)
  <1> DEFINE d == DayLength
             s == SessionOpen
             q == t \div d
             r == t % d
             b == q * d
  <1>1. d \in Nat /\ d > 0 /\ s \in Nat /\ s < d
    BY RiskLimitsAssumption
  <1>2. q \in Nat /\ r \in Nat /\ r < d /\ b \in Nat /\ t = b + r
    BY <1>1, Quotient
  <1>3. SessionStart(t) = IF b + s > t THEN b + s - d ELSE b + s
    BY <1>1, <1>2 DEF SessionStart
  <1>4. CASE r + 1 < d
    <2>1. (t + 1) \div d = q /\ (t + 1) % d = r + 1
      <3> HIDE DEF q, r
      <3>1. t + 1 = q * d + (r + 1)
        BY <1>2
      <3> QED
        BY <1>1, <1>2, <1>4, <3>1, QuotientIs
    <2>2. SessionStart(t + 1) = IF b + s > t + 1 THEN b + s - d ELSE b + s
      BY <1>1, <1>2, <2>1 DEF SessionStart
    <2> HIDE DEF b, r, q, d, s
    <2> QED
      BY <1>1, <1>2, <1>3, <1>4, <2>1, <2>2 DEF d, s
  <1>5. CASE ~(r + 1 < d)
    <2>0. r + 1 = d
      BY <1>1, <1>2, <1>5
    <2>1. (t + 1) \div d = q + 1 /\ (t + 1) % d = 0
      <3> HIDE DEF q, r
      <3>1. (q + 1) * d = q * d + d
        BY <1>1, <1>2, MultipliedMore
      <3>2. t + 1 = (q + 1) * d + 0
        BY <1>1, <1>2, <2>0, <3>1
      <3> QED
        BY <1>1, <1>2, <3>2, QuotientIs
    <2>2. (q + 1) * d = b + d
      <3> HIDE DEF q
      <3> QED
        BY <1>1, <1>2, MultipliedMore
    <2>3. SessionStart(t + 1) = IF b + d + s > t + 1 THEN b + d + s - d ELSE b + d + s
      BY <1>1, <1>2, <2>1, <2>2 DEF SessionStart
    <2> HIDE DEF b, r, q, d, s
    <2> QED
      BY <1>1, <1>2, <1>3, <2>0, <2>1, <2>3 DEF d, s
  <1> HIDE DEF b, r, q, d, s
  <1> QED
    BY <1>1, <1>2, <1>3, <1>4, <1>5

(* The sum over the session follows the trades.                            *)
SessionTicks(t) == {u \in 0..t : u >= SessionStart(t)}

LEMMA SessionSum ==
  ASSUME RiskTypeOK, BellRung
  PROVE  /\ IsFiniteSet(SessionTicks(now)) /\ now \in SessionTicks(now)
         /\ SessionTicks(now) \subseteq 0..MaxTime
         /\ \A u \in SessionTicks(now) : realised[u] \in Int
         /\ SessionPnl = SumFunctionOnSet(realised, SessionTicks(now)) /\ SessionPnl \in Int
  <1>1. now \in Nat /\ MaxTime \in Nat /\ now <= MaxTime
    BY RiskLimitsAssumption DEF RiskTypeOK
  <1>2. SessionTicks(now) \subseteq 0..now /\ now \in SessionTicks(now)
    BY <1>1, SessionAt DEF SessionTicks
  <1>3. IsFiniteSet(SessionTicks(now))
    <2>1. IsFiniteSet(0..now)
      BY <1>1, FS_Interval
    <2> QED
      BY <1>2, <2>1, FS_Subset
  <1>4. \A u \in SessionTicks(now) : u \in 0..MaxTime /\ realised[u] \in Int
    BY <1>1, <1>2 DEF BellRung
  <1>5. SessionPnl = SumFunctionOnSet(realised, SessionTicks(now))
    BY DEF SessionPnl, SessionTicks
  <1>6. SumFunctionOnSet(realised, SessionTicks(now)) \in Int
    BY <1>3, <1>4, SumInt
  <1> QED
    BY <1>2, <1>3, <1>4, <1>5, <1>6

LEMMA BellKept ==
  ASSUME BellRung, UNCHANGED <<realised, now, sinceBell>>
  PROVE  BellRung'
  BY DEF BellRung, SessionPnl, SessionStart

LEMMA BellAtSale ==
  ASSUME RiskTypeOK, BellRung, NEW pnl \in Int, realised' = [realised EXCEPT ![now] = @ + pnl],
         sinceBell' = sinceBell + pnl, UNCHANGED now
  PROVE  BellRung'
  <1> DEFINE S == SessionTicks(now)
             f == realised
             g == realised'
  <1>1. /\ IsFiniteSet(S) /\ now \in S /\ S \subseteq 0..MaxTime
        /\ \A u \in S : realised[u] \in Int
        /\ SessionPnl = SumFunctionOnSet(f, S)
    BY SessionSum
  <1>2. /\ realised' \in [0..MaxTime -> Int] /\ \A t \in 0..MaxTime : t # now => g[t] = f[t]
        /\ g[now] = f[now] + pnl /\ f[now] \in Int /\ now \in 0..MaxTime
    BY <1>1 DEF BellRung
  <1>3. \A t \in 0..MaxTime : t > now' => realised'[t] = 0
    BY <1>2, RiskLimitsAssumption DEF BellRung
  <1>4. SessionPnl' = SumFunctionOnSet(g, S)
    BY DEF SessionPnl, SessionTicks, SessionStart
  <1>5. /\ \A u \in S : f[u] \in Int
        /\ \A u \in S : g[u] \in Int
        /\ \A u \in S : u # now => g[u] = f[u]
    BY <1>1, <1>2
  <1> HIDE DEF S, f, g
  <1>6. SumFunctionOnSet(g, S) = SumFunctionOnSet(f, S) - f[now] + g[now]
    BY <1>1, <1>5, SumChanged
  <1>7. SumFunctionOnSet(f, S) \in Int
    BY <1>1, <1>5, SumInt
  <1>9. SessionPnl' = SessionPnl + pnl
    BY <1>1, <1>2, <1>4, <1>6, <1>7
  <1> QED
    BY <1>2, <1>3, <1>9 DEF BellRung

LEMMA BellAtTick ==
  ASSUME RiskTypeOK, BellRung, MarketTick
  PROVE  BellRung'
  <1> DEFINE S == SessionTicks(now)
             T == SessionTicks(now + 1)
  <1>1. /\ now \in Nat /\ now' = now + 1 /\ now + 1 \in 0..MaxTime /\ realised' = realised
        /\ sinceBell' = IF (now + 1) % DayLength = SessionOpen THEN 0 ELSE sinceBell
    BY RiskLimitsAssumption DEF MarketTick, RiskTypeOK
  <1>2. /\ IsFiniteSet(S) /\ now \in S /\ S \subseteq 0..MaxTime
        /\ \A u \in S : realised[u] \in Int
        /\ SessionPnl = SumFunctionOnSet(realised, S) /\ SessionPnl \in Int
    BY SessionSum
  <1>3. realised[now + 1] = 0 /\ sinceBell = SessionPnl
    BY <1>1 DEF BellRung
  <1>4. SessionPnl' = SumFunctionOnSet(realised, T)
    BY <1>1 DEF SessionPnl, SessionTicks, SessionStart
  <1>5. /\ SessionStart(now) \in Int /\ SessionStart(now) <= now
        /\ SessionStart(now + 1)
             = IF (now + 1) % DayLength = SessionOpen THEN now + 1 ELSE SessionStart(now)
    BY <1>1, SessionAt
  <1>6. CASE (now + 1) % DayLength = SessionOpen
    <2>1. T = {} \cup {now + 1} /\ IsFiniteSet({})
      BY <1>1, <1>5, <1>6, FS_EmptySet DEF SessionTicks
    <2> DEFINE k == now + 1
    <2> HIDE DEF T
    <2>2. SumFunctionOnSet(realised, T) = SumFunctionOnSet(realised, {}) + realised[k]
      <3>1. T = {} \cup {k} /\ realised[k] \in Int /\ k \notin {}
        BY <1>3, <2>1
      <3> HIDE DEF k
      <3> QED
        BY <2>1, <3>1, SumGain
    <2>3. SumFunctionOnSet(realised, {}) = 0
      BY SumEmpty
    <2> QED
      BY <1>1, <1>3, <1>4, <1>6, <2>2, <2>3 DEF BellRung
  <1>7. CASE (now + 1) % DayLength # SessionOpen
    <2>1. T = S \cup {now + 1} /\ now + 1 \notin S
      BY <1>1, <1>5, <1>7 DEF SessionTicks
    <2> HIDE DEF S, T
    <2>2. SumFunctionOnSet(realised, T) = SumFunctionOnSet(realised, S) + realised[now + 1]
      BY <1>2, <1>3, <2>1, SumGain
    <2> QED
      BY <1>1, <1>2, <1>3, <1>4, <1>7, <2>2 DEF BellRung
  <1> QED
    BY <1>6, <1>7

-----------------------------------------------------------------------------
(* What is held, its value and its risk.                                   *)

RiskOf(n) == PositionRisk(holding[n].quantity, holding[n].cost, holding[n].stop)

LEMMA RiskIsNat ==
  ASSUME NEW q \in Nat, NEW c \in Nat, NEW stop \in Nat \cup {NoStop}
  PROVE  PositionRisk(q, c, stop) \in Nat
  <1>1. c * AssumedPct \in Nat
    BY Multiplied, RiskLimitsAssumption
  <1>2. CASE stop # NoStop /\ stop > 0 /\ stop * q < c
    <2>1. stop * q \in Nat
      BY <1>2, Multiplied
    <2>2. c - stop * q \in Nat
      BY <1>2, <2>1
    <2> QED
      BY <1>2, <2>2 DEF PositionRisk
  <1> QED
    BY <1>1, <1>2 DEF PositionRisk

LEMMA RiskSums ==
  ASSUME RiskTypeOK, HoldingsOK
  PROVE  /\ \A n \in HeldNames : RiskOf(n) \in Nat /\ holding[n] \in Holding
         /\ OpenRisk = SumFunctionOnSet([n \in HeldNames |-> RiskOf(n)], HeldNames)
         /\ OpenRisk \in Nat
         /\ Value \in Nat /\ Value >= funds
  <1> DEFINE f == [n \in HeldNames |-> RiskOf(n)]
             v == [n \in HeldNames |-> holding[n].quantity * holding[n].mark]
  <1>1. \A n \in HeldNames : holding[n] \in Holding
    BY DEF HoldingsOK, HeldNames
  <1>2. \A n \in HeldNames : /\ holding[n].quantity \in Nat /\ holding[n].cost \in Nat
                             /\ holding[n].stop \in Nat \cup {NoStop} /\ holding[n].mark \in Nat
    BY <1>1, RiskLimitsAssumption DEF Holding
  <1>3. \A n \in HeldNames : RiskOf(n) \in Nat
    BY <1>2, RiskIsNat DEF RiskOf
  <1>4. \A n \in HeldNames : v[n] \in Nat
    BY <1>2, Multiplied
  <1>5. OpenRisk = SumFunctionOnSet(f, HeldNames)
    BY DEF OpenRisk, RiskOf, SumFunction
  <1>6. Value = funds + SumFunctionOnSet(v, HeldNames)
    BY DEF Value, SumFunction
  <1>7. \A n \in HeldNames : f[n] \in Nat
    BY <1>3
  <1> HIDE DEF f, v
  <1>8. SumFunctionOnSet(f, HeldNames) \in Nat /\ SumFunctionOnSet(v, HeldNames) \in Nat
    BY <1>4, <1>7, SumNat DEF HoldingsOK
  <1> QED
    BY <1>1, <1>3, <1>5, <1>6, <1>8 DEF RiskTypeOK, f

(* Both are figures of the cash and the holdings.                          *)
LEMMA FiguresKept ==
  ASSUME UNCHANGED <<funds, holding>>
  PROVE  /\ HeldNames' = HeldNames /\ Value' = Value /\ OpenRisk' = OpenRisk
         /\ UNCHANGED gated => (Reckoned' <=> Reckoned)
  <1>1. HeldNames' = HeldNames
    BY DEF HeldNames
  <1>2. Value' = Value
    BY <1>1 DEF Value
  <1>3. OpenRisk' = OpenRisk
    BY <1>1 DEF OpenRisk, PositionRisk
  <1>4. UNCHANGED gated => (Reckoned' <=> Reckoned)
    BY <1>1, <1>2, <1>3 DEF Reckoned, PositionRisk
  <1> QED
    BY <1>1, <1>2, <1>3, <1>4

LEMMA LevelFacts ==
  /\ \A p \in Levels : p \in Nat /\ p > 0
  /\ \A o \in BuyOrders : /\ o.name \in Names /\ o.quantity \in Nat /\ o.quantity > 0
                          /\ o.stop \in Nat \cup {NoStop}
  /\ \A o \in BuyOrders, p \in Levels : o.quantity * p \in Nat /\ o.quantity * p > 0
  <1>1. \A p \in Levels : p \in Nat /\ p > 0
    BY RiskLimitsAssumption
  <1>2. ASSUME NEW o \in BuyOrders
        PROVE  /\ o.name \in Names /\ o.quantity \in Nat /\ o.quantity > 0
               /\ o.stop \in Nat \cup {NoStop}
    <2>1. o.name \in Names /\ o.quantity \in Quantities /\ o.stop \in Stops \cup {NoStop}
      BY DEF BuyOrders
    <2>2. \A q \in Quantities : q \in Nat /\ q > 0
      BY RiskLimitsAssumption
    <2>3. \A t \in Stops : t \in Nat
      BY RiskLimitsAssumption
    <2> QED
      BY <2>1, <2>2, <2>3
  <1> QED
    BY <1>1, <1>2, Multiplied

(* What a position becomes is a position, or nothing at all.               *)
LEMMA BoughtIsHeld ==
  ASSUME NEW h \in Holding \cup {NoHolding}, NEW o \in BuyOrders, NEW p \in Levels
  PROVE  AfterBuy(h, o, p) \in Holding
  <1>1. /\ o.quantity \in Nat /\ o.quantity > 0 /\ o.stop \in Nat \cup {NoStop}
        /\ o.quantity * p \in Nat
    BY LevelFacts
  <1>2. CASE h = NoHolding
    BY <1>1, <1>2 DEF AfterBuy, Holding
  <1>3. CASE h # NoHolding
    <2>1. h.quantity \in Nat /\ h.quantity > 0 /\ h.cost \in Nat /\ h.stop \in Nat \cup {NoStop}
      BY <1>3 DEF Holding
    <2> QED
      BY <1>1, <1>3, <2>1 DEF AfterBuy, Holding
  <1> QED
    BY <1>2, <1>3

LEMMA SoldIsHeld ==
  ASSUME NEW h \in Holding, NEW q \in Quantities, h.quantity >= q, NEW p \in Levels
  PROVE  /\ AfterSell(h, q, p) \in Holding \cup {NoHolding}
         /\ p * q - (h.cost * q) \div h.quantity \in Int
  <1>1. /\ h.quantity \in Nat /\ h.quantity > 0 /\ h.cost \in Nat /\ q \in Nat /\ q > 0
        /\ p \in Nat /\ p \in Levels
    BY RiskLimitsAssumption DEF Holding
  <1>2. /\ h.cost * q \in Nat /\ p * q \in Nat /\ h.quantity - q \in Nat
        /\ h.cost * (h.quantity - q) \in Nat
    BY <1>1, Multiplied
  <1>3. (h.cost * q) \div h.quantity \in Nat /\ (h.cost * (h.quantity - q)) \div h.quantity \in Nat
    <2>1. \A t, d \in Nat : d > 0 => t \div d \in Nat
      BY Quotient
    <2> QED
      BY <1>1, <1>2, <2>1
  <1>4. h.quantity # q => h.quantity - q \in Nat \ {0}
    BY <1>1
  <1> DEFINE c == (h.cost * (h.quantity - q)) \div h.quantity
             rest == h.quantity - q
  <1>5. AfterSell(h, q, p) = IF h.quantity = q THEN NoHolding
          ELSE [h EXCEPT !.quantity = rest, !.mark = p, !.cost = c]
    BY DEF AfterSell
  <1>6. c \in Nat /\ (h.quantity # q => rest \in Nat \ {0})
    BY <1>3, <1>4
  <1> HIDE DEF c, rest
  <1>7. h.quantity # q => [h EXCEPT !.quantity = rest, !.mark = p, !.cost = c] \in Holding
    BY <1>1, <1>6 DEF Holding
  <1> QED
    BY <1>2, <1>3, <1>5, <1>7

(* A change of one position leaves finitely many of them.                  *)
LEMMA HoldingChanged ==
  ASSUME HoldingsOK, NEW n \in Names, NEW h \in Holding \cup {NoHolding},
         holding' = [holding EXCEPT ![n] = h]
  PROVE  /\ HoldingsOK' /\ HeldNames' \subseteq HeldNames \cup {n}
         /\ \A m \in HeldNames' : holding'[m] \in Holding
  <1>1. holding' \in [Names -> Holding \cup {NoHolding}]
    BY DEF HoldingsOK
  <1>2. HeldNames' \subseteq HeldNames \cup {n}
    BY DEF HoldingsOK, HeldNames
  <1>3. IsFiniteSet(HeldNames \cup {n})
    BY FS_AddElement DEF HoldingsOK
  <1>4. IsFiniteSet(HeldNames')
    BY <1>2, <1>3, FS_Subset
  <1> QED
    BY <1>1, <1>2, <1>4 DEF HoldingsOK, HeldNames

LEMMA RiskInitInv == RiskInit => RiskInv
  <1> SUFFICES ASSUME RiskInit PROVE RiskInv
    OBVIOUS
  <1>1. HeldNames = {} /\ HoldingsOK
    BY FS_EmptySet DEF RiskInit, HeldNames, HoldingsOK
  <1>2. RiskTypeOK /\ Reckoned
    BY <1>1, RiskLimitsAssumption DEF RiskInit, RiskTypeOK, Reckoned
  <1>3. BellRung
    <2>1. /\ realised \in [0..MaxTime -> Int] /\ now = 0 /\ 0 \in 0..MaxTime
          /\ \A t \in 0..MaxTime : realised[t] = 0
      BY RiskLimitsAssumption DEF RiskInit
    <2>2. SessionTicks(now) = {} \cup {0}
      BY <2>1, SessionAt DEF SessionTicks
    <2> DEFINE S == SessionTicks(now)
    <2>3. SessionPnl = SumFunctionOnSet(realised, S)
      BY DEF SessionPnl, SessionTicks
    <2> HIDE DEF S
    <2>4. SumFunctionOnSet(realised, S) = SumFunctionOnSet(realised, {}) + realised[0]
      <3>1. S = {} \cup {0} /\ IsFiniteSet({}) /\ 0 \notin {} /\ realised[0] \in Int
        BY <2>1, <2>2, FS_EmptySet DEF S
      <3> QED
        BY <3>1, SumGain
    <2>5. SumFunctionOnSet(realised, {}) = 0
      BY SumEmpty
    <2> QED
      BY <2>1, <2>3, <2>4, <2>5 DEF BellRung, RiskInit
  <1> QED
    BY <1>1, <1>2, <1>3 DEF RiskInv

(* The order that passes was reckoned with what is held now, on a day that *)
(* has not lost too much.                                                  *)
LEMMA PassStep ==
  ASSUME RiskInv, PassGate
  PROVE  RiskInv' /\ sinceBell * 100 > -MaxLossPct * Value
  <1>1. PICK o \in BuyOrders, p \in Levels :
          /\ o.quantity * p <= funds /\ ~Blocked(o, p)
          /\ gated' = [order |-> o, price |-> p, steady |-> TRUE]
          /\ UNCHANGED <<funds, holding, realised, now, sinceBell, fills>>
    BY DEF PassGate
  <1>2. /\ OpenRisk \in Nat /\ Value \in Nat /\ Value >= funds /\ funds \in Nat
        /\ o.quantity * p \in Nat /\ o.quantity * p > 0
    BY RiskSums, LevelFacts DEF RiskInv, RiskTypeOK
  <1>3. Value > 0
    BY <1>1, <1>2
  <1>4. RiskTypeOK' /\ HoldingsOK' /\ BellRung'
    <2>1. gated' \in [order : BuyOrders, price : Levels, steady : BOOLEAN]
      BY <1>1
    <2>2. RiskTypeOK'
      BY <1>1, <2>1 DEF RiskInv, RiskTypeOK, HeldNames
    <2> QED
      BY <1>1, <2>2, BellKept DEF RiskInv, HoldingsOK, HeldNames
  <1>5. PositionRisk(o.quantity, o.quantity * p, o.stop) \in Nat
    BY <1>2, LevelFacts, RiskIsNat
  <1>6. MaxRiskPct * Value \in Nat /\ MaxLossPct * Value \in Nat /\ -MaxLossPct * Value \in Int
    BY <1>2, Multiplied, RiskLimitsAssumption
  <1>7. /\ OpenRisk + PositionRisk(o.quantity, o.quantity * p, o.stop) <= MaxRiskPct * Value
        /\ ~(Cardinality(HeldNames \cup {o.name}) > MaxPositions)
        /\ ~(SessionPnl * 100 <= -MaxLossPct * Value)
    BY <1>1, <1>2, <1>3, <1>5, <1>6 DEF Blocked, LossStops, CountStops, RiskStops
  <1>8. Cardinality(HeldNames \cup {o.name}) \in Nat
    BY FS_AddElement, FS_CardinalityType DEF RiskInv, HoldingsOK
  <1>9. Reckoned'
    <2>1. HeldNames' = HeldNames /\ Value' = Value /\ OpenRisk' = OpenRisk
      BY <1>1, FiguresKept
    <2>2. gated'.order = o /\ gated'.price = p
      BY <1>1
    <2> QED
      BY <1>7, <1>8, <2>1, <2>2, RiskLimitsAssumption DEF Reckoned, PositionRisk
  <1>10. sinceBell * 100 > -MaxLossPct * Value
    <2>1. sinceBell = SessionPnl /\ SessionPnl \in Int
      BY SessionSum DEF RiskInv, BellRung
    <2> QED
      BY <1>6, <1>7, <2>1
  <1> QED
    BY <1>4, <1>9, <1>10 DEF RiskInv

(* A BUY filled no dearer than it was reckoned, and above its stop, risks  *)
(* no more than was reckoned.                                              *)
LEMMA RiskGrows ==
  ASSUME NEW q \in Nat, q > 0, NEW p \in Nat, NEW P \in Nat, p <= P,
         NEW stop \in Nat \cup {NoStop}, stop = NoStop \/ stop = 0 \/ p > stop
  PROVE  PositionRisk(q, q * p, stop) <= PositionRisk(q, q * P, stop)
  <1>1. q * p \in Nat /\ q * P \in Nat /\ q * p <= q * P
    BY Multiplied, MultipliedMore
  <1>2. CASE stop = NoStop \/ stop = 0
    <2>1. (q * p) * AssumedPct <= (q * P) * AssumedPct
      <3> DEFINE a == q * p
                 b == q * P
      <3>1. a \in Nat /\ b \in Nat /\ a <= b
        BY <1>1
      <3> HIDE DEF a, b
      <3>2. a * AssumedPct <= b * AssumedPct
        BY <3>1, MultipliedMore, RiskLimitsAssumption
      <3> QED
        BY <3>2 DEF a, b
    <2>2. ~(stop # NoStop /\ stop > 0)
      BY <1>2
    <2> QED
      BY <2>1, <2>2 DEF PositionRisk
  <1>3. CASE stop # NoStop /\ stop # 0
    <2>1. stop \in Nat /\ stop > 0 /\ stop < p
      BY <1>3, RiskLimitsAssumption
    <2>2. q * stop < q * p
      BY <2>1, MultipliedMore
    <2>3. stop * q = q * stop /\ q * stop \in Nat
      BY <2>1, Multiplied
    <2>4. stop * q < q * p /\ stop * q < q * P
      BY <1>1, <2>2, <2>3
    <2>5. /\ PositionRisk(q, q * p, stop) = (q * p - stop * q) * 100
          /\ PositionRisk(q, q * P, stop) = (q * P - stop * q) * 100
      BY <1>3, <2>1, <2>4 DEF PositionRisk
    <2> QED
      BY <1>1, <2>3, <2>5
  <1> QED
    BY <1>2, <1>3

LEMMA FillStep ==
  ASSUME RiskInv, Fill
  PROVE  RiskInv'
  <1>1. PICK p \in Levels :
          /\ gated.order.quantity * p <= funds
          /\ funds' = funds - gated.order.quantity * p
          /\ holding' = [holding EXCEPT ![gated.order.name] = AfterBuy(@, gated.order, p)]
    BY DEF Fill
  <1> DEFINE o == gated.order
  <1>2. /\ gated # NoOrderYet /\ fills < MaxFills /\ gated' = NoOrderYet /\ fills' = fills + 1
        /\ UNCHANGED <<realised, now, sinceBell>>
    BY DEF Fill
  <1>3. o \in BuyOrders
    BY <1>2 DEF RiskInv, RiskTypeOK
  <1>4. o.name \in Names /\ o.quantity * p \in Nat
    BY <1>3, LevelFacts
  <1>5. holding[o.name] \in Holding \cup {NoHolding}
    BY <1>4 DEF RiskInv, HoldingsOK
  <1>6. AfterBuy(holding[o.name], o, p) \in Holding
    BY <1>3, <1>5, BoughtIsHeld
  <1>7. HoldingsOK' /\ \A m \in HeldNames' : holding'[m] \in Holding
    BY <1>1, <1>4, <1>6, HoldingChanged DEF RiskInv
  <1>8. RiskTypeOK'
    BY <1>1, <1>2, <1>4, <1>7, RiskLimitsAssumption DEF RiskInv, RiskTypeOK
  <1>9. BellRung' /\ Reckoned'
    BY <1>2, BellKept DEF RiskInv, Reckoned
  <1> QED
    BY <1>7, <1>8, <1>9 DEF RiskInv

LEMMA FillKeepsLimits ==
  ASSUME RiskInv, Fill, AsReckoned
  PROVE  Cardinality(HeldNames') <= MaxPositions /\ OpenRisk' <= MaxRiskPct * Value
  <1>0. PICK o \in BuyOrders, P \in Levels, n \in Names :
          o = gated.order /\ P = gated.price /\ n = o.name
    BY LevelFacts DEF Fill, RiskInv, RiskTypeOK
  <1> DEFINE q == o.quantity
  <1>1. PICK p \in Levels :
          /\ funds' = funds - q * p
          /\ holding' = [holding EXCEPT ![n] = AfterBuy(@, o, p)]
    BY <1>0 DEF Fill
  <1>2. /\ gated # NoOrderYet /\ funds \in Nat
        /\ holding \in [Names -> Holding \cup {NoHolding}] /\ IsFiniteSet(HeldNames)
    BY DEF Fill, RiskInv, RiskTypeOK, HoldingsOK
  <1>3. /\ q \in Nat /\ q > 0 /\ o.stop \in Nat \cup {NoStop}
        /\ p \in Nat /\ P \in Nat /\ q * p \in Nat /\ q * P \in Nat
    BY <1>0, LevelFacts
  <1>4. (funds - funds') \div q = p
    <2>1. funds - funds' = q * p
      BY <1>1, <1>2, <1>3
    <2>2. (q * p) \div q = p
      BY <1>3, DividedBack
    <2> QED
      BY <2>1, <2>2
  <1>5. /\ gated.steady /\ p <= P
        /\ o.stop = NoStop \/ o.stop = 0 \/ p > o.stop
        /\ holding[n] = NoHolding \/ (holding[n].stop = NoStop /\ o.stop = NoStop)
    BY <1>0, <1>4 DEF AsReckoned
  <1> DEFINE new == PositionRisk(q, q * P, o.stop)
  <1>6. /\ Cardinality(HeldNames \cup {n}) <= MaxPositions
        /\ OpenRisk + new <= MaxRiskPct * Value
    BY <1>0, <1>2, <1>5 DEF RiskInv, Reckoned
  <1>7. /\ OpenRisk \in Nat /\ Value \in Nat /\ MaxRiskPct * Value \in Nat /\ new \in Nat
        /\ \A m \in HeldNames : RiskOf(m) \in Nat /\ holding[m] \in Holding
    <2>1. /\ OpenRisk \in Nat /\ Value \in Nat
          /\ \A m \in HeldNames : RiskOf(m) \in Nat /\ holding[m] \in Holding
      BY RiskSums DEF RiskInv
    <2>2. new \in Nat
      BY <1>3, RiskIsNat
    <2>3. MaxRiskPct * Value \in Nat
      BY <2>1, Multiplied, RiskLimitsAssumption
    <2> QED
      BY <2>1, <2>2, <2>3
  <1>8. holding[n] \in Holding \cup {NoHolding} /\ AfterBuy(holding[n], o, p) \in Holding
    BY <1>2, <1>3, BoughtIsHeld
  <1>9. /\ HeldNames' = HeldNames \cup {n} /\ holding'[n] = AfterBuy(holding[n], o, p)
        /\ \A m \in HeldNames : m # n => holding'[m] = holding[m]
    BY <1>1, <1>2, <1>3, <1>8, NoHoldingAssumption DEF HeldNames
  <1> DEFINE S == HeldNames
             T == HeldNames'
             f == [m \in S |-> RiskOf(m)]
             r == PositionRisk(holding'[n].quantity, holding'[n].cost, holding'[n].stop)
             g == [m \in T |-> PositionRisk(holding'[m].quantity, holding'[m].cost,
                                            holding'[m].stop)]
  <1>10. OpenRisk = SumFunctionOnSet(f, S) /\ OpenRisk' = SumFunctionOnSet(g, T)
    <2>1. OpenRisk' = SumFunctionOnSet(g, T)
      BY DEF OpenRisk, SumFunction, PositionRisk
    <2> QED
      BY <2>1, RiskSums DEF RiskInv
  <1>11. /\ \A m \in S : f[m] \in Int
         /\ \A m \in S : m # n => g[m] = f[m]
    BY <1>7, <1>9 DEF RiskOf
  <1>12. g[n] = r /\ r \in Nat
    <2>1. g[n] = r
      BY <1>9
    <2>2. /\ holding'[n].quantity \in Nat /\ holding'[n].cost \in Nat
          /\ holding'[n].stop \in Nat \cup {NoStop}
      BY <1>8, <1>9 DEF Holding
    <2> QED
      BY <2>1, <2>2, RiskIsNat
  <1>13. CASE n \notin S
    <2>1. holding[n] = NoHolding
      BY <1>3, <1>13 DEF HeldNames
    <2>2. r = PositionRisk(q, q * p, o.stop)
      BY <1>9, <2>1 DEF AfterBuy, PositionRisk
    <2>3. r <= new
      BY <1>3, <1>5, <2>2, RiskGrows
    <2>4. SumFunctionOnSet(g, T) = SumFunctionOnSet(f, S) + g[n]
      <3>1. T = S \cup {n} /\ IsFiniteSet(S)
        BY <1>2, <1>9
      <3> HIDE DEF S, T, f, g, r
      <3> QED
        BY <1>11, <1>12, <1>13, <3>1, SumGain
    <2> HIDE DEF new, f, g, S, T, r
    <2>5. OpenRisk' <= MaxRiskPct * Value
      BY <1>6, <1>7, <1>10, <1>12, <2>3, <2>4
    <2> QED
      BY <1>6, <1>9, <2>5
  <1>14. CASE n \in S
    <2>1. holding[n].stop = NoStop /\ o.stop = NoStop /\ holding[n] \in Holding
          /\ holding[n] # NoHolding
      BY <1>5, <1>7, <1>14 DEF HeldNames
    <2> DEFINE k == holding[n].cost
               a == AssumedPct
    <2>2. k \in Nat /\ a \in Nat
      BY <2>1, RiskLimitsAssumption DEF Holding
    <2>3. f[n] = k * a /\ new = (q * P) * a
      BY <1>14, <2>1 DEF RiskOf, PositionRisk
    <2>4. r = (k + q * p) * a
      BY <1>9, <2>1 DEF AfterBuy, PositionRisk
    <2>5. (k + q * p) * a = k * a + (q * p) * a /\ (q * p) * a <= (q * P) * a
          /\ k * a \in Nat /\ (q * p) * a \in Nat /\ (q * P) * a \in Nat
      <3> DEFINE x == q * p
                 y == q * P
      <3>1. x \in Nat /\ y \in Nat /\ x <= y
        BY <1>3, <1>5, MultipliedMore
      <3> HIDE DEF x, y, k, a
      <3>2. (k + x) * a = k * a + x * a /\ x * a <= y * a /\ k * a \in Nat /\ x * a \in Nat
            /\ y * a \in Nat
        BY <2>2, <3>1, MultipliedMore, Multiplied
      <3> QED
        BY <3>2 DEF x, y
    <2>6. SumFunctionOnSet(g, S) = SumFunctionOnSet(f, S) - f[n] + g[n]
      <3>1. IsFiniteSet(S) /\ \A m \in S : g[m] \in Int
        BY <1>2, <1>11, <1>12
      <3> HIDE DEF S, T, f, g, r
      <3> QED
        BY <1>11, <1>14, <3>1, SumChanged
    <2>7. T = S
      BY <1>9, <1>14
    <2> HIDE DEF new, f, g, S, T, r, k, a, q
    <2>8. OpenRisk' <= OpenRisk + new
      <3>1. SumFunctionOnSet(g, T) = SumFunctionOnSet(g, S)
        BY <2>7
      <3> DEFINE u == k * a
                 v == (q * p) * a
                 w == (q * P) * a
      <3>2. /\ f[n] = u /\ new = w /\ g[n] = u + v /\ v <= w
            /\ u \in Nat /\ v \in Nat /\ w \in Nat
        BY <1>12, <2>3, <2>4, <2>5
      <3> HIDE DEF u, v, w
      <3> QED
        BY <1>7, <1>10, <2>6, <3>1, <3>2
    <2>9. OpenRisk' \in Int
      BY <1>7, <1>10, <1>11, <1>12, <2>6, <2>7
    <2> QED
      BY <1>6, <1>7, <1>9, <2>8, <2>9
  <1> QED
    BY <1>13, <1>14

(* An order still waiting when something else changed the account.         *)
LEMMA UnsteadiedOK ==
  ASSUME RiskTypeOK, gated' = Unsteadied
  PROVE  /\ gated' # NoOrderYet =>
              /\ gated' \in [order : BuyOrders, price : Levels, steady : BOOLEAN]
              /\ ~gated'.steady
         /\ Reckoned'
  <1>1. CASE gated = NoOrderYet
    BY <1>1 DEF Unsteadied, Reckoned
  <1>2. CASE gated # NoOrderYet
    <2>1. gated \in [order : BuyOrders, price : Levels, steady : BOOLEAN]
      BY <1>2 DEF RiskTypeOK
    <2>2. gated' = [gated EXCEPT !.steady = FALSE]
      BY <1>2 DEF Unsteadied
    <2>3. /\ gated' \in [order : BuyOrders, price : Levels, steady : BOOLEAN]
          /\ ~gated'.steady
      BY <2>1, <2>2
    <2> QED
      BY <2>3 DEF Reckoned
  <1> QED
    BY <1>1, <1>2

LEMMA SellStep ==
  ASSUME RiskInv, Sell
  PROVE  RiskInv'
  <1>1. PICK n \in HeldNames, q \in Quantities, p \in Levels :
          LET h == holding[n]
              pnl == p * q - (h.cost * q) \div h.quantity
          IN  /\ h.quantity >= q
              /\ funds' = funds + p * q
              /\ holding' = [holding EXCEPT ![n] = AfterSell(h, q, p)]
              /\ realised' = [realised EXCEPT ![now] = @ + pnl]
              /\ sinceBell' = sinceBell + pnl
    BY DEF Sell
  <1> DEFINE h == holding[n]
             pnl == p * q - (h.cost * q) \div h.quantity
  <1>2. n \in Names /\ h \in Holding
    BY DEF RiskInv, HoldingsOK, HeldNames
  <1>3. AfterSell(h, q, p) \in Holding \cup {NoHolding} /\ pnl \in Int
    BY <1>1, <1>2, SoldIsHeld
  <1>4. HoldingsOK' /\ \A m \in HeldNames' : holding'[m] \in Holding
    BY <1>1, <1>2, <1>3, HoldingChanged DEF RiskInv
  <1>5. BellRung'
    <2>1. UNCHANGED now
      BY DEF Sell
    <2> HIDE DEF pnl
    <2>2. /\ realised' = [realised EXCEPT ![now] = @ + pnl]
          /\ sinceBell' = sinceBell + pnl
      BY <1>1 DEF pnl
    <2> QED
      BY <1>3, <2>1, <2>2, BellAtSale DEF RiskInv
  <1>6. RiskTypeOK' /\ Reckoned'
    <2>1. funds' \in Nat
      <3>1. p \in Nat /\ q \in Nat /\ p * q \in Nat
        BY Multiplied, RiskLimitsAssumption
      <3> QED
        BY <1>1, <3>1 DEF RiskInv, RiskTypeOK
    <2>2. DOMAIN realised' = 0..MaxTime /\ now' \in 0..MaxTime /\ fills' \in 0..MaxFills
      BY <1>5, RiskLimitsAssumption DEF Sell, RiskInv, RiskTypeOK, BellRung
    <2> QED
      BY <1>4, <2>1, <2>2, UnsteadiedOK DEF Sell, RiskInv, RiskTypeOK
  <1> QED
    BY <1>4, <1>5, <1>6 DEF RiskInv

LEMMA MarkStep ==
  ASSUME RiskInv, Mark
  PROVE  RiskInv'
  <1>1. PICK n \in HeldNames, p \in Levels :
          holding' = [holding EXCEPT ![n] = [@ EXCEPT !.mark = p]]
    BY DEF Mark
  <1>2. /\ gated' = Unsteadied /\ UNCHANGED <<funds, realised, now, sinceBell, fills>>
    BY DEF Mark
  <1>3. n \in Names /\ holding[n] \in Holding
    BY DEF RiskInv, HoldingsOK, HeldNames
  <1>4. [holding[n] EXCEPT !.mark = p] \in Holding
    BY <1>3 DEF Holding
  <1>5. HoldingsOK' /\ \A m \in HeldNames' : holding'[m] \in Holding
    BY <1>1, <1>3, <1>4, HoldingChanged DEF RiskInv
  <1>6. BellRung'
    BY <1>2, BellKept DEF RiskInv
  <1>7. RiskTypeOK' /\ Reckoned'
    BY <1>2, <1>5, UnsteadiedOK DEF RiskInv, RiskTypeOK
  <1> QED
    BY <1>5, <1>6, <1>7 DEF RiskInv

LEMMA MarketTickStep ==
  ASSUME RiskInv, MarketTick
  PROVE  RiskInv'
  <1>1. UNCHANGED <<funds, holding, realised, gated, fills>>
    BY DEF MarketTick
  <1>2. BellRung'
    BY BellAtTick DEF RiskInv
  <1>3. HeldNames' = HeldNames /\ Reckoned'
    BY <1>1, FiguresKept DEF RiskInv
  <1>4. RiskTypeOK' /\ HoldingsOK'
    BY <1>1, <1>3, RiskLimitsAssumption DEF RiskInv, RiskTypeOK, HoldingsOK, MarketTick
  <1> QED
    BY <1>2, <1>3, <1>4 DEF RiskInv

LEMMA RiskStep == RiskInv /\ [RiskNext]_rvars => RiskInv'
  <1> SUFFICES ASSUME RiskInv, [RiskNext]_rvars PROVE RiskInv'
    OBVIOUS
  <1>1. CASE PassGate
    BY <1>1, PassStep
  <1>2. CASE Fill
    BY <1>2, FillStep
  <1>3. CASE Sell
    BY <1>3, SellStep
  <1>4. CASE Mark
    BY <1>4, MarkStep
  <1>5. CASE MarketTick
    BY <1>5, MarketTickStep
  <1>6. CASE UNCHANGED rvars
    <2>1. UNCHANGED <<funds, holding, realised, now, gated, sinceBell, fills>>
      BY <1>6 DEF rvars
    <2>2. BellRung'
      BY <2>1, BellKept DEF RiskInv
    <2>3. HeldNames' = HeldNames /\ Reckoned'
      BY <2>1, FiguresKept DEF RiskInv
    <2> QED
      BY <2>1, <2>2, <2>3 DEF RiskInv, RiskTypeOK, HoldingsOK
  <1> QED
    BY <1>1, <1>2, <1>3, <1>4, <1>5, <1>6 DEF RiskNext

(* The risk gate, of risk-limits.service: no order passes once the session *)
(* has lost too much, and an order filled as it was reckoned leaves no     *)
(* more positions and no more risk than the limits allow.                  *)
THEOREM GateKeepsTheLimits == RiskSpec => GateKeepsLimits
  <1> DEFINE Kept ==
        /\ gated' # gated /\ gated' # NoOrderYet /\ gated'.steady =>
             sinceBell * 100 > -MaxLossPct * Value
        /\ Fill /\ AsReckoned =>
             /\ Cardinality(HeldNames') <= MaxPositions
             /\ OpenRisk' <= MaxRiskPct * Value
  <1>1. RiskInv /\ [RiskNext]_rvars => [Kept]_rvars
    <2> SUFFICES ASSUME RiskInv, RiskNext PROVE Kept
      BY DEF RiskNext
    <2>1. gated' # gated /\ gated' # NoOrderYet /\ gated'.steady =>
            sinceBell * 100 > -MaxLossPct * Value
      <3>1. CASE PassGate
        BY <3>1, PassStep
      <3>2. CASE Fill
        BY <3>2 DEF Fill
      <3>3. CASE Sell
        BY <3>3, UnsteadiedOK DEF Sell, RiskInv
      <3>4. CASE Mark
        BY <3>4, UnsteadiedOK DEF Mark, RiskInv
      <3>5. CASE MarketTick
        BY <3>5 DEF MarketTick
      <3> QED
        BY <3>1, <3>2, <3>3, <3>4, <3>5 DEF RiskNext
    <2>2. Fill /\ AsReckoned =>
             /\ Cardinality(HeldNames') <= MaxPositions
             /\ OpenRisk' <= MaxRiskPct * Value
      BY FillKeepsLimits
    <2> QED
      BY <2>1, <2>2
  <1> QED
    BY <1>1, RiskInitInv, RiskStep, PTL DEF RiskSpec, GateKeepsLimits

-----------------------------------------------------------------------------
(* Reading the agent's stream.                                             *)

(* A set of natural numbers has a smallest one, which is how every fact    *)
(* about texts is proved: it would fail for a shortest.                    *)
LEMMA Smallest ==
  ASSUME NEW B \in SUBSET Nat, B # {}
  PROVE  \E n \in B : \A m \in B : ~(m < n)
  <1>1. IsWellFoundedOn(OpToRel(<, Nat), Nat)
    BY NatLessThanWellFounded
  <1>2. PICK n \in B : \A m \in B : <<m, n>> \notin OpToRel(<, Nat)
    BY <1>1, WFMin
  <1> QED
    BY <1>2 DEF OpToRel

(* A function that takes one piece off its argument at a time, and         *)
(* concatenates what it makes of them, exists: of arguments of size n at   *)
(* most, hence of n + 1, hence of any.                                     *)
Piecewise(g, S, Z, last, first, rest) ==
  g = [x \in S |-> IF x \in Z THEN last[x] ELSE first[x] \o g[rest[x]]]

LEMMA PiecewiseExists ==
  ASSUME NEW S, NEW Z, NEW last, NEW first, NEW rest, NEW size,
         \A x \in S : size[x] \in Nat,
         \A x \in S : x \notin Z => rest[x] \in S /\ size[rest[x]] < size[x]
  PROVE  \E g : Piecewise(g, S, Z, last, first, rest)
  <1> DEFINE Sized(n) == {x \in S : size[x] < n}
             Made(g, n) == Piecewise(g, Sized(n), Z, last, first, rest)
             Bad == {n \in Nat : ~ \E g : Made(g, n)}
  <1>1. Bad = {}
    <2> SUFFICES ASSUME Bad # {} PROVE FALSE
      OBVIOUS
    <2>1. PICK n \in Bad : \A m \in Bad : ~(m < n)
      <3> HIDE DEF Bad
      <3>1. Bad \subseteq Nat
        BY DEF Bad
      <3> QED
        BY <3>1, Smallest
    <2>2. n \in Nat /\ ~ \E g : Made(g, n)
      OBVIOUS
    <2>3. n # 0
      <3> SUFFICES ASSUME n = 0 PROVE FALSE
        OBVIOUS
      <3> DEFINE g == [x \in {} |-> 0]
      <3>1. Sized(0) = {}
        OBVIOUS
      <3>2. Made(g, 0)
        BY <3>1 DEF Piecewise
      <3> QED
        BY <2>2, <3>2
    <2>4. n - 1 \in Nat /\ n - 1 < n
      BY <2>2, <2>3
    <2>5. PICK g : Made(g, n - 1)
      BY <2>1, <2>4
    <2> DEFINE k == n - 1
               h == [x \in Sized(n) |-> IF x \in Z THEN last[x] ELSE first[x] \o g[rest[x]]]
    <2>6. \A x \in Sized(k) : x \in Sized(n)
      BY <2>4
    <2>7. \A x \in Sized(n) : x \notin Z => rest[x] \in Sized(k)
      BY <2>2, <2>4
    <2> HIDE DEF Sized, k
    <2>8. g = [x \in Sized(k) |-> IF x \in Z THEN last[x] ELSE first[x] \o g[rest[x]]]
      BY <2>5 DEF Piecewise, k
    <2>9. \A x \in Sized(k) : h[x] = g[x]
      BY <2>6, <2>8
    <2>10. h = [x \in Sized(n) |-> IF x \in Z THEN last[x] ELSE first[x] \o h[rest[x]]]
      <3>1. \A x \in Sized(n) : x \notin Z => h[rest[x]] = g[rest[x]]
        BY <2>7, <2>9
      <3> QED
        BY <3>1
    <2> QED
      BY <2>2, <2>10 DEF Piecewise
  <1>2. ASSUME NEW m \in Nat, NEW n \in Nat, NEW g, NEW h, Made(g, m), Made(h, n),
               NEW y \in Sized(m) \cap Sized(n)
        PROVE  g[y] = h[y]
    <2> DEFINE D == {x \in Sized(m) \cap Sized(n) : g[x] # h[x]}
               N == {size[x] : x \in D}
    <2> SUFFICES ASSUME y \in D PROVE FALSE
      BY <1>2
    <2>1. PICK i \in N : \A j \in N : ~(j < i)
      <3>1. N \subseteq Nat /\ N # {}
        OBVIOUS
      <3> HIDE DEF N
      <3> QED
        BY <3>1, Smallest
    <2>2. PICK x \in D : size[x] = i
      OBVIOUS
    <2>3. x \in Sized(m) /\ x \in Sized(n) /\ g[x] # h[x] /\ x \in S
      OBVIOUS
    <2>4. /\ g[x] = IF x \in Z THEN last[x] ELSE first[x] \o g[rest[x]]
          /\ h[x] = IF x \in Z THEN last[x] ELSE first[x] \o h[rest[x]]
      <3> HIDE DEF Sized
      <3> QED
        BY <1>2, <2>3 DEF Piecewise
    <2>5. x \notin Z /\ g[rest[x]] # h[rest[x]]
      BY <2>3, <2>4
    <2>6. rest[x] \in S /\ size[rest[x]] < size[x] /\ size[rest[x]] \in Nat /\ size[x] \in Nat
      BY <2>3, <2>5
    <2>7. ~(size[rest[x]] < i) \/ rest[x] \notin D
      BY <2>1
    <2> QED
      BY <2>2, <2>3, <2>5, <2>6, <2>7
  <1> DEFINE G(n) == CHOOSE g : Made(g, n)
             f == [x \in S |-> G(size[x] + 1)[x]]
  <1>3. \A n \in Nat : Made(G(n), n)
    <2> SUFFICES ASSUME NEW n \in Nat PROVE Made(G(n), n)
      OBVIOUS
    <2>1. \E g : Made(g, n)
      BY <1>1
    <2> HIDE DEF Made
    <2> QED
      BY <2>1
  <1>4. \A x \in S, n \in Nat : size[x] < n => f[x] = G(n)[x]
    <2> SUFFICES ASSUME NEW x \in S, NEW n \in Nat, size[x] < n PROVE f[x] = G(n)[x]
      OBVIOUS
    <2> DEFINE k == size[x] + 1
    <2>1. k \in Nat /\ size[x] < k
      OBVIOUS
    <2>2. Made(G(k), k) /\ Made(G(n), n)
      BY <1>3, <2>1
    <2>3. x \in Sized(k) \cap Sized(n)
      BY <2>1
    <2> HIDE DEF k, G, Made, Sized
    <2>4. G(k)[x] = G(n)[x]
      BY <1>2, <2>1, <2>2, <2>3
    <2> QED
      BY <2>4 DEF k
  <1>5. ASSUME NEW x \in S
        PROVE  f[x] = IF x \in Z THEN last[x] ELSE first[x] \o f[rest[x]]
    <2> DEFINE k == size[x] + 1
               g == G(k)
    <2>1. k \in Nat /\ x \in Sized(k)
      OBVIOUS
    <2>2. Made(g, k)
      BY <1>3, <2>1
    <2>3. f[x] = g[x]
      OBVIOUS
    <2>4. x \notin Z => f[rest[x]] = g[rest[x]]
      <3> SUFFICES ASSUME x \notin Z PROVE f[rest[x]] = g[rest[x]]
        OBVIOUS
      <3>1. rest[x] \in S /\ size[rest[x]] < k
        <4>1. rest[x] \in S /\ size[rest[x]] < size[x] /\ size[rest[x]] \in Nat /\ size[x] \in Nat
          OBVIOUS
        <4> QED
          BY <4>1
      <3> HIDE DEF f, k, G
      <3> QED
        BY <1>4, <2>1, <3>1
    <2>5. g[x] = IF x \in Z THEN last[x] ELSE first[x] \o g[rest[x]]
      <3> HIDE DEF g, Sized, k
      <3> QED
        BY <2>1, <2>2 DEF Piecewise
    <2> HIDE DEF f, g
    <2> QED
      BY <2>3, <2>4, <2>5
  <1>6. f = [x \in S |-> IF x \in Z THEN last[x] ELSE first[x] \o f[rest[x]]]
    <2>1. f = [x \in S |-> f[x]]
      OBVIOUS
    <2> HIDE DEF f
    <2> QED
      BY <1>5, <2>1
  <1> QED
    BY <1>6 DEF Piecewise

\* The character a byte is decoded to on its own.
Alone(byte) == IF byte \in {HighByte, LowByte} THEN Replaced ELSE byte
BeginsWide(bytes) == Len(bytes) > 1 /\ bytes[1] = HighByte /\ bytes[2] = LowByte

LEMMA AloneIsChar == \A byte \in Bytes : Alone(byte) \in Chars /\ (Alone(byte) = Newline <=> byte = Newline)
  BY DEF Alone, Bytes, Chars, HighByte, LowByte, Letter, Newline, Wide, Replaced

LEMMA DecodedIs ==
  ASSUME NEW bytes \in Seq(Bytes)
  PROVE  Decoded[bytes] =
           IF bytes = <<>> THEN <<>>
           ELSE IF BeginsWide(bytes) THEN <<Wide>> \o Decoded[SubSeq(bytes, 3, Len(bytes))]
           ELSE <<Alone(bytes[1])>> \o Decoded[Tail(bytes)]
  <1> DEFINE S == Seq(Bytes)
             last == [b \in S |-> <<>>]
             first == [b \in S |-> IF BeginsWide(b) THEN <<Wide>> ELSE <<Alone(b[1])>>]
             rest == [b \in S |-> IF BeginsWide(b) THEN SubSeq(b, 3, Len(b)) ELSE Tail(b)]
             size == [b \in S |-> Len(b)]
             Is(g) == g = [b \in S |->
               CASE b = <<>> -> <<>>
                 [] Len(b) > 1 /\ b[1] = HighByte /\ b[2] = LowByte ->
                      <<Wide>> \o g[SubSeq(b, 3, Len(b))]
                 [] OTHER ->
                      <<IF b[1] \in {HighByte, LowByte} THEN Replaced ELSE b[1]>>
                        \o g[Tail(b)]]
  <1>1. \A b \in S : size[b] \in Nat
    OBVIOUS
  <1>2. ASSUME NEW b \in S, b \notin {<<>>}
        PROVE  rest[b] \in S /\ size[rest[b]] < size[b]
    <2>1. CASE BeginsWide(b)
      <3>1. SubSeq(b, 3, Len(b)) \in S /\ Len(SubSeq(b, 3, Len(b))) < Len(b)
        BY <2>1 DEF BeginsWide
      <3> QED
        BY <2>1, <3>1
    <2>2. CASE ~BeginsWide(b)
      <3>1. Tail(b) \in S /\ Len(Tail(b)) < Len(b)
        BY <1>2
      <3> QED
        BY <2>2, <3>1
    <2> QED
      BY <2>1, <2>2
  <1>3. PICK g : Piecewise(g, S, {<<>>}, last, first, rest)
    <2> HIDE DEF S, last, first, rest, size
    <2> QED
      BY <1>1, <1>2, PiecewiseExists
  <1>4. Is(g)
    <2>1. g = [b \in S |-> IF b \in {<<>>} THEN last[b] ELSE first[b] \o g[rest[b]]]
      BY <1>3 DEF Piecewise
    <2>2. \A b \in S : (IF b \in {<<>>} THEN last[b] ELSE first[b] \o g[rest[b]]) =
               CASE b = <<>> -> <<>>
                 [] Len(b) > 1 /\ b[1] = HighByte /\ b[2] = LowByte ->
                      <<Wide>> \o g[SubSeq(b, 3, Len(b))]
                 [] OTHER ->
                      <<IF b[1] \in {HighByte, LowByte} THEN Replaced ELSE b[1]>>
                        \o g[Tail(b)]
      BY DEF BeginsWide, Alone
    <2> HIDE DEF last, first, rest
    <2> QED
      BY <2>1, <2>2
  <1>5. Decoded = CHOOSE h : Is(h)
    BY Zenon DEF Decoded
  <1>6. Is(Decoded)
    <2> HIDE DEF Is
    <2> QED
      BY <1>4, <1>5
  <1>7. Decoded[bytes] =
           CASE bytes = <<>> -> <<>>
             [] Len(bytes) > 1 /\ bytes[1] = HighByte /\ bytes[2] = LowByte ->
                  <<Wide>> \o Decoded[SubSeq(bytes, 3, Len(bytes))]
             [] OTHER ->
                  <<IF bytes[1] \in {HighByte, LowByte} THEN Replaced ELSE bytes[1]>>
                    \o Decoded[Tail(bytes)]
    BY <1>6
  <1>8. bytes = <<>> => ~BeginsWide(bytes)
    BY DEF BeginsWide
  <1> QED
    BY <1>7, <1>8 DEF BeginsWide, Alone

\* The first separator of a text that has one.
FirstIn(text) == CHOOSE j \in SeparatorsIn(text) : \A k \in SeparatorsIn(text) : j <= k

LEMMA FirstSeparator ==
  ASSUME NEW text \in Seq(Chars), SeparatorsIn(text) # {}
  PROVE  /\ FirstIn(text) \in SeparatorsIn(text)
         /\ \A k \in SeparatorsIn(text) : FirstIn(text) <= k
         /\ FirstIn(text) \in 1..(Len(text) - 1)
  <1>1. SeparatorsIn(text) \in SUBSET Nat
    BY DEF SeparatorsIn
  <1>2. PICK n \in SeparatorsIn(text) : \A m \in SeparatorsIn(text) : ~(m < n)
    BY <1>1, Smallest
  <1>3. \A m \in SeparatorsIn(text) : n <= m
    BY <1>1, <1>2
  <1>4. /\ FirstIn(text) \in SeparatorsIn(text)
        /\ \A k \in SeparatorsIn(text) : FirstIn(text) <= k
    BY <1>3 DEF FirstIn
  <1> QED
    BY <1>4 DEF SeparatorsIn

LEMMA SplitIs ==
  ASSUME NEW text \in Seq(Chars)
  PROVE  Split[text] =
           IF SeparatorsIn(text) = {} THEN <<text>>
           ELSE <<SubSeq(text, 1, FirstIn(text) - 1)>>
                  \o Split[SubSeq(text, FirstIn(text) + 2, Len(text))]
  <1> DEFINE S == Seq(Chars)
             Z == {t \in S : SeparatorsIn(t) = {}}
             last == [t \in S |-> <<t>>]
             first == [t \in S |-> <<SubSeq(t, 1, FirstIn(t) - 1)>>]
             rest == [t \in S |-> SubSeq(t, FirstIn(t) + 2, Len(t))]
             size == [t \in S |-> Len(t)]
             Is(g) == g = [t \in S |->
               IF SeparatorsIn(t) = {} THEN <<t>>
               ELSE LET i == CHOOSE j \in SeparatorsIn(t) : \A k \in SeparatorsIn(t) : j <= k
                    IN  <<SubSeq(t, 1, i - 1)>> \o g[SubSeq(t, i + 2, Len(t))]]
  <1>1. \A t \in S : size[t] \in Nat
    OBVIOUS
  <1>2. ASSUME NEW t \in S, t \notin Z
        PROVE  rest[t] \in S /\ size[rest[t]] < size[t]
    <2>1. FirstIn(t) \in 1..(Len(t) - 1)
      BY <1>2, FirstSeparator
    <2>2. /\ SubSeq(t, FirstIn(t) + 2, Len(t)) \in S
          /\ Len(SubSeq(t, FirstIn(t) + 2, Len(t))) < Len(t)
      BY <2>1
    <2> QED
      BY <2>2
  <1>3. PICK g : Piecewise(g, S, Z, last, first, rest)
    <2> HIDE DEF S, Z, last, first, rest, size
    <2> QED
      BY <1>1, <1>2, PiecewiseExists
  <1>4. Is(g)
    <2>1. g = [t \in S |-> IF t \in Z THEN last[t] ELSE first[t] \o g[rest[t]]]
      BY <1>3 DEF Piecewise
    <2>2. \A t \in S : (IF t \in Z THEN last[t] ELSE first[t] \o g[rest[t]]) =
            IF SeparatorsIn(t) = {} THEN <<t>>
            ELSE <<SubSeq(t, 1, FirstIn(t) - 1)>> \o g[SubSeq(t, FirstIn(t) + 2, Len(t))]
      OBVIOUS
    <2> HIDE DEF last, first, rest, Z
    <2>3. g = [t \in S |->
            IF SeparatorsIn(t) = {} THEN <<t>>
            ELSE <<SubSeq(t, 1, FirstIn(t) - 1)>> \o g[SubSeq(t, FirstIn(t) + 2, Len(t))]]
      BY <2>1, <2>2
    <2> QED
      BY <2>3 DEF FirstIn
  <1>5. Split = CHOOSE h : Is(h)
    BY Zenon DEF Split
  <1>6. Is(Split)
    <2> HIDE DEF Is
    <2> QED
      BY <1>4, <1>5
  <1> QED
    BY <1>6 DEF FirstIn

LEMMA FilledIs ==
  ASSUME NEW parts \in Seq(Seq(Chars))
  PROVE  Filled[parts] =
           IF parts = <<>> THEN <<>>
           ELSE (IF BlankPart(Head(parts)) THEN <<>> ELSE <<Head(parts)>>) \o Filled[Tail(parts)]
  <1> DEFINE S == Seq(Seq(Chars))
             last == [p \in S |-> <<>>]
             first == [p \in S |-> IF BlankPart(Head(p)) THEN <<>> ELSE <<Head(p)>>]
             rest == [p \in S |-> Tail(p)]
             size == [p \in S |-> Len(p)]
             Is(g) == g = [p \in S |->
               IF p = <<>> THEN <<>>
               ELSE (IF BlankPart(Head(p)) THEN <<>> ELSE <<Head(p)>>) \o g[Tail(p)]]
  <1>1. \A p \in S : size[p] \in Nat
    OBVIOUS
  <1>2. ASSUME NEW p \in S, p \notin {<<>>}
        PROVE  rest[p] \in S /\ size[rest[p]] < size[p]
    <2>1. Tail(p) \in S /\ Len(Tail(p)) < Len(p)
      BY <1>2
    <2> QED
      BY <2>1
  <1>3. PICK g : Piecewise(g, S, {<<>>}, last, first, rest)
    <2> HIDE DEF S, last, first, rest, size
    <2> QED
      BY <1>1, <1>2, PiecewiseExists
  <1>4. Is(g)
    <2>1. g = [p \in S |-> IF p \in {<<>>} THEN last[p] ELSE first[p] \o g[rest[p]]]
      BY <1>3 DEF Piecewise
    <2>2. \A p \in S : (IF p \in {<<>>} THEN last[p] ELSE first[p] \o g[rest[p]]) =
            IF p = <<>> THEN <<>>
            ELSE (IF BlankPart(Head(p)) THEN <<>> ELSE <<Head(p)>>) \o g[Tail(p)]
      OBVIOUS
    <2> HIDE DEF last, first, rest
    <2> QED
      BY <2>1, <2>2
  <1>5. Filled = CHOOSE h : Is(h)
    BY Zenon DEF Filled
  <1>6. Is(Filled)
    <2> HIDE DEF Is
    <2> QED
      BY <1>4, <1>5
  <1> QED
    BY <1>6

(* Sequences cut and put together again.                                   *)
LEMMA RestOfJoined ==
  ASSUME NEW S, NEW s \in Seq(S), NEW t \in Seq(S), NEW k \in 1..(Len(s) + 1)
  PROVE  SubSeq(s \o t, k, Len(s \o t)) = SubSeq(s, k, Len(s)) \o t
  <1> DEFINE a == SubSeq(s \o t, k, Len(s \o t))
             b == SubSeq(s, k, Len(s)) \o t
  <1>1. a \in Seq(S) /\ b \in Seq(S) /\ Len(a) = Len(b)
    OBVIOUS
  <1>2. \A i \in 1..Len(a) : a[i] = b[i]
    OBVIOUS
  <1> HIDE DEF a, b
  <1>3. a = b
    BY <1>1, <1>2, SeqEqual
  <1> QED
    BY <1>3 DEF a, b

LEMMA TailOfJoined ==
  ASSUME NEW S, NEW s \in Seq(S), NEW t \in Seq(S), s # <<>>
  PROVE  /\ Tail(s \o t) = Tail(s) \o t
         /\ Head(s \o t) = Head(s) /\ (s \o t)[1] = s[1] /\ s \o t # <<>>
         /\ Tail(s) \in Seq(S) /\ Len(Tail(s)) < Len(s)
  <1>1. s \o t \in Seq(S) /\ s \o t # <<>> /\ Len(s) \in Nat /\ Len(s) > 0
    OBVIOUS
  <1>2. Tail(s \o t) = SubSeq(s \o t, 2, Len(s \o t)) /\ Tail(s) = SubSeq(s, 2, Len(s))
    BY <1>1, TailIsSubSeq
  <1>3. Tail(s \o t) = Tail(s) \o t
    BY <1>1, <1>2, RestOfJoined
  <1>4. Head(s \o t) = Head(s) /\ (s \o t)[1] = s[1] /\ Tail(s) \in Seq(S) /\ Len(Tail(s)) < Len(s)
    BY <1>1
  <1> QED
    BY <1>1, <1>3, <1>4

LEMMA LastAndFront ==
  ASSUME NEW S, NEW s \in Seq(S), s # <<>>
  PROVE  /\ Front(s) \in Seq(S) /\ Last(s) \in S /\ Len(Front(s)) = Len(s) - 1
         /\ s = Front(s) \o <<Last(s)>>
         /\ \A i \in 1..(Len(s) - 1) : Front(s)[i] = s[i]
  <1>0. Len(s) \in Nat /\ Len(s) > 0
    OBVIOUS
  <1>1. Front(s) \in Seq(S) /\ Last(s) \in S /\ Len(Front(s)) = Len(s) - 1
    <2>1. Last(s) \in S
      BY <1>0 DEF Last
    <2>2. \A i \in 1..(Len(s) - 1) : s[i] \in S
      BY <1>0
    <2>3. Front(s) \in Seq(S) /\ Len(Front(s)) = Len(s) - 1
      <3> DEFINE n == Len(s) - 1
      <3>1. n \in Int /\ n >= 0 /\ \A i \in 1..n : s[i] \in S
        BY <1>0, <2>2
      <3> HIDE DEF n
      <3>2. /\ SubSeq(s, 1, n) \in Seq(S)
            /\ Len(SubSeq(s, 1, n)) = IF 1 <= n THEN n - 1 + 1 ELSE 0
        BY <3>1, SubSeqProperties
      <3>3. Len(SubSeq(s, 1, n)) = n
        BY <3>1, <3>2
      <3> QED
        BY <3>2, <3>3 DEF Front, n
    <2> QED
      BY <2>1, <2>3
  <1>2. \A i \in 1..(Len(s) - 1) : Front(s)[i] = s[i]
    BY DEF Front
  <1>3. s = Front(s) \o <<Last(s)>>
    <2> DEFINE a == Front(s) \o <<Last(s)>>
    <2>1. a \in Seq(S) /\ Len(a) = Len(s)
      BY <1>1
    <2>2. \A i \in 1..Len(s) : s[i] = a[i]
      BY <1>1, <1>2 DEF Last
    <2> HIDE DEF a
    <2>3. s = a
      BY <2>1, <2>2, SeqEqual
    <2> QED
      BY <2>3 DEF a
  <1> QED
    BY <1>1, <1>2, <1>3

LEMMA JoinedFront ==
  ASSUME NEW S, NEW s \in Seq(S), NEW t \in Seq(S), t # <<>>
  PROVE  /\ Last(s \o t) = Last(t) /\ Front(s \o t) = s \o Front(t)
         /\ s \o t # <<>>
  <1> DEFINE a == Front(s \o t)
             b == s \o Front(t)
  <1>1. a \in Seq(S) /\ b \in Seq(S) /\ Len(a) = Len(b)
    BY DEF Front
  <1>2. \A i \in 1..Len(a) : a[i] = b[i]
    BY DEF Front
  <1> HIDE DEF a, b
  <1>3. a = b
    BY <1>1, <1>2, SeqEqual
  <1> QED
    BY <1>3 DEF a, b, Last

(* Bytes are decoded piece by piece, unless a character is cut in two.     *)
LEMMA DecodedIsText == \A bytes \in Seq(Bytes) : Decoded[bytes] \in Seq(Chars)
  <1> DEFINE Bad == {Len(b) : b \in {c \in Seq(Bytes) : Decoded[c] \notin Seq(Chars)}}
  <1> SUFFICES ASSUME Bad # {} PROVE FALSE
    OBVIOUS
  <1>1. PICK n \in Bad : \A m \in Bad : ~(m < n)
    <2>1. Bad \subseteq Nat
      OBVIOUS
    <2> HIDE DEF Bad
    <2> QED
      BY <2>1, Smallest
  <1>2. PICK b \in Seq(Bytes) : Len(b) = n /\ Decoded[b] \notin Seq(Chars)
    OBVIOUS
  <1>3. \A c \in Seq(Bytes) : Len(c) < Len(b) => Decoded[c] \in Seq(Chars)
    BY <1>1, <1>2
  <1>4. <<>> \in Seq(Chars) /\ <<Wide>> \in Seq(Chars)
    BY DEF Chars
  <1>5. b # <<>>
    BY <1>2, <1>4, DecodedIs
  <1>6. CASE BeginsWide(b)
    <2>1. SubSeq(b, 3, Len(b)) \in Seq(Bytes) /\ Len(SubSeq(b, 3, Len(b))) < Len(b)
      BY <1>6 DEF BeginsWide
    <2>2. Decoded[b] = <<Wide>> \o Decoded[SubSeq(b, 3, Len(b))]
      BY <1>5, <1>6, DecodedIs
    <2> QED
      BY <1>2, <1>3, <1>4, <2>1, <2>2, ConcatProperties
  <1>7. CASE ~BeginsWide(b)
    <2>1. Tail(b) \in Seq(Bytes) /\ Len(Tail(b)) < Len(b) /\ b[1] \in Bytes
      BY <1>5
    <2>2. Decoded[b] = <<Alone(b[1])>> \o Decoded[Tail(b)]
      BY <1>5, <1>7, DecodedIs
    <2>3. <<Alone(b[1])>> \in Seq(Chars)
      BY <2>1, AloneIsChar
    <2> QED
      BY <1>2, <1>3, <2>1, <2>2, <2>3, ConcatProperties
  <1> QED
    BY <1>6, <1>7

CutsNoCharacter(a, b) ==
  a # <<>> /\ b # <<>> /\ a[Len(a)] = HighByte => b[1] # LowByte

LEMMA DecodedInPieces ==
  ASSUME NEW b \in Seq(Bytes)
  PROVE  \A a \in Seq(Bytes) :
           CutsNoCharacter(a, b) => Decoded[a \o b] = Decoded[a] \o Decoded[b]
  <1> DEFINE Claim(a) == CutsNoCharacter(a, b) => Decoded[a \o b] = Decoded[a] \o Decoded[b]
             Bad == {Len(a) : a \in {c \in Seq(Bytes) : ~Claim(c)}}
  <1> SUFFICES ASSUME Bad # {} PROVE FALSE
    OBVIOUS
  <1>1. PICK n \in Bad : \A m \in Bad : ~(m < n)
    <2>1. Bad \subseteq Nat
      <3> HIDE DEF Claim
      <3> QED
        OBVIOUS
    <2> HIDE DEF Bad
    <2> QED
      BY <2>1, Smallest
  <1>2. PICK a \in Seq(Bytes) : Len(a) = n /\ ~Claim(a)
    OBVIOUS
  <1>3. \A c \in Seq(Bytes) : Len(c) < Len(a) => Claim(c)
    BY <1>1, <1>2
  <1>4. a \o b \in Seq(Bytes) /\ \A c \in Seq(Bytes) : Decoded[c] \in Seq(Chars)
    BY DecodedIsText
  <1>5. a # <<>>
    <2> SUFFICES ASSUME a = <<>> PROVE FALSE
      OBVIOUS
    <2>1. a \o b = b /\ Decoded[a] = <<>>
      <3>1. <<>> \o b = b
        BY ConcatEmptySeq
      <3>2. Decoded[a] = <<>>
        BY DecodedIs
      <3> QED
        BY <3>1, <3>2
    <2>2. Decoded[a] \o Decoded[b] = Decoded[b]
      BY <1>4, <2>1, ConcatEmptySeq
    <2> QED
      BY <1>2, <2>1, <2>2
  <1>6. CutsNoCharacter(a, b) /\ Decoded[a \o b] # Decoded[a] \o Decoded[b]
    BY <1>2
  <1> HIDE DEF Bad
  <1>7. CASE BeginsWide(a)
    <2> DEFINE r == SubSeq(a, 3, Len(a))
    <2>1. r \in Seq(Bytes) /\ Len(r) < Len(a) /\ Len(a) > 1 /\ Len(a) \in Nat
      BY <1>7 DEF BeginsWide
    <2>2. CutsNoCharacter(r, b)
      <3>1. r # <<>> => r[Len(r)] = a[Len(a)]
        BY <2>1
      <3> QED
        BY <1>5, <1>6, <3>1 DEF CutsNoCharacter
    <2>3. BeginsWide(a \o b)
      BY <1>7, <2>1 DEF BeginsWide
    <2>4. SubSeq(a \o b, 3, Len(a \o b)) = r \o b
      BY <2>1, RestOfJoined
    <2>5. Decoded[a] = <<Wide>> \o Decoded[r] /\ Decoded[a \o b] = <<Wide>> \o Decoded[r \o b]
      <3> HIDE DEF r
      <3>1. Decoded[a] = <<Wide>> \o Decoded[r]
        BY <1>5, <1>7, DecodedIs DEF r
      <3>2. a \o b # <<>>
        BY <1>5
      <3> QED
        BY <1>4, <2>3, <2>4, <3>1, <3>2, DecodedIs
    <2> HIDE DEF r
    <2>6. Decoded[r \o b] = Decoded[r] \o Decoded[b]
      BY <1>3, <2>1, <2>2
    <2>7. <<Wide>> \in Seq(Chars)
      BY DEF Chars
    <2>8. <<Wide>> \o (Decoded[r] \o Decoded[b]) = (<<Wide>> \o Decoded[r]) \o Decoded[b]
      <3> DEFINE x == <<Wide>>
                 y == Decoded[r]
                 z == Decoded[b]
      <3>1. x \in Seq(Chars) /\ y \in Seq(Chars) /\ z \in Seq(Chars)
        BY <1>4, <2>1, <2>7
      <3> HIDE DEF x, y, z
      <3>2. (x \o y) \o z = x \o (y \o z)
        BY <3>1, ConcatAssociative
      <3> QED
        BY <3>2 DEF x, y, z
    <2> QED
      BY <1>6, <2>5, <2>6, <2>8
  <1>8. CASE ~BeginsWide(a)
    <2> DEFINE r == Tail(a)
               f == <<Alone(a[1])>>
    <2>1. /\ Tail(a \o b) = r \o b /\ (a \o b)[1] = a[1] /\ a \o b # <<>>
          /\ r \in Seq(Bytes) /\ Len(r) < Len(a)
      BY <1>5, TailOfJoined
    <2>2. CutsNoCharacter(r, b)
      <3>1. r # <<>> => r[Len(r)] = a[Len(a)]
        BY <1>5
      <3> QED
        BY <1>5, <1>6, <3>1 DEF CutsNoCharacter
    <2>3. ~BeginsWide(a \o b)
      <3>0. Len(a) \in Nat /\ Len(a) > 0 /\ Len(b) \in Nat /\ Len(a \o b) = Len(a) + Len(b)
        BY <1>5
      <3>1. CASE Len(a) = 1
        <4> SUFFICES ASSUME BeginsWide(a \o b) PROVE FALSE
          OBVIOUS
        <4>1. Len(b) > 0 /\ (a \o b)[1] = a[1] /\ (a \o b)[2] = b[1]
          BY <3>0, <3>1 DEF BeginsWide
        <4>2. b # <<>> /\ a[Len(a)] = HighByte /\ b[1] = LowByte
          BY <3>0, <3>1, <4>1 DEF BeginsWide
        <4> QED
          BY <1>5, <1>6, <4>2 DEF CutsNoCharacter
      <3>2. CASE Len(a) # 1
        <4>1. \A i \in 1..(Len(a) + Len(b)) :
                (a \o b)[i] = IF i <= Len(a) THEN a[i] ELSE b[i - Len(a)]
          BY ConcatProperties
        <4>2. Len(a) > 1 /\ (a \o b)[1] = a[1] /\ (a \o b)[2] = a[2]
          <5>1. Len(a) > 1 /\ 1 \in 1..(Len(a) + Len(b)) /\ 2 \in 1..(Len(a) + Len(b))
            <6> DEFINE m == Len(a)
                       k == Len(b)
            <6>1. m \in Nat /\ m > 0 /\ k \in Nat /\ m # 1
              BY <3>0, <3>2
            <6> HIDE DEF m, k
            <6>2. m > 1 /\ 1 \in 1..(m + k) /\ 2 \in 1..(m + k)
              BY <6>1
            <6> QED
              BY <6>2 DEF m, k
          <5>2. /\ (a \o b)[1] = IF 1 <= Len(a) THEN a[1] ELSE b[1 - Len(a)]
                /\ (a \o b)[2] = IF 2 <= Len(a) THEN a[2] ELSE b[2 - Len(a)]
            BY <4>1, <5>1
          <5>3. 1 <= Len(a) /\ 2 <= Len(a)
            BY <3>0, <5>1
          <5> QED
            BY <5>1, <5>2, <5>3
        <4> QED
          BY <1>8, <4>2 DEF BeginsWide
      <3> QED
        BY <3>1, <3>2
    <2>4. a[1] \in Bytes
      BY <1>5
    <2>5. Decoded[a] = f \o Decoded[r]
      BY <1>5, <1>8, DecodedIs
    <2>6. Decoded[a \o b] = f \o Decoded[r \o b]
      BY <1>4, <2>1, <2>3, DecodedIs
    <2>7. f \in Seq(Chars)
      BY <2>4, AloneIsChar
    <2> HIDE DEF r, f
    <2>8. Decoded[r \o b] = Decoded[r] \o Decoded[b]
      BY <1>3, <2>1, <2>2
    <2>9. f \o (Decoded[r] \o Decoded[b]) = (f \o Decoded[r]) \o Decoded[b]
      <3> DEFINE x == f
                 y == Decoded[r]
                 z == Decoded[b]
      <3>1. x \in Seq(Chars) /\ y \in Seq(Chars) /\ z \in Seq(Chars)
        BY <1>4, <2>1, <2>7
      <3> HIDE DEF x, y, z
      <3>2. (x \o y) \o z = x \o (y \o z)
        BY <3>1, ConcatAssociative
      <3> QED
        BY <3>2 DEF x, y, z
    <2> QED
      BY <1>6, <2>5, <2>6, <2>8, <2>9
  <1> QED
    BY <1>7, <1>8

LEMMA SplitAtFirst ==
  ASSUME NEW t \in Seq(Chars), SeparatorsIn(t) # {}
  PROVE  LET i == FirstIn(t)
             f == SubSeq(t, 1, i - 1)
             r == SubSeq(t, i + 2, Len(t))
         IN  /\ f \in Seq(Chars) /\ r \in Seq(Chars) /\ Len(r) < Len(t)
             /\ Split[t] = <<f>> \o Split[r]
             /\ \A u \in Seq(Chars) : /\ SeparatorsIn(t \o u) # {} /\ FirstIn(t \o u) = i
                                      /\ SubSeq(t \o u, 1, i - 1) = f
                                      /\ SubSeq(t \o u, i + 2, Len(t \o u)) = r \o u
  <1> DEFINE i == FirstIn(t)
             f == SubSeq(t, 1, i - 1)
             r == SubSeq(t, i + 2, Len(t))
  <1>1. /\ i \in SeparatorsIn(t) /\ \A k \in SeparatorsIn(t) : i <= k
        /\ i \in 1..(Len(t) - 1)
    BY FirstSeparator
  <1>2. i \in Nat /\ i >= 1 /\ i + 1 <= Len(t) /\ Len(t) \in Nat
    BY <1>1
  <1>3. f \in Seq(Chars) /\ Len(f) = i - 1 /\ \A k \in 1..(i - 1) : f[k] = t[k]
    <2> HIDE DEF i
    <2>1. \A k \in 1..(i - 1) : t[k] \in Chars
      BY <1>2
    <2>2. i - 1 \in Int /\ i - 1 >= 0
      BY <1>2
    <2> QED
      BY <1>2, <2>1, <2>2
  <1>4. r \in Seq(Chars) /\ Len(r) < Len(t)
    <2> HIDE DEF i
    <2> QED
      BY <1>2
  <1>5. Split[t] = <<f>> \o Split[r]
    BY SplitIs
  <1>6. ASSUME NEW u \in Seq(Chars)
        PROVE  /\ SeparatorsIn(t \o u) # {} /\ FirstIn(t \o u) = i
               /\ SubSeq(t \o u, 1, i - 1) = f
               /\ SubSeq(t \o u, i + 2, Len(t \o u)) = r \o u
    <2> HIDE DEF i
    <2> DEFINE w == t \o u
    <2>1. w \in Seq(Chars) /\ Len(w) = Len(t) + Len(u) /\ Len(u) \in Nat
      OBVIOUS
    <2>2. \A k \in 1..Len(t) : w[k] = t[k]
      BY <1>2, <2>1
    <2> HIDE DEF w
    <2>3. i \in SeparatorsIn(w)
      BY <1>1, <1>2, <2>1, <2>2 DEF SeparatorsIn
    <2>4. FirstIn(w) \in SeparatorsIn(w) /\ FirstIn(w) <= i /\ FirstIn(w) \in Nat
      BY <2>1, <2>3, FirstSeparator
    <2>5. FirstIn(w) \in SeparatorsIn(t)
      <3> DEFINE k == FirstIn(w)
      <3>1. k \in Nat /\ k <= i /\ w[k] = Newline /\ w[k + 1] = Newline /\ k >= 1
        BY <2>4 DEF SeparatorsIn
      <3> HIDE DEF k
      <3>2. k \in 1..Len(t) /\ k + 1 \in 1..Len(t) /\ k \in 1..(Len(t) - 1)
        BY <1>2, <3>1
      <3>3. t[k] = Newline /\ t[k + 1] = Newline
        BY <2>2, <3>1, <3>2
      <3>4. k \in SeparatorsIn(t)
        BY <3>2, <3>3 DEF SeparatorsIn
      <3> QED
        BY <3>4 DEF k
    <2>6. FirstIn(w) = i
      BY <1>1, <1>2, <2>4, <2>5
    <2>7. SubSeq(w, 1, i - 1) = f
      <3> DEFINE e == SubSeq(w, 1, i - 1)
      <3>1. \A k \in 1..(i - 1) : w[k] \in Chars
        BY <1>2, <2>1
      <3>2. i - 1 \in Int /\ i - 1 >= 0
        BY <1>2
      <3>3. e \in Seq(Chars) /\ Len(e) = i - 1 /\ \A k \in 1..(i - 1) : e[k] = w[k]
        BY <1>2, <3>1, <3>2
      <3>4. \A k \in 1..(i - 1) : w[k] = t[k]
        BY <1>2, <2>2
      <3> HIDE DEF e, f
      <3>5. e = f
        BY <1>3, <3>3, <3>4, SeqEqual
      <3> QED
        BY <3>5 DEF e
    <2>8. SubSeq(w, i + 2, Len(w)) = r \o u
      <3>1. i + 2 \in 1..(Len(t) + 1)
        BY <1>2
      <3> QED
        BY <3>1, RestOfJoined DEF w
    <2> QED
      BY <2>3, <2>6, <2>7, <2>8 DEF w
  <1> QED
    BY <1>3, <1>4, <1>5, <1>6

Parts == Seq(Seq(Chars))

LEMMA SplitIsParts ==
  \A t \in Seq(Chars) : /\ Split[t] \in Parts /\ Split[t] # <<>>
                        /\ SeparatorsIn(Last(Split[t])) = {}
  <1> DEFINE Claim(t) == /\ Split[t] \in Parts /\ Split[t] # <<>>
                         /\ SeparatorsIn(Last(Split[t])) = {}
             Bad == {Len(t) : t \in {c \in Seq(Chars) : ~Claim(c)}}
  <1> SUFFICES ASSUME Bad # {} PROVE FALSE
    OBVIOUS
  <1>1. PICK n \in Bad : \A m \in Bad : ~(m < n)
    <2>1. Bad \subseteq Nat
      <3> HIDE DEF Claim
      <3> QED
        OBVIOUS
    <2> HIDE DEF Bad
    <2> QED
      BY <2>1, Smallest
  <1>2. PICK t \in Seq(Chars) : Len(t) = n /\ ~Claim(t)
    OBVIOUS
  <1>3. \A c \in Seq(Chars) : Len(c) < Len(t) => Claim(c)
    BY <1>1, <1>2
  <1> HIDE DEF Bad
  <1>4. CASE SeparatorsIn(t) = {}
    <2>1. Split[t] = <<t>>
      BY <1>4, SplitIs
    <2>2. <<t>> \in Parts /\ <<t>> # <<>> /\ Last(<<t>>) = t
      BY DEF Parts, Last
    <2> QED
      BY <1>2, <1>4, <2>1, <2>2
  <1>5. CASE SeparatorsIn(t) # {}
    <2> DEFINE f == SubSeq(t, 1, FirstIn(t) - 1)
               r == SubSeq(t, FirstIn(t) + 2, Len(t))
    <2>1. f \in Seq(Chars) /\ r \in Seq(Chars) /\ Len(r) < Len(t) /\ Split[t] = <<f>> \o Split[r]
      BY <1>5, SplitAtFirst
    <2> HIDE DEF f, r
    <2>2. Claim(r)
      BY <1>3, <2>1
    <2>3. <<f>> \in Parts /\ <<f>> \o Split[r] \in Parts
      BY <2>1, <2>2 DEF Parts
    <2>4. Last(<<f>> \o Split[r]) = Last(Split[r]) /\ <<f>> \o Split[r] # <<>>
      BY <2>2, <2>3, JoinedFront DEF Parts
    <2> QED
      BY <1>2, <2>1, <2>2, <2>3, <2>4
  <1> QED
    BY <1>4, <1>5

(* A text is split in pieces, the second after what the first left over.   *)
LEMMA SplitInPieces ==
  ASSUME NEW u \in Seq(Chars)
  PROVE  \A t \in Seq(Chars) :
           Split[t \o u] = Front(Split[t]) \o Split[Last(Split[t]) \o u]
  <1> DEFINE Claim(t) == Split[t \o u] = Front(Split[t]) \o Split[Last(Split[t]) \o u]
             Bad == {Len(t) : t \in {c \in Seq(Chars) : ~Claim(c)}}
  <1> SUFFICES ASSUME Bad # {} PROVE FALSE
    OBVIOUS
  <1>1. PICK n \in Bad : \A m \in Bad : ~(m < n)
    <2>1. Bad \subseteq Nat
      <3> HIDE DEF Claim
      <3> QED
        OBVIOUS
    <2> HIDE DEF Bad
    <2> QED
      BY <2>1, Smallest
  <1>2. PICK t \in Seq(Chars) : Len(t) = n /\ ~Claim(t)
    OBVIOUS
  <1>3. \A c \in Seq(Chars) : Len(c) < Len(t) => Claim(c)
    BY <1>1, <1>2
  <1> HIDE DEF Bad
  <1>4. CASE SeparatorsIn(t) = {}
    <2>1. Split[t] = <<t>>
      BY <1>4, SplitIs
    <2>2. Last(<<t>>) = t /\ Front(<<t>>) = <<>>
      BY DEF Last, Front
    <2>3. t \o u \in Seq(Chars)
      OBVIOUS
    <2>4. Split[t \o u] \in Parts
      BY <2>3, SplitIsParts
    <2>5. <<>> \o Split[t \o u] = Split[t \o u]
      BY <2>4, ConcatEmptySeq DEF Parts
    <2> QED
      BY <1>2, <2>1, <2>2, <2>5
  <1>5. CASE SeparatorsIn(t) # {}
    <2> DEFINE i == FirstIn(t)
               f == SubSeq(t, 1, i - 1)
               r == SubSeq(t, i + 2, Len(t))
               w == t \o u
    <2>1. /\ f \in Seq(Chars) /\ r \in Seq(Chars) /\ Len(r) < Len(t) /\ Split[t] = <<f>> \o Split[r]
          /\ SeparatorsIn(w) # {} /\ FirstIn(w) = i
          /\ SubSeq(w, 1, i - 1) = f /\ SubSeq(w, i + 2, Len(w)) = r \o u
      BY <1>5, SplitAtFirst
    <2>2. w \in Seq(Chars)
      OBVIOUS
    <2> HIDE DEF i, f, r, w
    <2>3. Split[w] = <<f>> \o Split[r \o u]
      BY <2>1, <2>2, SplitIs
    <2>4. Split[r \o u] = Front(Split[r]) \o Split[Last(Split[r]) \o u]
      BY <1>3, <2>1
    <2>5. Split[r] \in Parts /\ Split[r] # <<>> /\ <<f>> \in Parts
      BY <2>1, SplitIsParts DEF Parts
    <2>6. Last(Split[t]) = Last(Split[r]) /\ Front(Split[t]) = <<f>> \o Front(Split[r])
      <3> DEFINE T == Seq(Chars)
                 a == <<f>>
                 b == Split[r]
      <3>1. a \in Seq(T) /\ b \in Seq(T) /\ b # <<>> /\ Split[t] = a \o b
        BY <2>1, <2>5 DEF Parts
      <3> HIDE DEF T, a, b
      <3>2. Last(a \o b) = Last(b) /\ Front(a \o b) = a \o Front(b)
        BY <3>1, JoinedFront
      <3> QED
        BY <3>1, <3>2 DEF a, b
    <2>7. Front(Split[r]) \in Parts /\ Last(Split[r]) \in Seq(Chars)
      BY <2>5, LastAndFront DEF Parts
    <2> DEFINE x == <<f>>
               y == Front(Split[r])
               z == Split[Last(Split[r]) \o u]
    <2>8. x \in Parts /\ y \in Parts /\ z \in Parts
      <3>1. Last(Split[r]) \o u \in Seq(Chars)
        BY <2>7
      <3> QED
        BY <2>5, <2>7, <3>1, SplitIsParts
    <2> HIDE DEF x, y, z
    <2>9. (x \o y) \o z = x \o (y \o z)
      <3> DEFINE T == Seq(Chars)
      <3>1. x \in Seq(T) /\ y \in Seq(T) /\ z \in Seq(T)
        BY <2>8 DEF Parts
      <3> HIDE DEF T
      <3> QED
        BY <3>1, ConcatAssociative
    <2>10. Split[w] = Front(Split[t]) \o Split[Last(Split[t]) \o u]
      BY <2>3, <2>4, <2>6, <2>9 DEF x, y, z
    <2> QED
      BY <1>2, <2>10 DEF w
  <1> QED
    BY <1>4, <1>5

LEMMA FilledIsParts == \A p \in Parts : Filled[p] \in Parts
  <1> DEFINE Bad == {Len(p) : p \in {c \in Parts : Filled[c] \notin Parts}}
  <1> SUFFICES ASSUME Bad # {} PROVE FALSE
    OBVIOUS
  <1>1. PICK n \in Bad : \A m \in Bad : ~(m < n)
    <2>1. Bad \subseteq Nat
      BY DEF Parts
    <2> HIDE DEF Bad
    <2> QED
      BY <2>1, Smallest
  <1>2. PICK p \in Parts : Len(p) = n /\ Filled[p] \notin Parts
    OBVIOUS
  <1>3. \A c \in Parts : Len(c) < Len(p) => Filled[c] \in Parts
    BY <1>1, <1>2
  <1> HIDE DEF Bad
  <1>4. <<>> \in Parts
    BY DEF Parts
  <1>5. p # <<>>
    BY <1>2, <1>4, FilledIs DEF Parts
  <1>6. Tail(p) \in Parts /\ Len(Tail(p)) < Len(p) /\ Head(p) \in Seq(Chars)
    BY <1>5 DEF Parts
  <1> DEFINE f == IF BlankPart(Head(p)) THEN <<>> ELSE <<Head(p)>>
  <1>7. Filled[p] = f \o Filled[Tail(p)]
    BY <1>5, FilledIs DEF Parts
  <1>8. f \in Parts
    BY <1>4, <1>6 DEF Parts
  <1> HIDE DEF f
  <1>9. Filled[Tail(p)] \in Parts
    BY <1>3, <1>6
  <1> QED
    BY <1>2, <1>7, <1>8, <1>9, ConcatProperties DEF Parts

LEMMA FilledInPieces ==
  ASSUME NEW q \in Parts
  PROVE  \A p \in Parts : Filled[p \o q] = Filled[p] \o Filled[q]
  <1> DEFINE Claim(p) == Filled[p \o q] = Filled[p] \o Filled[q]
             Bad == {Len(p) : p \in {c \in Parts : ~Claim(c)}}
  <1> SUFFICES ASSUME Bad # {} PROVE FALSE
    OBVIOUS
  <1>1. PICK n \in Bad : \A m \in Bad : ~(m < n)
    <2>1. Bad \subseteq Nat
      <3> HIDE DEF Claim
      <3> QED
        BY DEF Parts
    <2> HIDE DEF Bad
    <2> QED
      BY <2>1, Smallest
  <1>2. PICK p \in Parts : Len(p) = n /\ ~Claim(p)
    OBVIOUS
  <1>3. \A c \in Parts : Len(c) < Len(p) => Claim(c)
    BY <1>1, <1>2
  <1> HIDE DEF Bad
  <1>4. Filled[q] \in Parts /\ p \o q \in Parts
    BY FilledIsParts DEF Parts
  <1>5. p # <<>>
    <2> SUFFICES ASSUME p = <<>> PROVE FALSE
      OBVIOUS
    <2>1. p \o q = q
      BY ConcatEmptySeq DEF Parts
    <2>2. Filled[p] = <<>>
      BY FilledIs DEF Parts
    <2>3. <<>> \o Filled[q] = Filled[q]
      BY <1>4, ConcatEmptySeq DEF Parts
    <2> QED
      BY <1>2, <2>1, <2>2, <2>3
  <1> DEFINE r == Tail(p)
             f == IF BlankPart(Head(p)) THEN <<>> ELSE <<Head(p)>>
  <1>6. /\ Tail(p \o q) = r \o q /\ Head(p \o q) = Head(p) /\ p \o q # <<>>
        /\ r \in Parts /\ Len(r) < Len(p) /\ Head(p) \in Seq(Chars)
    BY <1>5, TailOfJoined, HeadTailProperties DEF Parts
  <1>7. Filled[p] = f \o Filled[r]
    BY <1>5, FilledIs DEF Parts
  <1>8. Filled[p \o q] = f \o Filled[r \o q]
    BY <1>4, <1>6, FilledIs DEF Parts
  <1>9. f \in Parts /\ Filled[r] \in Parts
    <2>1. f \in Parts
      BY <1>6 DEF Parts
    <2> HIDE DEF r
    <2> QED
      BY <1>6, <2>1, FilledIsParts
  <1> HIDE DEF f, r
  <1>10. Filled[r \o q] = Filled[r] \o Filled[q]
    BY <1>3, <1>6
  <1> DEFINE x == Filled[r]
             y == Filled[q]
  <1>11. (f \o x) \o y = f \o (x \o y)
    <2> DEFINE T == Seq(Chars)
    <2>1. f \in Seq(T) /\ x \in Seq(T) /\ y \in Seq(T)
      BY <1>4, <1>9 DEF Parts
    <2> HIDE DEF x, y, T
    <2> QED
      BY <2>1, ConcatAssociative
  <1> QED
    BY <1>2, <1>7, <1>8, <1>10, <1>11

(* What of a text matters to the number of its frames: how many are        *)
(* complete, whether what was left over is more than blank, and whether it *)
(* ends with a newline.                                                    *)
Complete(t) == Len(Filled[Front(Split[t])])
Begun(t) == ~BlankPart(Last(Split[t]))
AtLine(t) == Last(Split[t]) # <<>> /\ Last(Last(Split[t])) = Newline

Alike(t, u) ==
  Complete(t) = Complete(u) /\ (Begun(t) <=> Begun(u)) /\ (AtLine(t) <=> AtLine(u))

LEMMA BlankWithOneMore ==
  ASSUME NEW p \in Seq(Chars), NEW c \in Chars
  PROVE  /\ p \o <<c>> \in Seq(Chars) /\ Len(p \o <<c>>) = Len(p) + 1
         /\ \A i \in 1..Len(p) : (p \o <<c>>)[i] = p[i]
         /\ (p \o <<c>>)[Len(p) + 1] = c /\ Last(p \o <<c>>) = c /\ p \o <<c>> # <<>>
         /\ BlankPart(p \o <<c>>) <=> BlankPart(p) /\ c = Newline
  <1> DEFINE w == p \o <<c>>
  <1>1. w \in Seq(Chars) /\ Len(w) = Len(p) + 1 /\ Len(p) \in Nat
    OBVIOUS
  <1>2. (\A i \in 1..Len(p) : w[i] = p[i]) /\ w[Len(p) + 1] = c
    OBVIOUS
  <1>3. DOMAIN w = 1..(Len(p) + 1) /\ DOMAIN p = 1..Len(p)
    BY <1>1
  <1> HIDE DEF w
  <1>4. BlankPart(w) <=> BlankPart(p) /\ c = Newline
    <2>1. \A i : i \in DOMAIN w <=> i \in DOMAIN p \/ i = Len(p) + 1
      BY <1>1, <1>3
    <2> QED
      BY <1>2, <1>3, <2>1 DEF BlankPart
  <1>5. Last(w) = c /\ w # <<>>
    BY <1>1, <1>2 DEF Last
  <1> QED
    BY <1>1, <1>2, <1>4, <1>5 DEF w

LEMMA LeftOver ==
  ASSUME NEW t \in Seq(Chars)
  PROVE  /\ Last(Split[t]) \in Seq(Chars) /\ SeparatorsIn(Last(Split[t])) = {}
         /\ Front(Split[t]) \in Parts /\ Filled[Front(Split[t])] \in Parts
         /\ Complete(t) \in Nat
  <1>1. Split[t] \in Parts /\ Split[t] # <<>> /\ SeparatorsIn(Last(Split[t])) = {}
    BY SplitIsParts
  <1>2. Last(Split[t]) \in Seq(Chars) /\ Front(Split[t]) \in Parts
    BY <1>1, LastAndFront DEF Parts
  <1>3. Filled[Front(Split[t])] \in Parts
    BY <1>2, FilledIsParts
  <1>4. Complete(t) \in Nat
    BY <1>3, LenProperties DEF Complete, Parts
  <1> QED
    BY <1>1, <1>2, <1>3, <1>4

LEMMA NothingYet ==
  /\ Decoded[<<>>] = <<>> /\ Split[<<>>] = <<<<>>>> /\ Filled[<<>>] = <<>>
  /\ Last(<<<<>>>>) = <<>> /\ Front(<<<<>>>>) = <<>> /\ <<<<>>>> \in Parts
  /\ Complete(<<>>) = 0
  <1>0. <<>> \in Seq(Bytes) /\ <<>> \in Seq(Chars) /\ <<>> \in Seq(Seq(Chars))
    OBVIOUS
  <1>1. SeparatorsIn(<<>>) = {}
    BY DEF SeparatorsIn
  <1>2. Split[<<>>] = <<<<>>>>
    BY <1>0, <1>1, SplitIs
  <1>3. Last(<<<<>>>>) = <<>> /\ Front(<<<<>>>>) = <<>> /\ <<<<>>>> \in Parts
    BY DEF Front, Last, Parts
  <1>4. Filled[<<>>] = <<>>
    BY <1>0, FilledIs
  <1>5. Decoded[<<>>] = <<>>
    BY <1>0, DecodedIs
  <1>6. Complete(<<>>) = 0
    BY <1>2, <1>3, <1>4 DEF Complete
  <1> QED
    BY <1>2, <1>3, <1>4, <1>5, <1>6

LEMMA OneMore ==
  ASSUME NEW t \in Seq(Chars), NEW c \in Chars
  PROVE  /\ Complete(t \o <<c>>)
              = Complete(t) + (IF c = Newline /\ AtLine(t) /\ Begun(t) THEN 1 ELSE 0)
         /\ Begun(t \o <<c>>) <=> (c = Newline => ~AtLine(t) /\ Begun(t))
         /\ AtLine(t \o <<c>>) <=> c = Newline /\ ~AtLine(t)
  <1> DEFINE T == Seq(Chars)
             F == Front(Split[t])
             p == Last(Split[t])
             w == p \o <<c>>
             v == t \o <<c>>
             n == Len(p)
  <1>1. /\ p \in T /\ SeparatorsIn(p) = {} /\ F \in Parts /\ Filled[F] \in Parts
        /\ Complete(t) = Len(Filled[F]) /\ Complete(t) \in Nat
        /\ Begun(t) <=> ~BlankPart(p)
        /\ AtLine(t) <=> p # <<>> /\ p[Len(p)] = Newline
    BY LeftOver DEF Complete, Begun, AtLine, Last
  <1>2. v \in T /\ <<c>> \in T
    OBVIOUS
  <1>3. Split[v] = F \o Split[w]
    BY <1>2, SplitInPieces
  <1> HIDE DEF F, p, v
  <1>4. /\ w \in T /\ Len(w) = n + 1 /\ n \in Nat
        /\ \A i \in 1..n : w[i] = p[i]
        /\ w[n + 1] = c /\ Last(w) = c /\ w # <<>>
        /\ BlankPart(w) <=> BlankPart(p) /\ c = Newline
    BY <1>1, BlankWithOneMore
  <1> HIDE DEF w, n
  <1>5. Split[w] \in Parts /\ Split[w] # <<>>
    BY <1>4, SplitIsParts
  <1>6. Last(Split[v]) = Last(Split[w]) /\ Front(Split[v]) = F \o Front(Split[w])
    <2> DEFINE b == Split[w]
    <2>1. F \in Seq(T) /\ b \in Seq(T) /\ b # <<>>
      BY <1>1, <1>5 DEF Parts
    <2> HIDE DEF T, b
    <2>2. Last(F \o b) = Last(b) /\ Front(F \o b) = F \o Front(b)
      BY <2>1, JoinedFront
    <2> QED
      BY <1>3, <2>2 DEF b
  <1>7. p = <<>> <=> n = 0
    BY <1>1 DEF n
  <1>8. \A i \in 1..n : i \in SeparatorsIn(w) <=> i = n /\ c = Newline /\ AtLine(t)
    <2> SUFFICES ASSUME NEW i \in 1..n
                 PROVE  i \in SeparatorsIn(w) <=> i = n /\ c = Newline /\ AtLine(t)
      OBVIOUS
    <2>1. i \in SeparatorsIn(w) <=> w[i] = Newline /\ w[i + 1] = Newline
      BY <1>4 DEF SeparatorsIn
    <2>2. CASE i = n
      BY <1>1, <1>4, <1>7, <2>1, <2>2 DEF n
    <2>3. CASE i # n
      <3>1. i \in 1..(n - 1) /\ i + 1 \in 1..n
        BY <1>4, <2>3
      <3>2. i \notin SeparatorsIn(p)
        BY <1>1
      <3>3. ~(p[i] = Newline /\ p[i + 1] = Newline)
        BY <3>1, <3>2 DEF SeparatorsIn, n
      <3> QED
        BY <1>4, <2>1, <2>3, <3>1, <3>3
    <2> QED
      BY <2>2, <2>3
  <1>9. SeparatorsIn(w) \subseteq 1..n
    BY <1>4 DEF SeparatorsIn
  <1>10. CASE c = Newline /\ AtLine(t)
    <2>1. SeparatorsIn(w) = {n} /\ n > 0
      <3>1. n > 0
        BY <1>1, <1>4, <1>7, <1>10
      <3>2. n \in 1..n
        BY <1>4, <3>1
      <3> QED
        BY <1>8, <1>9, <1>10, <3>1, <3>2
    <2>2. FirstIn(w) = n
      BY <1>4, <2>1, FirstSeparator
    <2> DEFINE f == SubSeq(w, 1, n - 1)
               r == SubSeq(w, n + 2, Len(w))
    <2>3. r = <<>>
      BY <1>4, SubSeqEmpty
    <2>4. f \in T /\ Len(f) = n - 1 /\ \A i \in 1..(n - 1) : f[i] = p[i]
      <3>1. \A i \in 1..(n - 1) : w[i] \in Chars /\ w[i] = p[i]
        BY <1>4
      <3>2. n - 1 \in Int /\ n - 1 >= 0
        BY <1>4, <2>1
      <3> QED
        BY <1>4, <3>1, <3>2
    <2>5. Split[w] = <<f>> \o Split[r]
      BY <1>4, <2>1, <2>2, SplitIs
    <2> HIDE DEF f, r
    <2>6. Split[w] = <<f>> \o <<<<>>>>
      BY <2>3, <2>5, NothingYet
    <2>7. Last(Split[w]) = <<>> /\ Front(Split[w]) = <<f>>
      <3> DEFINE a == <<f>>
                 b == <<<<>>>>
      <3>1. a \in Seq(T) /\ b \in Seq(T) /\ b # <<>> /\ Last(b) = <<>> /\ Front(b) = <<>>
        BY <2>4, NothingYet DEF Parts
      <3> HIDE DEF a, b, T
      <3>2. Last(a \o b) = <<>> /\ Front(a \o b) = a \o <<>>
        BY <3>1, JoinedFront
      <3>3. a \o <<>> = a
        BY <3>1, ConcatEmptySeq
      <3> QED
        BY <2>6, <3>2, <3>3 DEF a, b
    <2>8. BlankPart(f) <=> BlankPart(p)
      <3>1. DOMAIN f = 1..(n - 1) /\ DOMAIN p = 1..n /\ p[n] = Newline
        BY <1>1, <1>10, <2>4 DEF n
      <3>2. \A i \in 1..n : i = n \/ i \in 1..(n - 1)
        BY <1>4
      <3>3. \A i \in 1..(n - 1) : i \in 1..n
        BY <1>4
      <3> QED
        BY <2>4, <3>1, <3>2, <3>3 DEF BlankPart
    <2>9. Complete(v) = Complete(t) + (IF BlankPart(f) THEN 0 ELSE 1)
      <3>1. <<f>> \in Parts
        BY <2>4 DEF Parts
      <3>2. Filled[F \o <<f>>] = Filled[F] \o Filled[<<f>>]
        BY <1>1, <3>1, FilledInPieces
      <3>3. Tail(<<f>>) = <<>> /\ Head(<<f>>) = f /\ <<f>> # <<>>
        OBVIOUS
      <3>4. Filled[<<>>] = <<>>
        BY NothingYet
      <3>5. Filled[<<f>>] = (IF BlankPart(f) THEN <<>> ELSE <<f>>) \o <<>>
        BY <3>1, <3>3, <3>4, FilledIs DEF Parts
      <3>6. Len(Filled[<<f>>]) = IF BlankPart(f) THEN 0 ELSE 1
        BY <3>5
      <3>7. Filled[<<f>>] \in Parts
        BY <3>1, FilledIsParts
      <3>8. Len(Filled[F \o <<f>>]) = Len(Filled[F]) + Len(Filled[<<f>>])
        BY <1>1, <3>2, <3>7, ConcatProperties DEF Parts
      <3> QED
        BY <1>1, <1>6, <2>7, <3>6, <3>8 DEF Complete
    <2>10. ~Begun(v) /\ ~AtLine(v)
      <3>1. BlankPart(<<>>)
        BY DEF BlankPart
      <3> QED
        BY <1>6, <2>7, <3>1 DEF Begun, AtLine
    <2>11. /\ Complete(v) = Complete(t) + (IF c = Newline /\ AtLine(t) /\ Begun(t) THEN 1 ELSE 0)
           /\ Begun(v) <=> (c = Newline => ~AtLine(t) /\ Begun(t))
           /\ AtLine(v) <=> c = Newline /\ ~AtLine(t)
      BY <1>1, <1>10, <2>8, <2>9, <2>10
    <2> QED
      BY <2>11 DEF v
  <1>11. CASE ~(c = Newline /\ AtLine(t))
    <2>1. SeparatorsIn(w) = {}
      BY <1>8, <1>9, <1>11
    <2>2. Split[w] = <<w>>
      BY <1>4, <2>1, SplitIs
    <2>3. Last(<<w>>) = w /\ Front(<<w>>) = <<>>
      BY DEF Last, Front
    <2>4. F \o <<>> = F
      BY <1>1, ConcatEmptySeq DEF Parts
    <2>5. Last(Split[v]) = w /\ Front(Split[v]) = F
      BY <1>6, <2>2, <2>3, <2>4
    <2>6. Complete(v) = Complete(t)
      BY <1>1, <2>5 DEF Complete
    <2>7. /\ Begun(v) <=> ~(BlankPart(p) /\ c = Newline)
          /\ AtLine(v) <=> c = Newline
      BY <1>4, <2>5 DEF Begun, AtLine
    <2>8. c = Newline => ~AtLine(t)
      BY <1>11
    <2>9. Complete(t) + 0 = Complete(t)
      BY <1>1
    <2>10. /\ Complete(v) = Complete(t) + (IF c = Newline /\ AtLine(t) /\ Begun(t) THEN 1 ELSE 0)
           /\ Begun(v) <=> (c = Newline => ~AtLine(t) /\ Begun(t))
           /\ AtLine(v) <=> c = Newline /\ ~AtLine(t)
      BY <1>1, <2>6, <2>7, <2>8, <2>9
    <2> QED
      BY <2>10 DEF v
  <1> QED
    BY <1>10, <1>11

LEMMA AlikeWithOneMore ==
  ASSUME NEW t \in Seq(Chars), NEW u \in Seq(Chars), Alike(t, u),
         NEW c \in Chars, NEW d \in Chars, c = Newline <=> d = Newline
  PROVE  Alike(t \o <<c>>, u \o <<d>>)
  <1> DEFINE m == t \o <<c>>
             n == u \o <<d>>
  <1>1. /\ Complete(m) = Complete(t) + (IF c = Newline /\ AtLine(t) /\ Begun(t) THEN 1 ELSE 0)
        /\ Begun(m) <=> (c = Newline => ~AtLine(t) /\ Begun(t))
        /\ AtLine(m) <=> c = Newline /\ ~AtLine(t)
    BY OneMore
  <1>2. /\ Complete(n) = Complete(u) + (IF d = Newline /\ AtLine(u) /\ Begun(u) THEN 1 ELSE 0)
        /\ Begun(n) <=> (d = Newline => ~AtLine(u) /\ Begun(u))
        /\ AtLine(n) <=> d = Newline /\ ~AtLine(u)
    BY OneMore
  <1>3. Complete(t) = Complete(u) /\ (Begun(t) <=> Begun(u)) /\ (AtLine(t) <=> AtLine(u))
    BY DEF Alike
  <1> HIDE DEF m, n
  <1>4. Complete(m) = Complete(n)
    BY <1>1, <1>2, <1>3
  <1>5. (Begun(m) <=> Begun(n)) /\ (AtLine(m) <=> AtLine(n))
    BY <1>1, <1>2, <1>3
  <1>6. Alike(m, n)
    BY <1>4, <1>5 DEF Alike
  <1> QED
    BY <1>6 DEF m, n

\* A character that is not a newline counts as much as two of them.
LEMMA AlikeTwice ==
  ASSUME NEW t \in Seq(Chars), NEW c \in Chars, NEW d \in Chars, NEW e \in Chars,
         Newline \notin {c, d, e}
  PROVE  Alike(t \o <<c>>, (t \o <<d>>) \o <<e>>)
  <1> DEFINE m == t \o <<c>>
             k == t \o <<d>>
             n == k \o <<e>>
  <1>0. k \in Seq(Chars) /\ c # Newline /\ d # Newline /\ e # Newline
    OBVIOUS
  <1>1. Complete(m) = Complete(t) + 0 /\ Begun(m) /\ ~AtLine(m)
    BY <1>0, OneMore
  <1>2. Complete(k) = Complete(t) + 0 /\ Begun(k) /\ ~AtLine(k)
    BY <1>0, OneMore
  <1> HIDE DEF k
  <1>3. Complete(n) = Complete(k) + 0 /\ Begun(n) /\ ~AtLine(n)
    BY <1>0, OneMore
  <1> HIDE DEF m, n
  <1>4. Complete(t) \in Nat
    BY LeftOver
  <1>5. Alike(m, n)
    BY <1>1, <1>2, <1>3, <1>4 DEF Alike
  <1> QED
    BY <1>5 DEF m, k, n

LEMMA TextsJoined ==
  ASSUME NEW t \in Seq(Chars), NEW u \in Seq(Chars), NEW w \in Seq(Chars)
  PROVE  t \o (u \o w) = (t \o u) \o w
  BY ConcatAssociative

(* A byte more is a character more, or makes a wide one of the last.       *)
LEMMA DecodedOneMore ==
  ASSUME NEW t \in Seq(Chars), NEW b \in Seq(Bytes), NEW c \in Bytes
  PROVE  Alike(t \o Decoded[b \o <<c>>], (t \o Decoded[b]) \o <<Alone(c)>>)
  <1>0. /\ \A a \in Seq(Bytes) : Decoded[a] \in Seq(Chars)
        /\ Alone(c) \in Chars /\ <<c>> \in Seq(Bytes)
    BY DecodedIsText, AloneIsChar
  <1>1. ASSUME NEW x \in Bytes
        PROVE  Decoded[<<x>>] = <<Alone(x)>>
    <2>1. <<x>> \in Seq(Bytes) /\ <<x>> # <<>> /\ ~BeginsWide(<<x>>)
      BY DEF BeginsWide
    <2>2. Decoded[<<x>>] = <<Alone(x)>> \o Decoded[Tail(<<x>>)]
      BY <2>1, DecodedIs
    <2>3. Tail(<<x>>) = <<>>
      OBVIOUS
    <2>4. <<Alone(x)>> \o <<>> = <<Alone(x)>>
      OBVIOUS
    <2> QED
      BY <2>2, <2>3, <2>4, NothingYet
  <1>2. CASE CutsNoCharacter(b, <<c>>)
    <2>1. Decoded[b \o <<c>>] = Decoded[b] \o <<Alone(c)>>
      BY <1>0, <1>1, <1>2, DecodedInPieces
    <2> DEFINE y == Decoded[b]
               z == <<Alone(c)>>
    <2>2. y \in Seq(Chars) /\ z \in Seq(Chars)
      BY <1>0
    <2> HIDE DEF y, z
    <2>3. t \o (y \o z) = (t \o y) \o z
      BY <2>2, ConcatAssociative
    <2>4. t \o Decoded[b \o <<c>>] = (t \o Decoded[b]) \o <<Alone(c)>>
      BY <2>1, <2>3 DEF y, z
    <2> QED
      BY <2>4 DEF Alike
  <1>3. CASE ~CutsNoCharacter(b, <<c>>)
    <2>1. b # <<>> /\ b[Len(b)] = HighByte /\ c = LowByte
      BY <1>3 DEF CutsNoCharacter
    <2>2. PICK v \in Seq(Bytes) : b = v \o <<HighByte>>
      BY <2>1, LastAndFront DEF Last
    <2>3. HighByte \in Bytes /\ LowByte \in Bytes /\ HighByte # LowByte
      BY DEF Bytes, HighByte, LowByte
    <2>4. Decoded[b] = Decoded[v] \o <<Replaced>>
      <3>1. CutsNoCharacter(v, <<HighByte>>)
        BY <2>3 DEF CutsNoCharacter
      <3>2. Alone(HighByte) = Replaced
        BY DEF Alone
      <3>3. <<HighByte>> \in Seq(Bytes)
        BY <2>3
      <3> QED
        BY <1>1, <2>2, <2>3, <3>1, <3>2, <3>3, DecodedInPieces
    <2> DEFINE pair == <<HighByte>> \o <<LowByte>>
    <2>5. Decoded[b \o <<c>>] = Decoded[v] \o <<Wide>>
      <3>1. pair \in Seq(Bytes) /\ pair # <<>> /\ BeginsWide(pair) /\ pair[1] = HighByte
        BY <2>3 DEF BeginsWide
      <3>2. SubSeq(pair, 3, Len(pair)) = <<>>
        OBVIOUS
      <3>3. Decoded[pair] = <<Wide>>
        <4>1. Decoded[pair] = <<Wide>> \o Decoded[SubSeq(pair, 3, Len(pair))]
          BY <3>1, DecodedIs
        <4>2. <<Wide>> \o <<>> = <<Wide>>
          OBVIOUS
        <4> QED
          BY <3>2, <4>1, <4>2, NothingYet
      <3>4. b \o <<c>> = v \o pair
        <4> DEFINE h == <<HighByte>>
                   l == <<LowByte>>
        <4>1. h \in Seq(Bytes) /\ l \in Seq(Bytes)
          BY <2>3
        <4>2. h \o l = pair
          OBVIOUS
        <4> HIDE DEF h, l, pair
        <4>3. (v \o h) \o l = v \o (h \o l)
          BY <4>1, ConcatAssociative
        <4> QED
          BY <2>1, <2>2, <4>2, <4>3 DEF h, l
      <3>5. CutsNoCharacter(v, pair)
        BY <2>3, <3>1 DEF CutsNoCharacter
      <3> HIDE DEF pair
      <3> QED
        BY <3>1, <3>3, <3>4, <3>5, DecodedInPieces
    <2>6. Alone(c) = Replaced
      BY <2>1 DEF Alone
    <2>7. Wide \in Chars /\ Replaced \in Chars /\ Newline \notin {Wide, Replaced}
      BY DEF Chars, Wide, Replaced, Newline
    <2> DEFINE x == t \o Decoded[v]
               y == Decoded[v]
    <2>8. x \in Seq(Chars) /\ y \in Seq(Chars)
      BY <1>0
    <2>9. t \o (y \o <<Wide>>) = (t \o y) \o <<Wide>>
          /\ t \o (y \o <<Replaced>>) = (t \o y) \o <<Replaced>>
      <3> DEFINE w == <<Wide>>
                 r == <<Replaced>>
      <3>1. w \in Seq(Chars) /\ r \in Seq(Chars) /\ y \in Seq(Chars)
        BY <2>7, <2>8
      <3> HIDE DEF y, w, r
      <3>2. t \o (y \o w) = (t \o y) \o w
        BY <3>1, TextsJoined
      <3>3. t \o (y \o r) = (t \o y) \o r
        BY <3>1, TextsJoined
      <3> QED
        BY <3>2, <3>3 DEF w, r
    <2> HIDE DEF x
    <2>10. Alike(x \o <<Wide>>, (x \o <<Replaced>>) \o <<Replaced>>)
      BY <2>7, <2>8, AlikeTwice
    <2> QED
      BY <2>4, <2>5, <2>6, <2>9, <2>10 DEF x
  <1> QED
    BY <1>2, <1>3

(* However the bytes are cut, the texts are alike.                         *)
LEMMA ChunkAlike ==
  ASSUME NEW t \in Seq(Chars), NEW w \in Seq(Bytes), Alike(t, Decoded[w])
  PROVE  \A b \in Seq(Bytes) : Alike(t \o Decoded[b], Decoded[w \o b])
  <1> DEFINE Claim(b) == Alike(t \o Decoded[b], Decoded[w \o b])
             Bad == {Len(b) : b \in {c \in Seq(Bytes) : ~Claim(c)}}
  <1> SUFFICES ASSUME Bad # {} PROVE FALSE
    OBVIOUS
  <1>1. PICK n \in Bad : \A m \in Bad : ~(m < n)
    <2>1. Bad \subseteq Nat
      <3> HIDE DEF Claim
      <3> QED
        OBVIOUS
    <2> HIDE DEF Bad
    <2> QED
      BY <2>1, Smallest
  <1>2. PICK b \in Seq(Bytes) : Len(b) = n /\ ~Claim(b)
    OBVIOUS
  <1>3. \A c \in Seq(Bytes) : Len(c) < Len(b) => Claim(c)
    BY <1>1, <1>2
  <1> HIDE DEF Bad
  <1>4. \A a \in Seq(Bytes) : Decoded[a] \in Seq(Chars)
    BY DecodedIsText
  <1>5. b # <<>>
    <2> SUFFICES ASSUME b = <<>> PROVE FALSE
      OBVIOUS
    <2>1. t \o <<>> = t /\ w \o <<>> = w
      BY ConcatEmptySeq
    <2> QED
      BY <1>2, <2>1, NothingYet
  <1> DEFINE a == Front(b)
             c == Last(b)
  <1>6. a \in Seq(Bytes) /\ c \in Bytes /\ b = a \o <<c>> /\ Len(a) < Len(b)
    <2>1. a \in Seq(Bytes) /\ c \in Bytes /\ b = a \o <<c>> /\ Len(a) = Len(b) - 1
      BY <1>5, LastAndFront
    <2>2. Len(b) \in Nat
      OBVIOUS
    <2> HIDE DEF a, c
    <2> QED
      BY <2>1, <2>2
  <1> HIDE DEF a, c
  <1>7. Alike(t \o Decoded[a], Decoded[w \o a])
    BY <1>3, <1>6
  <1> DEFINE x == t \o Decoded[a]
             v == w \o a
             y == Decoded[v]
  <1>8. x \in Seq(Chars) /\ v \in Seq(Bytes) /\ y \in Seq(Chars) /\ Alone(c) \in Chars
    <2>1. v \in Seq(Bytes)
      BY <1>6
    <2> HIDE DEF v
    <2> QED
      BY <1>4, <1>6, <2>1, AloneIsChar
  <1>9. Alike(t \o Decoded[b], x \o <<Alone(c)>>)
    BY <1>6, DecodedOneMore
  <1>10. Alike(Decoded[w \o b], y \o <<Alone(c)>>)
    <2> DEFINE e == <<>>
               z == Decoded[v \o <<c>>]
    <2>1. e \in Seq(Chars)
      OBVIOUS
    <2> HIDE DEF e, v
    <2>2. Alike(e \o z, (e \o y) \o <<Alone(c)>>)
      BY <1>6, <1>8, <2>1, DecodedOneMore
    <2>3. v \o <<c>> \in Seq(Bytes)
      BY <1>6, <1>8
    <2>4. z \in Seq(Chars)
      BY <1>4, <2>3
    <2> HIDE DEF y, z
    <2>5. e \o z = z /\ e \o y = y
      BY <1>8, <2>4, ConcatEmptySeq DEF e
    <2>6. w \o b = v \o <<c>>
      <3> DEFINE l == <<c>>
      <3>1. l \in Seq(Bytes)
        BY <1>6
      <3> HIDE DEF l
      <3>2. (w \o a) \o l = w \o (a \o l)
        BY <1>6, <3>1, ConcatAssociative
      <3> QED
        BY <1>6, <3>2 DEF l, v
    <2> QED
      BY <2>2, <2>5, <2>6 DEF z
  <1> HIDE DEF x, v, y
  <1>11. Alike(x \o <<Alone(c)>>, y \o <<Alone(c)>>)
    BY <1>7, <1>8, AlikeWithOneMore DEF x, y, v
  <1>12. Alike(t \o Decoded[b], Decoded[w \o b])
    BY <1>9, <1>10, <1>11 DEF Alike
  <1> QED
    BY <1>2, <1>12

(* There are no more frames than bytes.                                    *)
LEMMA FramesBounded ==
  \A b \in Seq(Bytes) : Complete(Decoded[b]) \in Nat /\ Complete(Decoded[b]) <= Len(b)
  <1> DEFINE Claim(b) == Complete(Decoded[b]) <= Len(b)
             Bad == {Len(b) : b \in {c \in Seq(Bytes) : ~Claim(c)}}
  <1>0. \A b \in Seq(Bytes) : Complete(Decoded[b]) \in Nat
    BY DecodedIsText, LeftOver
  <1> SUFFICES ASSUME Bad # {} PROVE FALSE
    BY <1>0
  <1>1. PICK n \in Bad : \A m \in Bad : ~(m < n)
    <2>1. Bad \subseteq Nat
      <3> HIDE DEF Claim
      <3> QED
        OBVIOUS
    <2> HIDE DEF Bad
    <2> QED
      BY <2>1, Smallest
  <1>2. PICK b \in Seq(Bytes) : Len(b) = n /\ ~Claim(b)
    OBVIOUS
  <1>3. \A c \in Seq(Bytes) : Len(c) < Len(b) => Claim(c)
    BY <1>1, <1>2
  <1> HIDE DEF Bad
  <1>4. b # <<>>
    <2> SUFFICES ASSUME b = <<>> PROVE FALSE
      OBVIOUS
    <2>1. Len(b) = 0
      OBVIOUS
    <2> QED
      BY <1>2, <2>1, NothingYet
  <1> DEFINE a == Front(b)
             c == Last(b)
  <1>5. /\ a \in Seq(Bytes) /\ c \in Bytes /\ b = a \o <<c>>
        /\ Len(a) = Len(b) - 1 /\ Len(b) \in Nat /\ Len(a) < Len(b)
    <2>1. a \in Seq(Bytes) /\ c \in Bytes /\ b = a \o <<c>> /\ Len(a) = Len(b) - 1
      BY <1>4, LastAndFront
    <2>2. Len(b) \in Nat
      OBVIOUS
    <2> HIDE DEF a, c
    <2> QED
      BY <2>1, <2>2
  <1> HIDE DEF a, c
  <1> DEFINE y == Decoded[a]
             z == Decoded[b]
             e == <<>>
  <1>6. Complete(y) <= Len(a) /\ Complete(y) \in Nat /\ Complete(z) \in Nat
    BY <1>0, <1>3, <1>5
  <1>7. y \in Seq(Chars) /\ z \in Seq(Chars) /\ e \in Seq(Chars) /\ Alone(c) \in Chars
    <2>1. y \in Seq(Chars) /\ z \in Seq(Chars)
      BY <1>5, DecodedIsText
    <2>2. Alone(c) \in Chars
      BY <1>5, AloneIsChar
    <2>3. e \in Seq(Chars)
      OBVIOUS
    <2> HIDE DEF y, z, e
    <2> QED
      BY <2>1, <2>2, <2>3
  <1> HIDE DEF e
  <1>8. Alike(e \o z, (e \o y) \o <<Alone(c)>>)
    BY <1>5, <1>7, DecodedOneMore
  <1> HIDE DEF y, z
  <1>9. e \o z = z /\ e \o y = y
    BY <1>7, ConcatEmptySeq DEF e
  <1>10. Complete(y \o <<Alone(c)>>) <= Complete(y) + 1
    BY <1>6, <1>7, OneMore
  <1>11. Complete(z) = Complete(y \o <<Alone(c)>>)
    BY <1>8, <1>9 DEF Alike
  <1>12. ~(Complete(z) <= Len(b))
    BY <1>2 DEF z
  <1> QED
    BY <1>5, <1>6, <1>10, <1>11, <1>12

(* What arrived was handed out, or is in the buffer, as if it had come in  *)
(* one chunk; where a character was cut, as a text that is alike.          *)
Arrived == SubSeq(wire, 1, arrived)

RelayInv ==
  /\ wire \in Seq(Bytes) /\ arrived \in 0..Len(wire) /\ torn \in BOOLEAN
  /\ ~torn /\ arrived > 0 => wire[arrived] # HighByte
  /\ \E t \in Seq(Chars) :
       /\ Alike(t, Decoded[Arrived]) /\ (~torn => t = Decoded[Arrived])
       /\ buffer = Last(Split[t]) /\ frames = Filled[Front(Split[t])]

LEMMA RelayInitInv == RelayInit => RelayInv
  <1> SUFFICES ASSUME RelayInit PROVE RelayInv
    OBVIOUS
  <1>1. /\ wire \in Seq(Bytes) /\ arrived = 0 /\ buffer = <<>> /\ frames = <<>> /\ torn = FALSE
    BY SseRelayAssumption DEF RelayInit
  <1>2. Arrived = <<>> /\ Len(wire) \in Nat
    BY <1>1 DEF Arrived
  <1>3. <<>> \in Seq(Chars) /\ Alike(<<>>, <<>>)
    BY DEF Alike
  <1>4. /\ buffer = Last(Split[<<>>]) /\ frames = Filled[Front(Split[<<>>])]
        /\ Decoded[Arrived] = <<>>
    BY <1>1, <1>2, NothingYet
  <1>5. \E t \in Seq(Chars) :
       /\ Alike(t, Decoded[Arrived]) /\ (~torn => t = Decoded[Arrived])
       /\ buffer = Last(Split[t]) /\ frames = Filled[Front(Split[t])]
    BY <1>3, <1>4
  <1>6. arrived \in 0..Len(wire) /\ torn \in BOOLEAN /\ ~(arrived > 0)
    <2>1. \A n \in Nat : 0 \in 0..n /\ ~(0 > 0)
      OBVIOUS
    <2> QED
      BY <1>1, <1>2, <2>1
  <1> QED
    BY <1>1, <1>5, <1>6 DEF RelayInv

LEMMA ChunkStep ==
  ASSUME RelayInv, Chunk
  PROVE  RelayInv'
  <1>1. PICK n \in 1..(Len(wire) - arrived) :
          LET bytes == SubSeq(wire, arrived + 1, arrived + n)
              parts == Pushed(Decoded[bytes])
          IN  /\ buffer' = Last(parts)
              /\ frames' = frames \o Filled[Front(parts)]
              /\ arrived' = arrived + n
              /\ torn' = (torn \/ bytes[n] = HighByte)
              /\ UNCHANGED wire
    BY DEF Chunk
  <1>2. PICK t \in Seq(Chars) :
          /\ Alike(t, Decoded[Arrived]) /\ (~torn => t = Decoded[Arrived])
          /\ buffer = Last(Split[t]) /\ frames = Filled[Front(Split[t])]
    BY DEF RelayInv
  <1>3. wire \in Seq(Bytes) /\ arrived \in Nat /\ arrived <= Len(wire) /\ Len(wire) \in Nat
    BY DEF RelayInv
  <1>4. n \in Nat /\ n >= 1 /\ arrived + n <= Len(wire) /\ arrived + n \in Nat
    BY <1>3
  <1> DEFINE k == arrived + n
             b == SubSeq(wire, arrived + 1, k)
             d == Decoded[b]
             w == Arrived
             parts == Split[buffer \o d]
  <1>5. b \in Seq(Bytes) /\ Len(b) = n /\ b[n] = wire[k]
    <2> DEFINE m == arrived + 1
    <2>1. /\ m \in Int /\ k \in Int /\ m <= k /\ k - m + 1 = n /\ m + n - 1 = k
          /\ n \in 1..(k - m + 1)
      BY <1>3, <1>4
    <2>2. \A i \in m..k : i \in 1..Len(wire)
      BY <1>3, <1>4
    <2> HIDE DEF m, k
    <2>3. \A i \in m..k : wire[i] \in Bytes
      BY <1>3, <2>2, ElementOfSeq
    <2>4. /\ SubSeq(wire, m, k) \in Seq(Bytes)
          /\ Len(SubSeq(wire, m, k)) = k - m + 1
          /\ \A i \in 1..(k - m + 1) : SubSeq(wire, m, k)[i] = wire[m + i - 1]
      BY <2>1, <2>3, SubSeqProperties
    <2> QED
      BY <2>1, <2>4 DEF m
  <1>6. w \in Seq(Bytes) /\ Len(w) = arrived /\ (arrived > 0 => w[arrived] = wire[arrived])
    BY <1>3 DEF Arrived
  <1>7. SubSeq(wire, 1, k) = w \o b
    <2>1. /\ 1 \in 1..(Len(wire) + 1) /\ arrived \in (1 - 1)..Len(wire) /\ k \in arrived..Len(wire)
      BY <1>3, <1>4
    <2> HIDE DEF k
    <2> QED
      BY <1>3, <2>1, ConcatAdjacentSubSeq DEF Arrived
  <1>8. /\ buffer' = Last(parts) /\ frames' = frames \o Filled[Front(parts)]
        /\ arrived' = k /\ torn' = (torn \/ b[n] = HighByte) /\ wire' = wire
    BY <1>1 DEF Pushed
  <1> HIDE DEF b, w
  <1>9. d \in Seq(Chars)
    BY <1>5, DecodedIsText
  <1> HIDE DEF k, d
  <1> DEFINE F == Front(Split[t])
             u == t \o d
  <1>10. buffer \in Seq(Chars) /\ F \in Parts /\ Filled[F] \in Parts /\ buffer = Last(Split[t])
    BY <1>2, LeftOver
  <1>11. parts \in Parts /\ parts # <<>> /\ Split[u] = F \o parts /\ u \in Seq(Chars)
    <2>1. buffer \o d \in Seq(Chars) /\ u \in Seq(Chars)
      BY <1>9, <1>10
    <2>2. Split[u] = Front(Split[t]) \o Split[Last(Split[t]) \o d]
      BY <1>9, SplitInPieces
    <2> QED
      BY <1>10, <2>1, <2>2, SplitIsParts
  <1> HIDE DEF parts, F, u
  <1>12. Last(Split[u]) = Last(parts) /\ Front(Split[u]) = F \o Front(parts)
    <2> DEFINE T == Seq(Chars)
    <2>1. F \in Seq(T) /\ parts \in Seq(T)
      BY <1>10, <1>11 DEF Parts
    <2> HIDE DEF T
    <2> QED
      BY <1>11, <2>1, JoinedFront
  <1>13. Front(parts) \in Parts
    BY <1>11, LastAndFront DEF Parts
  <1>14. frames' = Filled[Front(Split[u])] /\ buffer' = Last(Split[u])
    <2>1. Filled[F \o Front(parts)] = Filled[F] \o Filled[Front(parts)]
      BY <1>10, <1>13, FilledInPieces
    <2> QED
      BY <1>2, <1>8, <1>12, <2>1 DEF F
  <1>15. Alike(u, Decoded[w \o b])
    BY <1>2, <1>5, <1>6, ChunkAlike DEF u, w, d
  <1>16. ASSUME ~torn'
         PROVE  u = Decoded[w \o b] /\ wire'[k] # HighByte
    <2>1. ~torn /\ b[n] # HighByte /\ t = Decoded[w]
      BY <1>2, <1>8, <1>16 DEF w
    <2>2. CutsNoCharacter(w, b)
      <3>1. w # <<>> => arrived > 0 /\ w[Len(w)] = wire[arrived]
        BY <1>3, <1>6
      <3>2. arrived > 0 => wire[arrived] # HighByte
        BY <2>1 DEF RelayInv
      <3> QED
        BY <3>1, <3>2 DEF CutsNoCharacter
    <2>3. Decoded[w \o b] = Decoded[w] \o Decoded[b]
      BY <1>5, <1>6, <2>2, DecodedInPieces
    <2> QED
      BY <1>5, <1>8, <2>1, <2>3 DEF u, d
  <1>17. Arrived' = w \o b
    BY <1>7, <1>8 DEF Arrived
  <1>18. k \in 0..Len(wire) /\ torn' \in BOOLEAN
    BY <1>3, <1>4, <1>8 DEF k, RelayInv
  <1> QED
    BY <1>3, <1>8, <1>11, <1>14, <1>15, <1>16, <1>17, <1>18 DEF RelayInv

LEMMA RelayStep == RelayInv /\ [RelayNext]_evars => RelayInv'
  <1>1. RelayInv /\ UNCHANGED evars => RelayInv'
    BY DEF RelayInv, evars, Arrived
  <1> QED
    BY <1>1, ChunkStep DEF RelayNext

(* capEvents keeps the last event, and no more than the limit and its mark.*)
LEMMA CapKeepsLast ==
  ASSUME NEW S, NEW events \in Seq(S)
  PROVE  /\ Len(CapEvents(events)) <= MaxEvents + 1
         /\ events # <<>> => Last(CapEvents(events)) = Last(events)
  <1> DEFINE T == S \cup {Truncated}
             n == Len(events)
             half == MaxEvents \div 2
             rest == MaxEvents - half
             head == SubSeq(events, 1, half)
             mark == <<Truncated>>
             tail == SubSeq(events, n - rest + 1, n)
  <1>1. MaxEvents \in Nat /\ MaxEvents > 0 /\ n \in Nat
    BY SseRelayAssumption
  <1>2. CASE n <= MaxEvents
    BY <1>1, <1>2 DEF CapEvents
  <1>3. CASE n > MaxEvents
    <2>1. half \in Nat /\ rest \in Nat /\ rest >= 1 /\ half + rest = MaxEvents
      BY <1>1
    <2> HIDE DEF half, rest
    <2>2. half <= n /\ rest <= n /\ n - rest + 1 \in Nat /\ n - rest + 1 >= 1
      BY <1>1, <1>3, <2>1
    <2>3. \A i \in 1..n : events[i] \in T
      OBVIOUS
    <2>4. head \in Seq(T) /\ Len(head) = half
      BY <1>1, <2>1, <2>2, <2>3
    <2>5. tail \in Seq(T) /\ Len(tail) = rest /\ tail[rest] = events[n]
      BY <1>1, <2>1, <2>2, <2>3
    <2>6. mark \in Seq(T) /\ Len(mark) = 1
      OBVIOUS
    <2>7. CapEvents(events) = head \o mark \o tail
      BY <1>1, <1>3 DEF CapEvents, half, rest
    <2> HIDE DEF head, tail, mark, T
    <2>8. head \o mark \in Seq(T) /\ Len(head \o mark) = half + 1
      <3>1. head \o mark \in Seq(T) /\ Len(head \o mark) = Len(head) + Len(mark)
        BY <2>4, <2>6, ConcatProperties
      <3> QED
        BY <2>4, <2>6, <3>1
    <2> DEFINE x == head \o mark
    <2> HIDE DEF x
    <2>9. Len(x \o tail) = half + 1 + rest /\ tail # <<>>
      <3>1. Len(x \o tail) = Len(x) + Len(tail)
        BY <2>5, <2>8, ConcatProperties DEF x
      <3>2. tail # <<>>
        BY <2>1, <2>5
      <3> QED
        BY <2>5, <2>8, <3>1, <3>2 DEF x
    <2>10. Last(x \o tail) = Last(tail)
      BY <2>5, <2>8, <2>9, JoinedFront DEF x
    <2>11. Last(tail) = Last(events)
      BY <2>5 DEF Last, n
    <2> QED
      BY <1>1, <2>1, <2>7, <2>9, <2>10, <2>11 DEF x
  <1> QED
    BY <1>1, <1>2, <1>3

LEMMA RelayFacts == RelayInv => RelayTypeOK /\ FramesSurviveCuts
  <1> SUFFICES ASSUME RelayInv PROVE RelayTypeOK /\ FramesSurviveCuts
    OBVIOUS
  <1>1. PICK t \in Seq(Chars) :
          /\ Alike(t, Decoded[Arrived]) /\ (~torn => t = Decoded[Arrived])
          /\ buffer = Last(Split[t]) /\ frames = Filled[Front(Split[t])]
    BY DEF RelayInv
  <1>2. /\ wire \in Seq(Bytes) /\ arrived \in 0..Len(wire) /\ torn \in BOOLEAN
        /\ Len(wire) \in Nat
    BY DEF RelayInv
  <1>3. Arrived \in Seq(Bytes) /\ Len(Arrived) = arrived
    BY <1>2 DEF Arrived
  <1>4. AtOnce = Filled[Front(Split[Decoded[Arrived]])]
    BY DEF AtOnce, Arrived
  <1>5. Len(frames) = Len(AtOnce) /\ Len(frames) = Complete(Decoded[Arrived])
    BY <1>1, <1>4 DEF Alike, Complete
  <1>6. Len(frames) <= arrived
    BY <1>3, <1>5, FramesBounded
  <1>7. frames \in Seq(Seq(Chars))
    BY <1>1, LeftOver DEF Parts
  <1>8. RelayTypeOK
    <2>1. Len(frames) \in Nat
      BY <1>7
    <2> QED
      BY <1>2, <1>6, <2>1 DEF RelayTypeOK
  <1>9. IF torn THEN Len(frames) = Len(AtOnce) ELSE frames = AtOnce
    BY <1>1, <1>4, <1>5
  <1> QED
    BY <1>7, <1>8, <1>9, CapKeepsLast DEF FramesSurviveCuts

(* "A chunk from the network has nothing to do with an event boundary"     *)
(* (sse.ts 10-12): for any stream and however it is cut, the frames handed *)
(* out are those of the bytes that arrived, in order and each once; a cut  *)
(* character is damaged, but no frame is lost or joined to another.        *)
THEOREM FramesAreWhole == RelaySpec => []FramesSurviveCuts
  <1>1. RelaySpec => []RelayInv
    BY RelayInitInv, RelayStep, PTL DEF RelaySpec
  <1> QED
    BY <1>1, RelayFacts, PTL

-----------------------------------------------------------------------------
(* The stores side by side, as the run puts them: each keeps its own       *)
(* invariant while another moves.                                          *)
StoresInv ==
  /\ LayoutInv /\ SignalInv /\ StatsInv /\ RiskInv /\ WatchlistInv /\ SpendInv /\ RelayInv

LEMMA StoresStep == StoresInv /\ [StoresNext]_storesVars => StoresInv'
  <1> SUFFICES ASSUME StoresInv, [StoresNext]_storesVars PROVE StoresInv'
    OBVIOUS
  <1>1. /\ [LayoutNext]_lvars /\ [SignalsNext]_svars /\ [StatsNext]_tvars /\ [RiskNext]_rvars
        /\ [WatchlistNext]_wvars /\ [SpendNext]_bvars /\ [RelayNext]_evars
    BY DEF StoresNext, storesVars
  <1> QED
    BY <1>1, LayoutStep, SignalStep, StatsStep, RiskStep, WatchlistStep, SpendStep, RelayStep
       DEF StoresInv

(* Every store, and every request, check and report on it, keeps its type. *)
THEOREM StoresTypeCorrect == StoresSpec => []StoresTypeOK
  <1>1. StoresInit => StoresInv
    BY LayoutInitInv, SignalsInitInv, StatsInitInv, RiskInitInv, WatchlistInitInv, SpendInitInv,
       RelayInitInv DEF StoresInit, StoresInv
  <1>2. StoresInv => StoresTypeOK
    BY RelayFacts DEF StoresInv, StoresTypeOK, LayoutInv, SignalInv, StatsInv, RiskInv,
       WatchlistInv, SpendInv
  <1> QED
    BY <1>1, <1>2, StoresStep, PTL DEF StoresSpec
=============================================================================
