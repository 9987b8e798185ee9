---------------------------- MODULE ChartLayout ----------------------------
(***************************************************************************)
(* The saved chart of one user and symbol, and the browser tabs that edit  *)
(* it: ChartLayoutsService (src/src/chart-layouts/chart-layouts.service.ts).*)
(*                                                                         *)
(* A tab reads the layout and its version, and sends both back when it     *)
(* saves; the write lands only if the stored version is still that one.    *)
(* Each write is one atomic findOneAndUpdate or deleteOne, so a request    *)
(* takes effect at one instant, however long its answer takes to arrive,   *)
(* and an answer that is lost leaves the tab as it was.                    *)
(*                                                                         *)
(* Every save writes a layout of its own, named by its number; 0 is the    *)
(* blank chart.                                                            *)
(***************************************************************************)
EXTENDS Integers

CONSTANTS
  Tabs,        \* browser tabs on the chart
  MaxSaves,    \* bound: accepted saves
  NoLayout     \* no document is stored

ASSUME ChartLayoutAssumption ==
  MaxSaves \in Nat /\ NoLayout \notin [version : Nat, drawings : Nat]

VARIABLES
  layout,      \* the ChartLayout document
  tab,         \* what each tab read last: the version, and the layout it shows
  saves,       \* accepted saves so far (bounded by MaxSaves)
  outlived     \* history: tabs that read before the latest clear, and not since

lvars == <<layout, tab, saves, outlived>>

View == [version : Nat, drawings : Nat]

\* blank(): the answer when there is no document.
Blank == [version |-> 0, drawings |-> 0]
\* get().
Current == IF layout = NoLayout THEN Blank ELSE layout

LayoutInit ==
  /\ layout = NoLayout
  /\ tab = [t \in Tabs |-> Blank]
  /\ saves = 0 /\ outlived = {}

Shows(t, view) == tab' = [tab EXCEPT ![t] = view] /\ outlived' = outlived \ {t}

Load(t) ==
  /\ Shows(t, Current)
  /\ UNCHANGED <<layout, saves>>

\* Mutant (SavesReplaceWhatTheyShow): the filter leaves the version out.
MatchesAnyVersion(t) == layout # NoLayout
(* The filter {userId, symbol, version: expected}.                         *)
Matches(t) == layout # NoLayout /\ layout.version = tab[t].version
(* upsert: expected === 0.  The unique index on (userId, symbol) turns it  *)
(* down when a document is stored after all.                               *)
Upserts(t) == tab[t].version = 0 /\ layout = NoLayout
Accepts(t) == Matches(t) \/ Upserts(t)

\* $set, with version: expected + 1.
SavedBy(t) == [version |-> tab[t].version + 1, drawings |-> saves + 1]

(* save(), accepted; the answer reaches the tab or not.                    *)
Save(t) ==
  /\ saves < MaxSaves /\ Accepts(t)
  /\ layout' = SavedBy(t)
  /\ saves' = saves + 1
  /\ Shows(t, SavedBy(t)) \/ UNCHANGED <<tab, outlived>>

(* clear(): the document goes, and its version with it.                    *)
Clear(t) ==
  /\ layout' = NoLayout
  /\ \/ tab' = [tab EXCEPT ![t] = Blank] /\ outlived' = Tabs \ {t}
     \/ UNCHANGED tab /\ outlived' = Tabs
  /\ UNCHANGED saves

\* A save that is turned down (ConflictException) changes nothing.
LayoutNext == \E t \in Tabs : Load(t) \/ Save(t) \/ Clear(t)

LayoutSpec == LayoutInit /\ [][LayoutNext]_lvars

-----------------------------------------------------------------------------
(* Stored layouts and tabs have their types.                               *)
LayoutTypeOK ==
  /\ layout \in View \cup {NoLayout}
  /\ tab \in [Tabs -> View]
  /\ saves \in 0..MaxSaves /\ outlived \subseteq Tabs

(* "The write only lands if the stored version is still the one the client *)
(* read" (52-58), so that no tab overwrites drawings it has not shown: a   *)
(* save that would be accepted replaces the very layout its tab shows.     *)
(* The exception is a tab that has not read since the chart was cleared:   *)
(* versions start again at 0 (103-106), so its version may come back under *)
(* other drawings, which it then overwrites without a conflict.            *)
SavesReplaceWhatTheyShow ==
  \A t \in Tabs \ outlived : Accepts(t) => tab[t].drawings = Current.drawings

=============================================================================
