------------------------------ MODULE MCStores ------------------------------
(***************************************************************************)
(* Small instances of the smaller components for TLC.  They share no       *)
(* state, so each initial state picks the one that will move: their state  *)
(* spaces are added, not multiplied.                                       *)
(***************************************************************************)
EXTENDS ChartLayout, SignalStore, SignalStats, RiskLimits, Watchlist, SpendCaps, SseRelay, TLC

VARIABLE part   \* the component explored

storesVars == <<part, lvars, svars, tvars, rvars, wvars, bvars, evars>>

\* Rows about three signals, one row of each kind, and one that names no signal.
EvaluatedRows ==
  {[id |-> i, outcome |-> o, pnl |-> p] : i \in 1..3, o \in {"TARGET_HIT"}, p \in {3, -1}}
  \cup {[id |-> i, outcome |-> o, pnl |-> p] : i \in 1..3, o \in {"STOP_HIT"}, p \in {-2, 1}}
  \cup {[id |-> 1, outcome |-> "OPEN", pnl |-> 2], [id |-> NoId, outcome |-> "STOP_HIT", pnl |-> -2]}

\* All streams of seven characters, wide ones among them; what they begin with
\* covers the shorter ones.
InBytes(chars) ==
  FlattenSeq([i \in DOMAIN chars |->
    IF chars[i] = Wide THEN <<HighByte, LowByte>> ELSE <<chars[i]>>])
AgentStreams == {InBytes(chars) : chars \in [1..7 -> {Letter, Newline, Wide}]}

StoresInit ==
  /\ part \in {"layout", "signals", "stats", "risk", "watchlist", "spend", "relay"}
  /\ LayoutInit /\ SignalsInit /\ StatsInit /\ RiskInit /\ WatchlistInit /\ SpendInit
  /\ RelayInit
  \* One stream stands for all where the relay does not move.
  /\ part # "relay" => wire = InBytes([i \in 1..7 |-> Wide])

StoresNext ==
  /\ UNCHANGED part
  /\ \/ part = "layout" /\ LayoutNext
          /\ UNCHANGED <<svars, tvars, rvars, wvars, bvars, evars>>
     \/ part = "signals" /\ SignalsNext
          /\ UNCHANGED <<lvars, tvars, rvars, wvars, bvars, evars>>
     \/ part = "stats" /\ StatsNext
          /\ UNCHANGED <<lvars, svars, rvars, wvars, bvars, evars>>
     \/ part = "risk" /\ RiskNext
          /\ UNCHANGED <<lvars, svars, tvars, wvars, bvars, evars>>
     \/ part = "watchlist" /\ WatchlistNext
          /\ UNCHANGED <<lvars, svars, tvars, rvars, bvars, evars>>
     \/ part = "spend" /\ SpendNext
          /\ UNCHANGED <<lvars, svars, tvars, rvars, wvars, evars>>
     \/ part = "relay" /\ RelayNext
          /\ UNCHANGED <<lvars, svars, tvars, rvars, wvars, bvars>>

StoresSpec == StoresInit /\ [][StoresNext]_storesVars

(* Every store and every request on it has its type.                       *)
StoresTypeOK ==
  /\ LayoutTypeOK /\ SignalsTypeOK /\ StatsTypeOK /\ RiskTypeOK
  /\ WatchlistTypeOK /\ SpendTypeOK /\ RelayTypeOK

\* The requests, tabs and symbols of all parts are the same three model values.
StoresSymmetry == Permutations(Posts)
=============================================================================
