---------------------------- MODULE SignalStats ----------------------------
(***************************************************************************)
(* How the stored signals did: SignalsService.evaluatePerformance          *)
(* (src/src/signals/signals.service.ts), with indexOutcomes and            *)
(* performanceStats of eval.ts.  The confidence interval and the buckets   *)
(* are left out.                                                           *)
(*                                                                         *)
(* A report takes the newest signals, asks the signals service what became *)
(* of each, and waits; new signals arrive meanwhile.  The answer comes in  *)
(* any order, may leave signals out, and may not come at all.  From the    *)
(* outcomes the report then draws its statistics.                          *)
(*                                                                         *)
(* Signals are numbered as they are stored.  A quotient is kept as         *)
(* <<numerator, denominator>>, without the rounding to two places that it  *)
(* is shown with.                                                          *)
(***************************************************************************)
EXTENDS Integers, Sequences, FiniteSetsExt, Functions

CONSTANTS
  MaxSignals,   \* bound: signals stored
  SampleSize,   \* limit of a report
  Rows,         \* rows the signals service may send: [id, outcome, pnl]
  MaxRows,      \* bound: rows of one answer
  NoId          \* a row that names no signal

Outcomes == {"TARGET_HIT", "STOP_HIT", "OPEN", "NO_DATA"}

ASSUME SignalStatsAssumption ==
  /\ MaxSignals \in Nat /\ SampleSize \in Nat \ {0} /\ MaxRows \in Nat
  /\ NoId \notin Nat
  /\ Rows \subseteq [id : Nat \cup {NoId}, outcome : Outcomes, pnl : Int]

VARIABLES
  newest,       \* the number of signals stored
  sample,       \* the signals the report has asked about
  answer,       \* the rows it was sent
  report        \* the outcome of each signal of the sample, once it is done

tvars == <<newest, sample, answer, report>>

NoReport == <<>>

StatsInit == newest = 0 /\ sample = {} /\ answer = <<>> /\ report = NoReport

-----------------------------------------------------------------------------
\* UNEVALUATED
Unevaluated == [outcome |-> "NO_DATA", pnl |-> 0]

(* indexOutcomes: the rows about a signal.                                 *)
RowsOf(rows, s) == {i \in DOMAIN rows : rows[i].id = s}

(* The outcome of a signal: what its last row says.  A row without a pnl   *)
(* counts as 0, and is a row of Rows with that.                            *)
OutcomeOf(rows, s) ==
  IF RowsOf(rows, s) = {} THEN Unevaluated
  ELSE LET r == rows[Max(RowsOf(rows, s))] IN [outcome |-> r.outcome, pnl |-> r.pnl]

NewSignal ==
  /\ newest < MaxSignals
  /\ newest' = newest + 1
  /\ UNCHANGED <<sample, answer, report>>

(* find().sort({createdAt: -1}).limit(limit), and the request.             *)
Ask ==
  /\ newest > 0 /\ sample = {}
  /\ sample' = {s \in 1..newest : s > newest - SampleSize}
  /\ UNCHANGED <<newest, answer, report>>

Reported(rows) ==
  /\ sample # {} /\ report = NoReport
  /\ answer' = rows
  /\ report' = [s \in sample |-> OutcomeOf(rows, s)]
  /\ UNCHANGED <<newest, sample>>

Evaluated == \E n \in 0..MaxRows : \E rows \in [1..n -> Rows] : Reported(rows)

\* The service fails: every signal is reported without data.
EvaluationFailed == Reported(<<>>)

\* The next report.
StatsAgain ==
  /\ report # NoReport
  /\ sample' = {} /\ answer' = <<>> /\ report' = NoReport
  /\ UNCHANGED newest

StatsNext == NewSignal \/ Ask \/ Evaluated \/ EvaluationFailed \/ StatsAgain

StatsSpec == StatsInit /\ [][StatsNext]_tvars

-----------------------------------------------------------------------------
(* The statistics of a finished report.                                    *)

Wins == {s \in DOMAIN report : report[s].outcome = "TARGET_HIT"}
Losses == {s \in DOMAIN report : report[s].outcome = "STOP_HIT"}
Closed == Wins \cup Losses

Pnl(S) == SumFunction([s \in S |-> report[s].pnl])

Magnitude(x) == IF x < 0 THEN -x ELSE x
Mean(sum, S) == IF S = {} THEN <<0, 1>> ELSE <<sum, Cardinality(S)>>
AvgWin == Mean(Pnl(Wins), Wins)
AvgLoss == Mean(Magnitude(Pnl(Losses)), Losses)

\* The two terms of winLossRatio + 1, over the same denominator.
WinTerm == AvgWin[1] * AvgLoss[2]
LossTerm == AvgLoss[1] * AvgWin[2]

\* Mutant (ReportIsTrue): the share of the wins where that of the losses is due.
BreakevenOfWins == <<WinTerm, WinTerm + LossTerm>>
(* 1 / (avgWin / avgLoss + 1), and when there is one.                      *)
Breakeven == <<LossTerm, WinTerm + LossTerm>>
HasBreakeven == LossTerm > 0 /\ WinTerm + LossTerm > 0

WinRate == <<Cardinality(Wins), Cardinality(Closed)>>
Expectancy == <<Pnl(Closed), Cardinality(Closed)>>

Above(x, y) == x[1] * y[2] > y[1] * x[2]

(* A report, its statistics, and the answer it rests on have their types.  *)
StatsTypeOK ==
  /\ newest \in 0..MaxSignals /\ sample \subseteq 1..newest
  /\ answer \in Seq(Rows) /\ DOMAIN report \in {{}, sample}

\* Each signal is reported as some row about it says, and without data if none is.
PairedById ==
  \A s \in DOMAIN report :
    LET about == {i \in DOMAIN answer : answer[i].id = s} IN
    IF about = {} THEN report[s].outcome = "NO_DATA"
    ELSE \E i \in about :
           report[s] = [outcome |-> answer[i].outcome, pnl |-> answer[i].pnl]

\* "Colour the win rate against this": above the break-even rate means money was made.
BreakevenDecides ==
  HasBreakeven /\ Pnl(Losses) <= 0 => (Above(WinRate, Breakeven) <=> Expectancy[1] > 0)

(* A finished report tells the truth (eval.ts 49-68, 88-110): every signal *)
(* carries the outcome that was sent for it, whatever order the rows came  *)
(* in and whatever was stored meanwhile; and its win rate is above its     *)
(* break-even rate exactly when its trades made money on average, so that  *)
(* the page colours it right.  The second holds only if the stops together *)
(* lost: avgLoss is a magnitude, so stops that ended in profit are         *)
(* reckoned as a loss.                                                     *)
ReportIsTrue == report # NoReport => PairedById /\ BreakevenDecides

=============================================================================
