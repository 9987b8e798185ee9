----------------------------- MODULE MCChatTurn -----------------------------
(* Small instances of ChatTurn for TLC.                                    *)
EXTENDS ChatTurn

\* Bound: the first turn has the account to itself, continues nothing, and is
\* answered or abandoned; the next two may overlap, and one thing goes wrong in
\* them, a fault or a crash.
Bounded ==
  /\ UnderWay(1) => \A t \in Turns \ {1} : turn[t].pc = "idle"
  /\ ~turn[1].fresh /\ turn[1].pc \notin {"failed", "lost"} /\ turn[1].up # "broken"
  /\ 1 \notin unheard /\ \A k \in Kinds : turn[1].save[k] # "failed"
  /\ faults + crashes <= 1
BoundedSpec ==
  Init /\ [][Next /\ Bounded']_vars /\ \A t \in Turns : WF_vars(SaveStep(t) /\ Bounded')
=============================================================================
