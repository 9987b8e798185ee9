--------------------------- MODULE ChatTurnProofs ---------------------------
(***************************************************************************)
(* What holds of a user's chat turns for any number of turns, symbols,     *)
(* costs, pauses, failures and crashes: what is on record of a turn, for   *)
(* whom the agent works, which turns form a session, and what the day's    *)
(* budget lets through.                                                    *)
(*                                                                         *)
(* The two records of a turn exclude each other because the two callbacks  *)
(* that start them do: one needs the result and the end of the stream, the *)
(* other a stream that was cut off without a result.  HandlerOK says which *)
(* combinations of a handler's locals that leaves.  The budget holds       *)
(* because a turn that was checked alone finds, until it is answered, the  *)
(* day's tokens where it left them (BudgetInv).                            *)
(***************************************************************************)
EXTENDS ChatTurn, SumProofs

NoSave == [k \in Kinds |-> "none"]

(* The combinations of a handler's locals and streams that occur.          *)
HandlerOK(h) ==
  /\ h.pc = "idle" => h.client
  /\ h.pc \in {"idle", "budget", "opening", "refused", "failed"} => h.up = "none"
  /\ h.pc = "streaming" => h.up # "none"
  /\ h.up = "none" => ~h.started /\ ~h.ended /\ h.save = NoSave
  /\ h.up = "running" => h.pc = "streaming" /\ ~h.ended /\ h.save = NoSave
  /\ h.result => h.started
  /\ h.save["full"] # "none" <=> h.up = "ended" /\ h.result
  /\ h.up = "ended" /\ ~h.result => h.ended
  /\ h.up = "broken" => h.ended
  /\ h.save["cancelled"] # "none" => h.started /\ ~h.result /\ h.up # "running"
  /\ h.up = "aborted" =>
       h.pc = "lost" \/ (h.ended /\ (h.started /\ ~h.result => h.save["cancelled"] # "none"))
  /\ \A k \in Kinds : h.save[k] = "write" => h.session[k] \in Turns

(* Whoever runs for nobody lost its reader while the budget was read.      *)
ReaderOK(t) ==
  (~turn[t].client /\ (turn[t].pc \in {"budget", "opening"} \/ turn[t].up = "running"))
    => t \in unheard

(* The collection agrees with what the handlers believe they wrote.        *)
RecordOK(t) ==
  /\ \A k \in Kinds : RecordedAs(t, k) => turn[t].save[k] # "none"
  /\ \A k \in Kinds : turn[t].save[k] = "saved" => Recorded(t)
  /\ turn[t].told => RecordedAs(t, "full")

ChatInv ==
  /\ ChatTypeOK
  /\ \A t \in Turns : HandlerOK(turn[t]) /\ ReaderOK(t) /\ RecordOK(t)

-----------------------------------------------------------------------------
LEMMA ChatInit == Init => ChatInv
  <1> SUFFICES ASSUME Init PROVE ChatInv
    OBVIOUS
  <1> DEFINE s0 == CHOOSE s \in Symbols : TRUE
             c0 == CHOOSE c \in Costs : TRUE
             h0 == [pc |-> "idle", symbol |-> s0, fresh |-> FALSE, cost |-> c0,
                    client |-> TRUE, ended |-> FALSE, up |-> "none", started |-> FALSE,
                    result |-> FALSE, save |-> [k \in Kinds |-> "none"],
                    session |-> [k \in Kinds |-> NoSession], told |-> FALSE]
  <1>1. s0 \in Symbols /\ c0 \in Costs
    BY ChatTurnAssumption
  <1>2. turn \in [Turns -> {h0}]
    BY DEF Init
  <1> HIDE DEF s0, c0
  <1>3. h0 \in TurnState
    BY <1>1 DEF TurnState, Kinds
  <1>4. HandlerOK(h0)
    BY DEF HandlerOK, NoSave, Kinds
  <1>5. h0.client /\ ~h0.told /\ \A k \in Kinds : h0.save[k] = "none"
    OBVIOUS
  <1> HIDE DEF h0
  <1>6. \A t \in Turns : turn[t] = h0
    BY <1>2
  <1>7. turn \in [Turns -> TurnState]
    BY <1>2, <1>3
  <1>8. log = << >> /\ DOMAIN log = {} /\ log \in Seq(Doc)
    BY DEF Init
  <1>9. ChatTypeOK
    BY <1>7, <1>8 DEF ChatTypeOK, Init
  <1>10. \A t \in Turns : RecordOK(t)
    BY <1>5, <1>6, <1>8 DEF RecordOK, RecordedAs
  <1> QED
    BY <1>4, <1>5, <1>6, <1>9, <1>10 DEF ChatInv, ReaderOK

-----------------------------------------------------------------------------
(* One handler moves on, and nothing is stored.                            *)
MovesOn(t) ==
  /\ turn' = [turn EXCEPT ![t] = turn'[t]]
  /\ turn'[t] \in TurnState
  /\ \A k \in Kinds :
       /\ turn[t].save[k] # "none" => turn'[t].save[k] # "none"
       /\ turn'[t].save[k] = "saved" => turn[t].save[k] = "saved"
  /\ turn'[t].told = turn[t].told

LEMMA HandlerStep ==
  ASSUME ChatInv, NEW t \in Turns, MovesOn(t), HandlerOK(turn[t])', ReaderOK(t)',
         log' = log, clock' = clock, faults' \in Nat, crashes' = crashes,
         unchecked' \subseteq Turns, crossed' = crossed,
         unheard \subseteq unheard', unheard' \subseteq Turns
  PROVE  ChatInv'
  <1>1. turn' \in [Turns -> TurnState]
    BY DEF ChatInv, ChatTypeOK, MovesOn
  <1>2. ChatTypeOK'
    BY <1>1 DEF ChatInv, ChatTypeOK
  <1>3. \A u \in Turns \ {t} : turn'[u] = turn[u]
    BY DEF MovesOn, ChatInv, ChatTypeOK
  <1>4. ASSUME NEW u \in Turns PROVE HandlerOK(turn[u])' /\ ReaderOK(u)'
    BY <1>3 DEF ChatInv, HandlerOK, ReaderOK
  <1>5. \A u \in Turns, k \in Kinds :
          (RecordedAs(u, k)' <=> RecordedAs(u, k)) /\ (Recorded(u)' <=> Recorded(u))
    BY DEF RecordedAs, Recorded
  <1>6. ASSUME NEW u \in Turns PROVE RecordOK(u)'
    <2>1. RecordOK(u)
      BY DEF ChatInv
    <2>2. "full" \in Kinds
      BY DEF Kinds
    <2>3. CASE u = t
      BY <1>5, <2>1, <2>2, <2>3 DEF RecordOK, MovesOn
    <2>4. CASE u # t
      BY <1>3, <1>5, <2>1, <2>2, <2>4 DEF RecordOK
    <2> QED
      BY <2>3, <2>4
  <1> QED
    BY <1>2, <1>4, <1>6 DEF ChatInv

-----------------------------------------------------------------------------
(* What is known of a handler, with its record opened up.                  *)
LEMMA HandlerFacts ==
  ASSUME ChatInv, NEW t \in Turns
  PROVE  /\ turn[t] \in TurnState /\ HandlerOK(turn[t]) /\ ReaderOK(t)
         /\ turn \in [Turns -> TurnState]
         /\ DOMAIN turn = Turns
         /\ faults \in Nat /\ unheard \subseteq Turns /\ unchecked \subseteq Turns
  BY DEF ChatInv, ChatTypeOK

LEMMA AskStep == ASSUME ChatInv, NEW t \in Turns, Ask(t) PROVE ChatInv'
  <1>1. PICK s \in Symbols, f \in BOOLEAN, c \in Costs :
          turn' = [turn EXCEPT ![t].pc = "budget", ![t].symbol = s, ![t].fresh = f,
                               ![t].cost = c]
    BY DEF Ask
  <1> DEFINE h == [turn[t] EXCEPT !.pc = "budget", !.symbol = s, !.fresh = f, !.cost = c]
  <1>2. turn[t] \in TurnState /\ HandlerOK(turn[t]) /\ turn[t].pc = "idle"
    BY HandlerFacts DEF Ask
  <1>3. turn' = [turn EXCEPT ![t] = h] /\ turn'[t] = h
    BY <1>1, HandlerFacts
  <1>4. h \in TurnState /\ HandlerOK(h) /\ h.client
    BY <1>2 DEF TurnState, HandlerOK
  <1>5. h.save = turn[t].save /\ h.told = turn[t].told
    BY <1>2 DEF TurnState
  <1>6. MovesOn(t) /\ HandlerOK(turn[t])' /\ ReaderOK(t)'
    BY <1>3, <1>4, <1>5 DEF MovesOn, ReaderOK
  <1>7. unchecked' \subseteq Turns
    BY HandlerFacts DEF Ask
  <1> QED
    BY <1>6, <1>7, HandlerStep, HandlerFacts DEF Ask, env

(* Budget, upstream call, events and the ends of the stream: each changes  *)
(* a few locals of one handler.                                            *)
LEMMA CheckBudgetStep == ASSUME ChatInv, NEW t \in Turns, CheckBudget(t) PROVE ChatInv'
  <1> DEFINE h == [turn[t] EXCEPT !.pc = IF WithinBudget THEN "opening" ELSE "refused"]
  <1>1. turn[t] \in TurnState /\ HandlerOK(turn[t]) /\ ReaderOK(t) /\ turn[t].pc = "budget"
    BY HandlerFacts DEF CheckBudget
  <1>2. turn' = [turn EXCEPT ![t] = h] /\ turn'[t] = h
    BY HandlerFacts DEF CheckBudget
  <1>3. h \in TurnState /\ HandlerOK(h)
    BY <1>1 DEF TurnState, HandlerOK
  <1>4. h.save = turn[t].save /\ h.told = turn[t].told /\ h.client = turn[t].client
        /\ h.up = "none"
    BY <1>1 DEF TurnState, HandlerOK
  <1>5. MovesOn(t) /\ HandlerOK(turn[t])' /\ ReaderOK(t)'
    BY <1>1, <1>2, <1>3, <1>4 DEF MovesOn, ReaderOK, CheckBudget, history
  <1> QED
    BY <1>5, HandlerStep, HandlerFacts DEF CheckBudget, env, history

LEMMA BudgetUnreadStep == ASSUME ChatInv, NEW t \in Turns, BudgetUnread(t) PROVE ChatInv'
  <1> DEFINE h == [turn[t] EXCEPT !.pc = "opening"]
  <1>1. turn[t] \in TurnState /\ HandlerOK(turn[t]) /\ ReaderOK(t) /\ turn[t].pc = "budget"
    BY HandlerFacts DEF BudgetUnread
  <1>2. turn' = [turn EXCEPT ![t] = h] /\ turn'[t] = h
    BY HandlerFacts DEF BudgetUnread
  <1>3. h \in TurnState /\ HandlerOK(h)
    BY <1>1 DEF TurnState, HandlerOK
  <1>4. h.save = turn[t].save /\ h.told = turn[t].told /\ h.client = turn[t].client
    BY <1>1 DEF TurnState
  <1>5. MovesOn(t) /\ HandlerOK(turn[t])' /\ ReaderOK(t)'
    BY <1>1, <1>2, <1>3, <1>4 DEF MovesOn, ReaderOK, BudgetUnread
  <1> QED
    BY <1>5, HandlerStep, HandlerFacts DEF BudgetUnread

LEMMA OpenStep == ASSUME ChatInv, NEW t \in Turns, Open(t) PROVE ChatInv'
  <1>1. turn[t] \in TurnState /\ HandlerOK(turn[t]) /\ ReaderOK(t) /\ turn[t].pc = "opening"
    BY HandlerFacts DEF Open
  <1>2. CASE turn' = [turn EXCEPT ![t].pc = "streaming", ![t].up = "running"]
    <2> DEFINE h == [turn[t] EXCEPT !.pc = "streaming", !.up = "running"]
    <2>1. turn' = [turn EXCEPT ![t] = h] /\ turn'[t] = h
      BY <1>2, HandlerFacts
    <2>2. h \in TurnState /\ HandlerOK(h)
      BY <1>1 DEF TurnState, HandlerOK
    <2>3. h.save = turn[t].save /\ h.told = turn[t].told /\ h.client = turn[t].client
      BY <1>1 DEF TurnState
    <2>4. MovesOn(t) /\ HandlerOK(turn[t])' /\ ReaderOK(t)'
      BY <1>1, <2>1, <2>2, <2>3 DEF MovesOn, ReaderOK, Open, history
    <2> QED
      BY <2>4, HandlerStep, HandlerFacts DEF Open, env, history
  <1>3. CASE turn' = [turn EXCEPT ![t].pc = "failed"]
    <2> DEFINE h == [turn[t] EXCEPT !.pc = "failed"]
    <2>1. turn' = [turn EXCEPT ![t] = h] /\ turn'[t] = h
      BY <1>3, HandlerFacts
    <2>2. h \in TurnState /\ HandlerOK(h)
      BY <1>1 DEF TurnState, HandlerOK
    <2>3. h.save = turn[t].save /\ h.told = turn[t].told /\ h.up = "none" /\ h.pc = "failed"
      BY <1>1 DEF TurnState, HandlerOK
    <2>4. MovesOn(t) /\ HandlerOK(turn[t])' /\ ReaderOK(t)'
      BY <2>1, <2>2, <2>3 DEF MovesOn, ReaderOK
    <2> QED
      BY <2>4, HandlerStep, HandlerFacts DEF Open, env, history
  <1> QED
    BY <1>2, <1>3 DEF Open

LEMMA EventStep ==
  ASSUME ChatInv, NEW t \in Turns, Started(t) \/ Result(t) \/ Broken(t)
  PROVE  ChatInv'
  <1> DEFINE hs == [turn[t] EXCEPT !.started = TRUE]
             hr == [turn[t] EXCEPT !.result = TRUE]
             hb == [turn[t] EXCEPT !.up = "broken", !.ended = TRUE]
  <1>1. turn[t] \in TurnState /\ HandlerOK(turn[t]) /\ ReaderOK(t)
    BY HandlerFacts
  <1>2. turn[t].up = "running" /\ turn[t].pc = "streaming"
    BY DEF Started, Result, Broken, Streaming
  <1>3. PICK h \in {hs, hr, hb} :
          /\ turn' = [turn EXCEPT ![t] = h] /\ turn'[t] = h
          /\ h \in {hs, hb} \/ (h = hr /\ turn[t].started)
    <2>1. CASE Started(t)
      BY <2>1, <1>1, HandlerFacts DEF Started, TurnState
    <2>2. CASE Result(t)
      BY <2>2, <1>1, HandlerFacts DEF Result, TurnState
    <2>3. CASE Broken(t)
      BY <2>3, <1>1, <1>2, HandlerFacts DEF Broken, TurnState
    <2> QED
      BY <2>1, <2>2, <2>3
  <1>4. hs \in TurnState /\ hr \in TurnState /\ hb \in TurnState
    BY <1>1 DEF TurnState
  <1>5. HandlerOK(hs) /\ HandlerOK(hb) /\ (turn[t].started => HandlerOK(hr))
    BY <1>1, <1>2 DEF HandlerOK, TurnState, NoSave, Kinds
  <1>6. \A g \in {hs, hr, hb} :
          g.save = turn[t].save /\ g.told = turn[t].told /\ g.client = turn[t].client
          /\ g.pc = "streaming"
    BY <1>1, <1>2 DEF TurnState
  <1>7. HandlerOK(h) /\ h \in TurnState
    BY <1>3, <1>4, <1>5
  <1>8. unheard' = unheard
    BY DEF Started, Result, Broken, history
  <1>9. MovesOn(t) /\ HandlerOK(turn[t])' /\ ReaderOK(t)'
    BY <1>1, <1>2, <1>3, <1>6, <1>7, <1>8 DEF MovesOn, ReaderOK
  <1> QED
    BY <1>9, HandlerStep, HandlerFacts DEF Started, Result, Broken, env, history

LEMMA EndedStep == ASSUME ChatInv, NEW t \in Turns, Ended(t) PROVE ChatInv'
  <1> DEFINE h == [turn[t] EXCEPT !.up = "ended",
                     !.save["full"] = IF RecordsResult(t) THEN "session" ELSE "none",
                     !.ended = ~RecordsResult(t)]
  <1>1. /\ turn[t] \in TurnState /\ HandlerOK(turn[t]) /\ ReaderOK(t)
        /\ turn[t].up = "running" /\ turn[t].pc = "streaming"
    BY HandlerFacts DEF Ended, Streaming
  <1>2. turn' = [turn EXCEPT ![t] = h] /\ turn'[t] = h
    BY <1>1, HandlerFacts DEF Ended, TurnState
  <1>3. h.save = [turn[t].save EXCEPT !["full"] =
                    IF turn[t].result THEN "session" ELSE "none"]
        /\ h.told = turn[t].told /\ h.up = "ended" /\ h.pc = "streaming"
        /\ h.ended = ~turn[t].result /\ h.result = turn[t].result
        /\ h.started = turn[t].started /\ h.session = turn[t].session
    BY <1>1 DEF TurnState, RecordsResult
  <1>4. h \in TurnState
    BY <1>1 DEF TurnState, RecordsResult, Kinds
  <1>5. turn[t].save = NoSave
    BY <1>1 DEF HandlerOK
  <1>6. HandlerOK(h)
    BY <1>1, <1>3, <1>5 DEF HandlerOK, NoSave, Kinds, TurnState
  <1> HIDE DEF h
  <1>7. MovesOn(t)
    <2>1. \A k \in Kinds : turn[t].save[k] = "none" /\ h.save[k] # "saved"
      BY <1>3, <1>5 DEF NoSave, Kinds
    <2> QED
      BY <1>2, <1>3, <1>4, <2>1 DEF MovesOn
  <1>8. HandlerOK(turn[t])' /\ ReaderOK(t)'
    BY <1>2, <1>3, <1>6 DEF ReaderOK
  <1> QED
    BY <1>7, <1>8, HandlerStep, HandlerFacts DEF Ended, env, history

LEMMA HangUpStep == ASSUME ChatInv, NEW t \in Turns, HangUp(t) PROVE ChatInv'
  <1> DEFINE old == turn[t]
             h == LeftBehind(t)
             pc1 == IF old.pc = "opening" THEN "failed" ELSE old.pc
             up1 == IF old.up = "running" THEN "aborted" ELSE old.up
             cut == old.pc = "streaming" /\ old.up = "running"
             kept == IF old.pc = "streaming" /\ old.started /\ ~old.result
                     THEN "session" ELSE old.save["cancelled"]
  <1>1. /\ old \in TurnState /\ HandlerOK(old) /\ ReaderOK(t)
        /\ old.client /\ ~old.ended /\ old.pc # "idle" /\ ~Over(t)
    BY HandlerFacts DEF HangUp, UnderWay
  <1>2. turn' = [turn EXCEPT ![t] = h] /\ turn'[t] = h
    BY HandlerFacts DEF HangUp
  <1>3. h = [old EXCEPT !.client = FALSE, !.pc = pc1, !.up = up1, !.ended = cut,
                        !.save["cancelled"] = kept]
    BY <1>1 DEF LeftBehind, Aborts, Streaming, Abandoned
  <1>4. /\ pc1 \in {"idle", "budget", "opening", "streaming", "refused", "failed", "lost"}
        /\ up1 \in {"none", "running", "ended", "broken", "aborted"}
        /\ cut \in BOOLEAN
        /\ kept \in {"none", "session", "write", "saved", "failed"}
    BY <1>1 DEF TurnState, Kinds
  <1>5. /\ old.save \in [Kinds -> {"none", "session", "write", "saved", "failed"}]
        /\ old.up \in {"none", "running", "ended", "broken", "aborted"}
        /\ old.pc \in {"budget", "opening", "streaming"}
        /\ old.result \in BOOLEAN /\ old.started \in BOOLEAN /\ old.ended \in BOOLEAN
    BY <1>1 DEF TurnState, Over
  <1> HIDE DEF h, pc1, up1, cut, kept
  <1>6. /\ h.client = FALSE /\ h.pc = pc1 /\ h.up = up1 /\ h.ended = cut
        /\ h.save = [old.save EXCEPT !["cancelled"] = kept]
        /\ h.told = old.told /\ h.result = old.result
        /\ h.started = old.started /\ h.session = old.session
    BY <1>1, <1>3 DEF TurnState
  <1> HIDE DEF old
  <1>7. h \in TurnState
    <2>1. h.save \in [Kinds -> {"none", "session", "write", "saved", "failed"}]
      BY <1>4, <1>5, <1>6
    <2> DEFINE h1 == [old EXCEPT !.client = FALSE, !.pc = pc1, !.up = up1]
    <2>2. h1 \in TurnState
      BY <1>1, <1>4 DEF TurnState
    <2>3. h = [h1 EXCEPT !.ended = cut, !.save = h.save]
      BY <1>1, <1>3, <1>6 DEF TurnState
    <2> HIDE DEF h1
    <2> QED
      BY <1>4, <2>1, <2>2, <2>3 DEF TurnState
  <1>8. HandlerOK(h)
    <2>1. CASE old.pc = "streaming"
      BY <1>1, <1>5, <1>6, <2>1 DEF HandlerOK, NoSave, Kinds, pc1, up1, cut, kept
    <2>2. CASE old.pc \in {"budget", "opening"}
      BY <1>1, <1>5, <1>6, <2>2 DEF HandlerOK, NoSave, Kinds, pc1, up1, cut, kept
    <2> QED
      BY <1>5, <2>1, <2>2
  <1>9. /\ \A k \in Kinds :
             /\ old.save[k] # "none" => h.save[k] # "none"
             /\ h.save[k] = "saved" => old.save[k] = "saved"
        /\ h.told = old.told
    BY <1>5, <1>6 DEF Kinds, kept
  <1>10. MovesOn(t)
    BY <1>2, <1>7, <1>9 DEF MovesOn, old
  <1>11. /\ unheard' = IF old.pc = "budget" THEN unheard \cup {t} ELSE unheard
         /\ unheard \subseteq Turns
    BY HandlerFacts DEF HangUp, old
  <1>12. ReaderOK(t)'
    BY <1>2, <1>6, <1>11 DEF ReaderOK, pc1, up1
  <1>13. HandlerOK(turn[t])'
    BY <1>2, <1>8
  <1> QED
    BY <1>10, <1>11, <1>12, <1>13, HandlerStep, HandlerFacts DEF HangUp, env

-----------------------------------------------------------------------------
(* The two awaits of recordTurn.                                           *)
(* The turns of a symbol on record, and the last of them.                  *)
LEMMA PreviousFacts ==
  ASSUME log \in Seq(Doc), NEW s, Earlier(s) # {}
  PROVE  /\ Max(Earlier(s)) \in Earlier(s)
         /\ \A i \in Earlier(s) : i <= Max(Earlier(s))
         /\ Previous(s) \in Doc
  <1>1. Len(log) \in Nat /\ DOMAIN log = 1..Len(log)
    OBVIOUS
  <1>2. Earlier(s) \in SUBSET (1..Len(log))
    BY <1>1 DEF Earlier
  <1>3. Max(Earlier(s)) \in Earlier(s) /\ \A i \in Earlier(s) : i <= Max(Earlier(s))
    BY <1>1, <1>2, LastPosition
  <1> QED
    BY <1>1, <1>2, <1>3 DEF Previous

LEMMA SessionForTurn ==
  ASSUME ChatTypeOK, NEW t \in Turns
  PROVE  SessionFor(t) \in Turns
  <1>1. CASE Continues(t)
    BY <1>1, PreviousFacts DEF ChatTypeOK, SessionFor, Continues, Doc
  <1>2. CASE ~Continues(t)
    BY <1>2 DEF SessionFor
  <1> QED
    BY <1>1, <1>2

LEMMA ResolveSessionStep ==
  ASSUME ChatInv, NEW t \in Turns, NEW k \in Kinds, ResolveSession(t, k)
  PROVE  ChatInv'
  <1> DEFINE old == turn[t]
             sv == [old.save EXCEPT ![k] = "write"]
             ss == [old.session EXCEPT ![k] = SessionFor(t)]
             h == [old EXCEPT !.save = sv, !.session = ss]
  <1>1. old \in TurnState /\ HandlerOK(old) /\ ReaderOK(t) /\ old.save[k] = "session"
    BY HandlerFacts DEF ResolveSession
  <1>2. SessionFor(t) \in Turns
    BY SessionForTurn DEF ChatInv
  <1>3. turn' = [turn EXCEPT ![t] = h] /\ turn'[t] = h
    BY <1>1, HandlerFacts DEF ResolveSession, TurnState
  <1>4. /\ old.save \in [Kinds -> {"none", "session", "write", "saved", "failed"}]
        /\ old.session \in [Kinds -> Turns \cup {NoSession}]
    BY <1>1 DEF TurnState
  <1>5. /\ sv \in [Kinds -> {"none", "session", "write", "saved", "failed"}]
        /\ ss \in [Kinds -> Turns \cup {NoSession}]
        /\ \A j \in Kinds : (sv[j] # "none" <=> old.save[j] # "none")
                            /\ (sv[j] = "saved" => old.save[j] = "saved")
                            /\ (sv[j] = "write" /\ old.save[j] # "write" => ss[j] \in Turns)
                            /\ (old.session[j] \in Turns => ss[j] \in Turns)
    BY <1>1, <1>2, <1>4
  <1> HIDE DEF sv, ss
  <1>6. h \in TurnState
    BY <1>1, <1>5 DEF TurnState
  <1>7. /\ h.save = sv /\ h.session = ss /\ h.pc = old.pc /\ h.up = old.up
        /\ h.client = old.client /\ h.ended = old.ended /\ h.started = old.started
        /\ h.result = old.result /\ h.told = old.told
    BY <1>1 DEF TurnState
  <1> HIDE DEF h
  <1>8. old.up \notin {"none", "running"}
    BY <1>1 DEF HandlerOK, NoSave
  <1>9. HandlerOK(h)
    BY <1>1, <1>5, <1>7, <1>8 DEF HandlerOK, Kinds
  <1>10. MovesOn(t)
    BY <1>3, <1>5, <1>6, <1>7 DEF MovesOn
  <1>11. HandlerOK(turn[t])' /\ ReaderOK(t)'
    BY <1>1, <1>3, <1>7, <1>9 DEF ReaderOK, ResolveSession, history
  <1> QED
    BY <1>10, <1>11, HandlerStep, HandlerFacts DEF ResolveSession, env, history

(* What AfterSave leaves of a handler whose record k was being written.    *)
LEMMA AfterSaveFacts ==
  ASSUME ChatInv, NEW t \in Turns, NEW k \in Kinds, NEW o \in {"saved", "failed"},
         turn[t].save[k] \in {"session", "write"}, AfterSave(t, k, o)
  PROVE  /\ turn' = [turn EXCEPT ![t] = turn'[t]]
         /\ turn'[t] \in TurnState /\ HandlerOK(turn'[t])
         /\ turn'[t].save = [turn[t].save EXCEPT ![k] = o]
         /\ turn'[t].session = turn[t].session /\ turn'[t].symbol = turn[t].symbol
         /\ turn'[t].client = turn[t].client
         /\ turn'[t].pc = turn[t].pc /\ turn'[t].up = turn[t].up
         /\ turn[t].up # "running"
         /\ turn[t].result <=> k = "full"
         /\ turn'[t].told => turn[t].told \/ (k = "full" /\ o = "saved")
         /\ turn[t].told => turn'[t].told
  <1> DEFINE old == turn[t]
             sv == [old.save EXCEPT ![k] = o]
             told1 == old.told \/ (k = "full" /\ o = "saved" /\ ~old.ended)
             ended1 == old.ended \/ k = "full"
             h == [old EXCEPT !.save = sv, !.told = told1, !.ended = ended1]
  <1>1. /\ old \in TurnState /\ HandlerOK(old)
    BY HandlerFacts
  <1>2. turn' = [turn EXCEPT ![t] = h] /\ turn'[t] = h
    BY <1>1, HandlerFacts DEF AfterSave, TurnState
  <1>3. /\ old.save \in [Kinds -> {"none", "session", "write", "saved", "failed"}]
        /\ old.told \in BOOLEAN /\ old.ended \in BOOLEAN /\ old.result \in BOOLEAN
        /\ old.started \in BOOLEAN
    BY <1>1 DEF TurnState
  <1>4. /\ sv \in [Kinds -> {"none", "session", "write", "saved", "failed"}]
        /\ \A j \in Kinds : (sv[j] # "none" <=> old.save[j] # "none")
                            /\ (sv[j] = "write" => old.save[j] = "write")
    BY <1>3
  <1>5. told1 \in BOOLEAN /\ ended1 \in BOOLEAN
        /\ (old.ended => ended1) /\ (told1 => old.told \/ (k = "full" /\ o = "saved"))
        /\ (old.told => told1)
    BY <1>3
  <1> HIDE DEF sv, told1, ended1
  <1>6. h \in TurnState
    BY <1>1, <1>4, <1>5 DEF TurnState
  <1>7. /\ h.save = sv /\ h.told = told1 /\ h.ended = ended1 /\ h.session = old.session
        /\ h.pc = old.pc /\ h.up = old.up /\ h.client = old.client
        /\ h.started = old.started /\ h.result = old.result /\ h.symbol = old.symbol
    BY <1>1 DEF TurnState
  <1> HIDE DEF h
  <1>8. old.up \notin {"none", "running"} /\ (old.result <=> k = "full")
    BY <1>1, <1>3 DEF HandlerOK, NoSave, Kinds
  <1>9. HandlerOK(h)
    BY <1>1, <1>4, <1>5, <1>7, <1>8 DEF HandlerOK, Kinds
  <1> QED
    BY <1>2, <1>5, <1>6, <1>7, <1>8, <1>9 DEF sv

LEMMA SaveFailsStep ==
  ASSUME ChatInv, NEW t \in Turns, NEW k \in Kinds, SaveFails(t, k)
  PROVE  ChatInv'
  <1>1. turn[t].save[k] \in {"session", "write"} /\ AfterSave(t, k, "failed")
    BY DEF SaveFails, AfterFailedSave
  <1>2. turn[t].save \in [Kinds -> {"none", "session", "write", "saved", "failed"}]
        /\ turn[t].told \in BOOLEAN /\ turn'[t].told \in BOOLEAN
    BY <1>1, HandlerFacts, AfterSaveFacts DEF TurnState
  <1>3. MovesOn(t)
    <2>1. turn'[t].save = [turn[t].save EXCEPT ![k] = "failed"]
      BY <1>1, AfterSaveFacts
    <2>2. turn'[t].told = turn[t].told
      BY <1>1, <1>2, AfterSaveFacts
    <2>3. turn' = [turn EXCEPT ![t] = turn'[t]] /\ turn'[t] \in TurnState
      BY <1>1, AfterSaveFacts
    <2> QED
      BY <1>2, <2>1, <2>2, <2>3 DEF MovesOn
  <1>4. HandlerOK(turn[t])'
    BY <1>1, AfterSaveFacts
  <1>5. ReaderOK(t)'
    BY <1>1, HandlerFacts, AfterSaveFacts DEF ReaderOK, SaveFails, history
  <1> QED
    BY <1>3, <1>4, <1>5, HandlerStep, HandlerFacts DEF SaveFails, history

LEMMA WriteTurnStep ==
  ASSUME ChatInv, NEW t \in Turns, NEW k \in Kinds, WriteTurn(t, k)
  PROVE  ChatInv'
  <1> DEFINE d == [id |-> t, symbol |-> turn[t].symbol, kind |-> k,
                   session |-> turn[t].session[k], tokens |-> Charged(t, k), at |-> clock]
  <1>1. turn[t].save[k] = "write" /\ AfterSave(t, k, "saved")
    BY DEF WriteTurn
  <1>2. ChatTypeOK /\ turn[t] \in TurnState /\ HandlerOK(turn[t]) /\ log \in Seq(Doc)
    BY HandlerFacts DEF ChatInv, ChatTypeOK
  <1>3. d \in Doc
    BY <1>1, <1>2, ChatTurnAssumption
    DEF TurnState, Doc, HandlerOK, Charged, ChatTypeOK
  <1>4. log' = IF Recorded(t) THEN log ELSE Append(log, d)
    BY DEF WriteTurn
  <1>5. d.id = t /\ d.kind = k
    OBVIOUS
  <1> HIDE DEF d
  <1>6. log' \in Seq(Doc)
    BY <1>2, <1>3, <1>4
  <1>7. ChatTypeOK'
    <2>1. turn' \in [Turns -> TurnState]
      BY <1>1, <1>2, AfterSaveFacts DEF ChatTypeOK
    <2> QED
      BY <1>2, <1>6, <2>1 DEF ChatTypeOK, WriteTurn, env
  <1>8. \A u \in Turns \ {t} : turn'[u] = turn[u]
    <2>1. turn' = [turn EXCEPT ![t] = turn'[t]]
      BY <1>1, AfterSaveFacts
    <2>2. DOMAIN turn = Turns
      BY HandlerFacts
    <2> QED
      BY <2>1, <2>2
  <1>9. ASSUME NEW u \in Turns PROVE HandlerOK(turn[u])' /\ ReaderOK(u)'
    <2>1. HandlerOK(turn[u]) /\ ReaderOK(u)
      BY HandlerFacts
    <2>2. unheard' = unheard
      BY DEF WriteTurn
    <2>3. CASE u = t
      BY <1>1, <2>1, <2>2, <2>3, AfterSaveFacts DEF ReaderOK
    <2>4. CASE u # t
      BY <1>8, <2>1, <2>2, <2>4 DEF ReaderOK
    <2> QED
      BY <2>3, <2>4
  <1>10. ASSUME NEW u \in Turns, NEW j \in Kinds
         PROVE  /\ RecordedAs(u, j) => RecordedAs(u, j)'
                /\ RecordedAs(u, j)' => RecordedAs(u, j) \/ (u = t /\ j = k)
                /\ Recorded(u) => Recorded(u)'
    <2>1. CASE Recorded(t)
      BY <1>4, <2>1 DEF RecordedAs, Recorded
    <2>2. CASE ~Recorded(t)
      <3>1. /\ DOMAIN log' = DOMAIN log \cup {Len(log) + 1}
            /\ \A i \in DOMAIN log : log'[i] = log[i]
            /\ log'[Len(log) + 1] = d
        BY <1>2, <1>3, <1>4, <2>2
      <3> QED
        BY <1>5, <3>1 DEF RecordedAs, Recorded
    <2> QED
      BY <2>1, <2>2
  <1>11. Recorded(t)'
    <2>1. CASE Recorded(t)
      BY <1>4, <2>1 DEF Recorded
    <2>2. CASE ~Recorded(t)
      BY <1>2, <1>3, <1>4, <1>5, <2>2 DEF Recorded
    <2> QED
      BY <2>1, <2>2
  <1>12. k = "full" => RecordedAs(t, "full")'
    <2> SUFFICES ASSUME k = "full" PROVE RecordedAs(t, "full")'
      OBVIOUS
    <2>1. turn[t].save["cancelled"] = "none"
      BY <1>1, <1>2, AfterSaveFacts DEF HandlerOK
    <2>2. ~RecordedAs(t, "cancelled")
      BY <2>1 DEF ChatInv, RecordOK, Kinds
    <2>3. CASE Recorded(t)
      <3>1. PICK i \in DOMAIN log : log[i].id = t
        BY <2>3 DEF Recorded
      <3>2. log[i].kind \in Kinds
        <4>1. log[i] \in Doc
          BY <1>2, <3>1
        <4> QED
          BY <4>1 DEF Doc
      <3>3. RecordedAs(t, "full")
        BY <2>2, <3>1, <3>2 DEF RecordedAs, Kinds
      <3> QED
        BY <1>10, <3>3 DEF Kinds
    <2>4. CASE ~Recorded(t)
      BY <1>2, <1>3, <1>4, <1>5, <2>4 DEF RecordedAs
    <2> QED
      BY <2>3, <2>4
  <1>13. ASSUME NEW u \in Turns PROVE RecordOK(u)'
    <2>1. RecordOK(u) /\ "full" \in Kinds
      BY DEF ChatInv, Kinds
    <2>2. CASE u # t
      BY <1>8, <1>10, <2>1, <2>2 DEF RecordOK
    <2>3. CASE u = t
      <3>1. turn[t].save \in [Kinds -> {"none", "session", "write", "saved", "failed"}]
        BY <1>2 DEF TurnState
      <3>2. turn'[t].save = [turn[t].save EXCEPT ![k] = "saved"]
        BY <1>1, AfterSaveFacts
      <3>3. \A j \in Kinds : RecordedAs(t, j)' => turn'[t].save[j] # "none"
        BY <1>1, <1>10, <2>1, <2>3, <3>1, <3>2 DEF RecordOK
      <3>4. turn'[t].told => RecordedAs(t, "full")'
        BY <1>1, <1>10, <1>12, <2>1, <2>3, AfterSaveFacts DEF RecordOK
      <3> QED
        BY <1>11, <2>3, <3>3, <3>4 DEF RecordOK
    <2> QED
      BY <2>2, <2>3
  <1> QED
    BY <1>7, <1>9, <1>13 DEF ChatInv

-----------------------------------------------------------------------------
LEMMA PauseStep == ASSUME ChatInv, Pause PROVE ChatInv'
  <1>1. turn' = turn /\ log' = log /\ unheard' = unheard /\ clock' \in Nat
    BY DEF Pause, chat, history, ChatInv, ChatTypeOK
  <1>2. ChatTypeOK'
    BY <1>1 DEF Pause, chat, history, ChatInv, ChatTypeOK
  <1> QED
    BY <1>1, <1>2 DEF ChatInv, ReaderOK, RecordOK, RecordedAs, Recorded

LEMMA CrashStep == ASSUME ChatInv, Crash PROVE ChatInv'
  <1> DEFINE sv(t) == [k \in Kinds |-> IF turn[t].save[k] \in {"session", "write"}
                                       THEN "failed" ELSE turn[t].save[k]]
             up(t) == IF turn[t].up = "running" THEN "aborted" ELSE turn[t].up
             h(t) == [turn[t] EXCEPT !.pc = "lost", !.up = up(t), !.save = sv(t)]
  <1>1. \A t \in Turns : turn[t] \in TurnState /\ HandlerOK(turn[t]) /\ ReaderOK(t)
    BY HandlerFacts
  <1>2. turn' = [t \in Turns |-> IF UnderWay(t) THEN h(t) ELSE turn[t]]
    BY <1>1 DEF Crash, TurnState
  <1>3. ASSUME NEW t \in Turns
        PROVE  /\ turn'[t] \in TurnState
               /\ turn'[t].client = turn[t].client /\ turn'[t].told = turn[t].told
               /\ (turn'[t].pc \in {"budget", "opening"} => turn[t].pc = turn'[t].pc)
               /\ (turn'[t].up = "running" => turn[t].up = "running")
               /\ \A k \in Kinds :
                    /\ turn[t].save[k] # "none" <=> turn'[t].save[k] # "none"
                    /\ turn'[t].save[k] = "saved" => turn[t].save[k] = "saved"
               /\ HandlerOK(turn'[t])
    <2>1. CASE UnderWay(t)
      <3>1. turn'[t] = h(t)
        BY <1>2, <2>1
      <3>2. turn[t].save \in [Kinds -> {"none", "session", "write", "saved", "failed"}]
            /\ turn[t].up \in {"none", "running", "ended", "broken", "aborted"}
        BY <1>1 DEF TurnState
      <3>3. /\ sv(t) \in [Kinds -> {"none", "session", "write", "saved", "failed"}]
            /\ up(t) \in {"none", "running", "ended", "broken", "aborted"}
            /\ up(t) # "running"
            /\ up(t) = "none" <=> turn[t].up = "none"
            /\ up(t) = "ended" <=> turn[t].up = "ended"
            /\ up(t) = "broken" <=> turn[t].up = "broken"
            /\ \A k \in Kinds :
                 /\ turn[t].save[k] # "none" <=> sv(t)[k] # "none"
                 /\ sv(t)[k] = "saved" => turn[t].save[k] = "saved"
                 /\ sv(t)[k] # "write"
            /\ turn[t].save = NoSave => sv(t) = NoSave
        BY <3>2 DEF NoSave
      <3> HIDE DEF sv, up
      <3>4. h(t) \in TurnState
        <4>1. turn[t] \in TurnState
          BY <1>1
        <4>2. /\ sv(t) \in [Kinds -> {"none", "session", "write", "saved", "failed"}]
              /\ up(t) \in {"none", "running", "ended", "broken", "aborted"}
          BY <3>3
        <4> DEFINE h1 == [turn[t] EXCEPT !.pc = "lost", !.up = up(t)]
        <4>3. h1 \in TurnState
          BY <4>1, <4>2 DEF TurnState
        <4>4. h(t) = [h1 EXCEPT !.save = sv(t)]
          BY <4>1 DEF TurnState
        <4> HIDE DEF h1, h
        <4> QED
          BY <4>2, <4>3, <4>4 DEF TurnState
      <3>5. /\ h(t).pc = "lost" /\ h(t).up = up(t) /\ h(t).save = sv(t)
            /\ h(t).client = turn[t].client /\ h(t).told = turn[t].told
            /\ h(t).started = turn[t].started /\ h(t).result = turn[t].result
            /\ h(t).ended = turn[t].ended
        BY <1>1 DEF TurnState
      <3> HIDE DEF h
      <3>6. HandlerOK(h(t))
        BY <1>1, <3>3, <3>5 DEF HandlerOK, Kinds
      <3> QED
        BY <3>1, <3>3, <3>4, <3>5, <3>6
    <2>2. CASE ~UnderWay(t)
      BY <1>1, <1>2, <2>2
    <2> QED
      BY <2>1, <2>2
  <1>4. turn' \in [Turns -> TurnState]
    BY <1>2, <1>3
  <1>5. log' = log /\ unheard' = unheard /\ clock' = clock /\ faults' = faults
        /\ crashes' = crashes + 1 /\ unchecked' = unchecked /\ crossed' = crossed
    BY DEF Crash, history
  <1>6. ChatTypeOK'
    BY <1>4, <1>5 DEF ChatInv, ChatTypeOK
  <1>7. ASSUME NEW t \in Turns PROVE RecordOK(t)'
    <2>1. RecordOK(t)
      BY DEF ChatInv
    <2> QED
      BY <1>3, <1>5, <2>1 DEF RecordOK, RecordedAs, Recorded
  <1>8. ASSUME NEW t \in Turns PROVE ReaderOK(t)'
    BY <1>1, <1>3, <1>5 DEF ReaderOK
  <1> QED
    BY <1>3, <1>6, <1>7, <1>8 DEF ChatInv

LEMMA ChatNext == ASSUME ChatInv, [Next]_vars PROVE ChatInv'
  <1>1. CASE Next
    <2>1. ASSUME NEW t \in Turns,
                 \/ Ask(t) \/ CheckBudget(t) \/ BudgetUnread(t) \/ Open(t)
                 \/ Started(t) \/ Result(t) \/ Ended(t) \/ Broken(t) \/ HangUp(t)
          PROVE  ChatInv'
      BY <2>1, AskStep, CheckBudgetStep, BudgetUnreadStep, OpenStep, EventStep, EndedStep,
         HangUpStep
    <2>2. ASSUME NEW t \in Turns, SaveStep(t) PROVE ChatInv'
      BY <2>2, ResolveSessionStep, WriteTurnStep, SaveFailsStep DEF SaveStep
    <2> QED
      BY <1>1, <2>1, <2>2, PauseStep, CrashStep DEF Next
  <1>2. CASE UNCHANGED vars
    <2>1. turn' = turn /\ log' = log /\ unheard' = unheard
      BY <1>2 DEF vars, chat, history
    <2>2. ChatTypeOK'
      BY <1>2 DEF ChatInv, ChatTypeOK, vars, chat, env, history
    <2> QED
      BY <2>1, <2>2 DEF ChatInv, ReaderOK, RecordOK, RecordedAs, Recorded
  <1> QED
    BY <1>1, <1>2

LEMMA ChatInvariant == Spec => []ChatInv
  BY ChatInit, ChatNext, PTL DEF Spec

-----------------------------------------------------------------------------
(* Every reachable state of the handlers and of the collection is          *)
(* well-typed (chat-stream.controller.ts:40-190).                          *)
THEOREM ChatTypeCorrect == Spec => []ChatTypeOK
  <1>1. ChatInv => ChatTypeOK
    BY DEF ChatInv
  <1> QED
    BY <1>1, ChatInvariant, PTL

(* The agent works for nobody only if the reader left before the listener  *)
(* was registered (55-68), however many turns run.                         *)
THEOREM ReadersAreServed == Spec => []NoReaderNoTurn
  <1>1. ChatInv => NoReaderNoTurn
    BY DEF ChatInv, ReaderOK, NoReaderNoTurn
  <1> QED
    BY <1>1, ChatInvariant, PTL

(* An answered turn is never on record as stopped, and a client is told    *)
(* only of answers that are stored (122-142, 161-190).                     *)
THEOREM AnswersStand == Spec => []AnswerNotShadowed
  <1>1. ASSUME ChatInv PROVE AnswerNotShadowed
    <2> SUFFICES ASSUME NEW t \in Turns
                 PROVE  /\ turn[t].result => ~RecordedAs(t, "cancelled")
                        /\ turn[t].told => RecordedAs(t, "full")
      BY DEF AnswerNotShadowed
    <2>1. HandlerOK(turn[t]) /\ RecordOK(t)
      BY <1>1 DEF ChatInv
    <2> QED
      BY <2>1 DEF HandlerOK, RecordOK, Kinds
  <1> QED
    BY <1>1, ChatInvariant, PTL

(* A turn that started and is over is stored, unless its write failed or   *)
(* its stream ended in one of the ways the handler records nothing of      *)
(* (104-142).                                                              *)
THEOREM StartedTurnsLeaveRecords == Spec => []StartedTurnsAreRecorded
  <1>1. ASSUME ChatInv PROVE StartedTurnsAreRecorded
    <2> SUFFICES ASSUME NEW t \in Turns, turn[t].started, Over(t), ~Recorded(t),
                        \A k \in Kinds : turn[t].save[k] # "failed", turn[t].pc # "lost"
                 PROVE  \/ turn[t].up = "broken"
                        \/ turn[t].up = "ended" /\ ~turn[t].result
                        \/ turn[t].up = "aborted" /\ turn[t].result
      BY DEF StartedTurnsAreRecorded
    <2>1. turn[t] \in TurnState /\ HandlerOK(turn[t]) /\ RecordOK(t)
      BY <1>1 DEF ChatInv, ChatTypeOK
    <2>2. turn[t].pc = "streaming" /\ turn[t].up # "running" /\ ~Saving(t)
          /\ turn[t].up # "none"
      BY <2>1 DEF Over, HandlerOK
    <2>3. \A k \in Kinds : turn[t].save[k] = "none"
      BY <2>1, <2>2 DEF TurnState, Saving, RecordOK
    <2>4. turn[t].up \in {"ended", "broken", "aborted"}
      BY <2>1, <2>2 DEF TurnState
    <2> QED
      BY <2>1, <2>2, <2>3, <2>4 DEF HandlerOK, Kinds
  <1> QED
    BY <1>1, ChatInvariant, PTL

-----------------------------------------------------------------------------
(* Sessions.  A turn that is about to be written, and that no other was    *)
(* recorded within, still continues the last turn of its symbol; so the    *)
(* session it joins ends there, and is extended without a gap.             *)

Writing(t, k) == turn[t].save[k] = "write"

(* The session a turn is about to be written with is its own, or one that  *)
(* its symbol has.                                                         *)
KnownSession(t, k) ==
  \/ turn[t].session[k] = t
  \/ \E m \in DOMAIN log : log[m].session = turn[t].session[k]
                           /\ log[m].symbol = turn[t].symbol

LastSession(t, k) ==
  \/ turn[t].session[k] = t
  \/ /\ Earlier(turn[t].symbol) # {}
     /\ turn[t].session[k] = Previous(turn[t].symbol).session

NamedAfterTurns == \A i \in DOMAIN log : \E m \in DOMAIN log : log[m].id = log[i].session
OneSymbolEach ==
  \A i, j \in DOMAIN log : log[i].session = log[j].session => log[i].symbol = log[j].symbol

SessionInv ==
  /\ \A t \in Turns, k \in Kinds : Writing(t, k) =>
       KnownSession(t, k) /\ (t \notin crossed /\ ~Recorded(t) => LastSession(t, k))
  /\ NamedAfterTurns /\ OneSymbolEach /\ SessionsContiguous

Carried(u, k) ==
  Writing(u, k)' => /\ Writing(u, k)
                    /\ turn'[u].session[k] = turn[u].session[k]
                    /\ turn'[u].symbol = turn[u].symbol

LEMMA SessionKept ==
  ASSUME SessionInv, log' = log, crossed' = crossed,
         \A u \in Turns, k \in Kinds :
           Carried(u, k) \/ (KnownSession(u, k)' /\ LastSession(u, k)')
  PROVE  SessionInv'
  <1>1. NamedAfterTurns' /\ OneSymbolEach' /\ SessionsContiguous'
    BY DEF SessionInv, NamedAfterTurns, OneSymbolEach, SessionsContiguous, InOrder
  <1>2. ASSUME NEW u \in Turns, NEW k \in Kinds, Writing(u, k)'
        PROVE  KnownSession(u, k)' /\ (u \notin crossed' /\ ~Recorded(u)' => LastSession(u, k)')
    <2>1. CASE Carried(u, k)
      BY <1>2, <2>1 DEF Carried, SessionInv, KnownSession, LastSession, Recorded, Earlier,
                        Previous
    <2>2. CASE KnownSession(u, k)' /\ LastSession(u, k)'
      BY <2>2
    <2> QED
      BY <2>1, <2>2
  <1> QED
    BY <1>1, <1>2 DEF SessionInv

(* The steps that neither look a session up nor write one.                 *)
LEMMA HandlersCarry ==
  ASSUME ChatInv, NEW t \in Turns, NEW u \in Turns, NEW k \in Kinds,
         \/ Ask(t) \/ CheckBudget(t) \/ BudgetUnread(t) \/ Open(t)
         \/ Started(t) \/ Result(t) \/ Ended(t) \/ Broken(t) \/ HangUp(t)
  PROVE  Carried(u, k)
  <1>1. /\ turn[u] \in TurnState /\ turn[t] \in TurnState /\ HandlerOK(turn[t])
        /\ DOMAIN turn = Turns
    BY HandlerFacts
  <1>2. CASE Ask(t)
    <2>1. turn[t].save = NoSave
      BY <1>1, <1>2 DEF Ask, HandlerOK
    <2>2. turn'[t].save = turn[t].save /\ (u # t => turn'[u] = turn[u])
      <3>1. PICK s \in Symbols, f \in BOOLEAN, c \in Costs :
              turn' = [turn EXCEPT ![t].pc = "budget", ![t].symbol = s, ![t].fresh = f,
                                   ![t].cost = c]
        BY <1>2 DEF Ask
      <3> QED
        BY <1>1, <3>1 DEF TurnState
    <2> QED
      BY <2>1, <2>2 DEF Carried, Writing, NoSave
  <1>3. CASE CheckBudget(t) \/ BudgetUnread(t) \/ Open(t)
    BY <1>1, <1>3 DEF CheckBudget, BudgetUnread, Open, Carried, Writing, TurnState
  <1>4. CASE Started(t) \/ Result(t) \/ Broken(t)
    BY <1>1, <1>4 DEF Started, Result, Broken, Carried, Writing, TurnState
  <1>5. CASE Ended(t)
    BY <1>1, <1>5 DEF Ended, Carried, Writing, TurnState
  <1>6. CASE HangUp(t)
    <2>1. /\ turn'[t] = LeftBehind(t)
          /\ u # t => turn'[u] = turn[u]
      BY <1>1, <1>6 DEF HangUp
    <2> DEFINE c == IF turn[t].pc = "streaming" /\ Abandoned(t)
                    THEN "session" ELSE turn[t].save["cancelled"]
    <2>2. c = "session" \/ c = turn[t].save["cancelled"]
      OBVIOUS
    <2> HIDE DEF c
    <2>3. /\ LeftBehind(t).save = [turn[t].save EXCEPT !["cancelled"] = c]
          /\ LeftBehind(t).session = turn[t].session
          /\ LeftBehind(t).symbol = turn[t].symbol
      BY <1>1 DEF LeftBehind, TurnState, c
    <2>4. turn[t].save \in [Kinds -> {"none", "session", "write", "saved", "failed"}]
      BY <1>1 DEF TurnState
    <2> QED
      BY <2>1, <2>2, <2>3, <2>4 DEF Carried, Writing, Kinds
  <1> QED
    BY <1>2, <1>3, <1>4, <1>5, <1>6

LEMMA SaveFailsCarries ==
  ASSUME ChatInv, NEW t \in Turns, NEW j \in Kinds, SaveFails(t, j),
         NEW u \in Turns, NEW k \in Kinds
  PROVE  Carried(u, k)
  <1>1. turn[t].save[j] \in {"session", "write"} /\ AfterSave(t, j, "failed")
    BY DEF SaveFails, AfterFailedSave
  <1>2. /\ turn' = [turn EXCEPT ![t] = turn'[t]]
        /\ turn'[t].save = [turn[t].save EXCEPT ![j] = "failed"]
        /\ turn'[t].session = turn[t].session /\ turn'[t].symbol = turn[t].symbol
    BY <1>1, AfterSaveFacts
  <1>3. turn[t].save \in [Kinds -> {"none", "session", "write", "saved", "failed"}]
        /\ DOMAIN turn = Turns
    BY HandlerFacts DEF TurnState
  <1>4. u # t => turn'[u] = turn[u]
    BY <1>2, <1>3
  <1> QED
    BY <1>2, <1>3, <1>4 DEF Carried, Writing

LEMMA ResolveJoins ==
  ASSUME ChatInv, NEW t \in Turns, NEW j \in Kinds, ResolveSession(t, j),
         NEW u \in Turns, NEW k \in Kinds
  PROVE  Carried(u, k) \/ (KnownSession(u, k)' /\ LastSession(u, k)')
  <1>1. /\ turn[t] \in TurnState /\ DOMAIN turn = Turns /\ log \in Seq(Doc) /\ log' = log
    BY HandlerFacts DEF ResolveSession, ChatInv, ChatTypeOK
  <1>2. /\ turn'[t].session = [turn[t].session EXCEPT ![j] = SessionFor(t)]
        /\ turn'[t].save = [turn[t].save EXCEPT ![j] = "write"]
        /\ turn'[t].symbol = turn[t].symbol
        /\ u # t => turn'[u] = turn[u]
    BY <1>1 DEF ResolveSession, TurnState
  <1>3. CASE u # t \/ k # j
    BY <1>1, <1>2, <1>3 DEF Carried, Writing, TurnState
  <1>4. CASE u = t /\ k = j
    <2>1. turn'[t].session[j] = SessionFor(t)
      BY <1>1, <1>2 DEF TurnState
    <2>2. CASE Continues(t)
      <3> DEFINE s == turn[t].symbol
      <3>1. SessionFor(t) = Previous(s).session /\ Earlier(s) # {}
        BY <2>2 DEF SessionFor, Continues
      <3>2. Max(Earlier(s)) \in DOMAIN log /\ log[Max(Earlier(s))].symbol = s
        BY <1>1, <3>1, PreviousFacts DEF Earlier
      <3> QED
        BY <1>1, <1>2, <1>4, <2>1, <3>1, <3>2
        DEF KnownSession, LastSession, Previous, Earlier
    <2>3. CASE ~Continues(t)
      BY <1>4, <2>1, <2>3 DEF SessionFor, KnownSession, LastSession
    <2> QED
      BY <2>2, <2>3
  <1> QED
    BY <1>3, <1>4

(* A turn is stored: it joins its session at the end, or nothing before it *)
(* is of that session, or it has lost its place to another.                *)
LEMMA WriteExtends ==
  ASSUME ChatInv, SessionInv, NEW t \in Turns, NEW k \in Kinds, WriteTurn(t, k)
  PROVE  SessionInv'
  <1> DEFINE d == [id |-> t, symbol |-> turn[t].symbol, kind |-> k,
                   session |-> turn[t].session[k], tokens |-> Charged(t, k), at |-> clock]
             n == Len(log) + 1
             sess == turn[t].session[k]
             sym == turn[t].symbol
  <1>1. Writing(t, k) /\ AfterSave(t, k, "saved") /\ turn[t].save[k] \in {"session", "write"}
    BY DEF WriteTurn, Writing
  <1>2. /\ turn' = [turn EXCEPT ![t] = turn'[t]] /\ DOMAIN turn = Turns
        /\ turn'[t].save = [turn[t].save EXCEPT ![k] = "saved"]
        /\ turn'[t].session = turn[t].session /\ turn'[t].symbol = turn[t].symbol
        /\ turn[t].save \in [Kinds -> {"none", "session", "write", "saved", "failed"}]
    <2>1. turn[t] \in TurnState /\ DOMAIN turn = Turns
      BY HandlerFacts
    <2>2. turn[t].save \in [Kinds -> {"none", "session", "write", "saved", "failed"}]
      BY <2>1 DEF TurnState
    <2> QED
      BY <1>1, <2>1, <2>2, AfterSaveFacts
  <1>3. ASSUME NEW u \in Turns, NEW j \in Kinds PROVE Carried(u, j)
    <2>1. u # t => turn'[u] = turn[u]
      BY <1>2
    <2> QED
      BY <1>2, <2>1 DEF Carried, Writing
  <1>4. log \in Seq(Doc) /\ Len(log) \in Nat /\ DOMAIN log = 1..Len(log)
    BY DEF ChatInv, ChatTypeOK
  <1>5. crossed \subseteq crossed'
    BY DEF WriteTurn
  <1>6. CASE Recorded(t)
    <2>1. log' = log
      BY <1>6 DEF WriteTurn
    <2>2. NamedAfterTurns' /\ OneSymbolEach'
      BY <2>1 DEF SessionInv, NamedAfterTurns, OneSymbolEach
    <2>3. SessionsContiguous'
      BY <1>5, <2>1 DEF SessionInv, SessionsContiguous, InOrder
    <2>4. ASSUME NEW u \in Turns, NEW j \in Kinds, Writing(u, j)'
          PROVE  KnownSession(u, j)'
                 /\ (u \notin crossed' /\ ~Recorded(u)' => LastSession(u, j)')
      BY <1>3, <1>5, <2>1, <2>4
      DEF Carried, SessionInv, KnownSession, LastSession, Recorded, Earlier, Previous
    <2> QED
      BY <2>2, <2>3, <2>4 DEF SessionInv
  <1>7. CASE ~Recorded(t)
    <2>1. log' = Append(log, d)
      BY <1>7 DEF WriteTurn
    <2>2. /\ DOMAIN log' = 1..n /\ n \in DOMAIN log' /\ n \notin DOMAIN log
          /\ DOMAIN log \subseteq DOMAIN log'
          /\ \A i \in DOMAIN log' : i = n \/ i \in DOMAIN log
          /\ \A i \in DOMAIN log : log'[i] = log[i] /\ i < n
          /\ log'[n] = d
      BY <1>4, <2>1
    <2>3. d.id = t /\ d.symbol = sym /\ d.session = sess
      OBVIOUS
    <2> HIDE DEF d, n
    <2>4. KnownSession(t, k) /\ (t \notin crossed => LastSession(t, k))
      BY <1>1, <1>7 DEF SessionInv
    <2>5. sess = t => \A i \in DOMAIN log : log[i].session # sess
      BY <1>7 DEF SessionInv, NamedAfterTurns, Recorded
    <2>6. NamedAfterTurns'
      <3>1. \E m \in DOMAIN log' : log'[m].id = sess
        <4>1. CASE sess = t
          BY <2>2, <2>3, <4>1
        <4>2. CASE sess # t
          <5>1. PICK m \in DOMAIN log : log[m].session = sess
            BY <2>4, <4>2 DEF KnownSession
          <5>2. PICK p \in DOMAIN log : log[p].id = sess
            BY <5>1 DEF SessionInv, NamedAfterTurns
          <5> QED
            BY <2>2, <5>2
        <4> QED
          BY <4>1, <4>2
      <3>2. ASSUME NEW i \in DOMAIN log PROVE \E m \in DOMAIN log' : log'[m].id = log'[i].session
        BY <2>2 DEF SessionInv, NamedAfterTurns
      <3> QED
        BY <2>2, <2>3, <3>1, <3>2 DEF NamedAfterTurns
    <2>7. ASSUME NEW i \in DOMAIN log, log[i].session = sess PROVE log[i].symbol = sym
      <3>1. sess # t
        BY <2>5, <2>7
      <3>2. PICK m \in DOMAIN log : log[m].session = sess /\ log[m].symbol = sym
        BY <2>4, <3>1 DEF KnownSession
      <3> QED
        BY <2>7, <3>2 DEF SessionInv, OneSymbolEach
    <2>8. OneSymbolEach'
      <3> SUFFICES ASSUME NEW i \in DOMAIN log', NEW j \in DOMAIN log',
                          log'[i].session = log'[j].session
                   PROVE  log'[i].symbol = log'[j].symbol
        BY DEF OneSymbolEach
      <3>1. CASE i \in DOMAIN log /\ j \in DOMAIN log
        BY <2>2, <3>1 DEF SessionInv, OneSymbolEach
      <3>2. CASE i = n \/ j = n
        BY <2>2, <2>3, <2>7, <3>2
      <3> QED
        BY <2>2, <3>1, <3>2
    <2>9. SessionsContiguous'
      <3> SUFFICES ASSUME NEW i \in DOMAIN log', NEW m \in DOMAIN log', i < m,
                          log'[i].session = log'[m].session, InOrder(i, m)',
                          NEW j \in i..m, log'[j].symbol = log'[i].symbol
                   PROVE  log'[j].session = log'[i].session
        BY DEF SessionsContiguous
      <3>1. i \in DOMAIN log /\ i \in Nat /\ m \in Nat /\ j \in Nat /\ j \in DOMAIN log'
            /\ i <= j /\ j <= m /\ n \in Nat
        BY <1>4, <2>2 DEF n
      <3>2. log'[i] = log[i]
        BY <2>2, <3>1
      <3>3. ASSUME NEW p \in DOMAIN log, i < p, p <= m PROVE InOrder(i, p)
        <4>1. ASSUME NEW q \in (i + 1)..p, log[q].symbol = log[i].symbol
              PROVE  log[q].id \notin crossed
          <5>1. p \in Nat /\ q \in Nat /\ i < q /\ q <= p /\ p <= Len(log)
            BY <1>4, <3>1, <3>3
          <5>2. q \in DOMAIN log /\ q \in (i + 1)..m
            BY <1>4, <3>1, <3>3, <5>1
          <5>3. log'[q] = log[q]
            BY <2>2, <5>2
          <5> QED
            BY <1>5, <3>2, <4>1, <5>2, <5>3 DEF InOrder
        <4> QED
          BY <4>1 DEF InOrder
      <3>4. CASE m # n
        <4>1. m \in DOMAIN log /\ log'[m] = log[m]
          BY <2>2, <3>4
        <4>2. j \in DOMAIN log /\ log'[j] = log[j]
          BY <1>4, <2>2, <3>1, <4>1
        <4>3. InOrder(i, m)
          BY <3>1, <3>3, <4>1
        <4> QED
          BY <3>1, <3>2, <4>1, <4>2, <4>3 DEF SessionInv, SessionsContiguous
      <3>5. CASE m = n
        <4>1. log[i].session = sess /\ log[i].symbol = sym
          BY <2>2, <2>3, <2>7, <3>1, <3>2, <3>5
        <4>2. t \notin crossed'
          BY <2>2, <2>3, <3>1, <3>2, <3>5, <4>1 DEF InOrder
        <4>3. Earlier(sym) # {} /\ sess = Previous(sym).session
          BY <1>5, <2>4, <2>5, <3>1, <4>1, <4>2 DEF LastSession
        <4> DEFINE p == Max(Earlier(sym))
        <4>4. p \in Earlier(sym) /\ \A q \in Earlier(sym) : q <= p
          BY <1>4, <4>3, PreviousFacts
        <4>5. p \in DOMAIN log /\ p \in Nat /\ log[p].symbol = sym /\ log[p].session = sess
          BY <1>4, <4>3, <4>4 DEF Earlier, Previous
        <4> HIDE DEF p
        <4>6. i <= p /\ p < n
          BY <2>2, <3>1, <4>1, <4>4, <4>5 DEF Earlier
        <4>7. CASE j = n
          BY <2>2, <2>3, <3>5, <4>7
        <4>8. CASE j # n
          <5>1. j \in DOMAIN log /\ log'[j] = log[j]
            BY <2>2, <3>1, <4>8
          <5>2. j <= p
            BY <3>2, <4>1, <4>4, <5>1 DEF Earlier
          <5>3. CASE i = p
            BY <3>1, <4>5, <5>2, <5>3
          <5>4. CASE i # p
            <6>1. i < p /\ j \in i..p
              BY <3>1, <4>5, <4>6, <5>2, <5>4
            <6>2. InOrder(i, p)
              BY <3>3, <3>5, <3>1, <4>5, <4>6, <6>1
            <6> QED
              BY <3>1, <3>2, <4>1, <4>5, <5>1, <6>1, <6>2 DEF SessionInv, SessionsContiguous
          <5> QED
            BY <5>3, <5>4
        <4> QED
          BY <4>7, <4>8
      <3> QED
        BY <3>4, <3>5
    <2>10. ASSUME NEW u \in Turns, NEW j \in Kinds, Writing(u, j)'
           PROVE  KnownSession(u, j)'
                  /\ (u \notin crossed' /\ ~Recorded(u)' => LastSession(u, j)')
      <3>1. /\ Writing(u, j) /\ turn'[u].session[j] = turn[u].session[j]
            /\ turn'[u].symbol = turn[u].symbol
        BY <1>3, <2>10 DEF Carried
      <3>2. KnownSession(u, j)'
        <4>1. KnownSession(u, j)
          BY <3>1 DEF SessionInv
        <4> QED
          BY <2>2, <3>1, <4>1 DEF KnownSession
      <3>3. ASSUME u \notin crossed', ~Recorded(u)' PROVE LastSession(u, j)'
        <4>1. u # t
          BY <2>2, <2>3, <3>3 DEF Recorded
        <4>2. turn[u].symbol # sym
          BY <3>1, <3>3, <4>1 DEF WriteTurn, Writing
        <4>3. u \notin crossed /\ ~Recorded(u)
          BY <1>5, <2>2, <3>3 DEF Recorded
        <4>4. LastSession(u, j)
          BY <3>1, <4>3 DEF SessionInv
        <4>5. Earlier(turn[u].symbol)' = Earlier(turn[u].symbol)
          BY <2>2, <2>3, <3>1, <4>2 DEF Earlier
        <4>6. CASE turn[u].session[j] = u
          BY <3>1, <4>6 DEF LastSession
        <4>7. CASE turn[u].session[j] # u
          <5> DEFINE p == Max(Earlier(turn[u].symbol))
          <5>1. Earlier(turn[u].symbol) # {} /\ turn[u].session[j] = log[p].session
            BY <4>4, <4>7 DEF LastSession, Previous
          <5>2. p \in DOMAIN log
            BY <1>4, <5>1, PreviousFacts DEF Earlier
          <5>3. log'[p] = log[p]
            BY <2>2, <5>2
          <5>4. Previous(turn[u].symbol)' = log'[p]
            BY <4>5 DEF Previous
          <5> QED
            BY <3>1, <4>5, <5>1, <5>3, <5>4 DEF LastSession
        <4> QED
          BY <4>6, <4>7
      <3> QED
        BY <3>2, <3>3
    <2> QED
      BY <2>6, <2>8, <2>9, <2>10 DEF SessionInv
  <1> QED
    BY <1>6, <1>7

LEMMA SessionInit == Init => SessionInv
  <1> SUFFICES ASSUME Init PROVE SessionInv
    OBVIOUS
  <1>1. ChatInv
    BY ChatInit
  <1>2. log = << >> /\ DOMAIN log = {} /\ \A t \in Turns : turn[t].pc = "idle"
    BY DEF Init
  <1>3. \A t \in Turns, k \in Kinds : ~Writing(t, k)
    BY <1>1, <1>2, HandlerFacts DEF HandlerOK, NoSave, Writing
  <1> QED
    BY <1>2, <1>3 DEF SessionInv, NamedAfterTurns, OneSymbolEach, SessionsContiguous

LEMMA SessionNext == ASSUME ChatInv, SessionInv, [Next]_vars PROVE SessionInv'
  <1>1. ASSUME NEW t \in Turns,
               \/ Ask(t) \/ CheckBudget(t) \/ BudgetUnread(t) \/ Open(t)
               \/ Started(t) \/ Result(t) \/ Ended(t) \/ Broken(t) \/ HangUp(t)
        PROVE  SessionInv'
    <2>1. log' = log /\ crossed' = crossed
      BY <1>1 DEF Ask, CheckBudget, BudgetUnread, Open, Started, Result, Ended, Broken,
                  HangUp, history
    <2> QED
      BY <1>1, <2>1, HandlersCarry, SessionKept
  <1>2. ASSUME NEW t \in Turns, NEW k \in Kinds, ResolveSession(t, k) PROVE SessionInv'
    BY <1>2, ResolveJoins, SessionKept DEF ResolveSession, history
  <1>3. ASSUME NEW t \in Turns, NEW k \in Kinds, SaveFails(t, k) PROVE SessionInv'
    BY <1>3, SaveFailsCarries, SessionKept DEF SaveFails, history
  <1>4. ASSUME NEW t \in Turns, NEW k \in Kinds, WriteTurn(t, k) PROVE SessionInv'
    BY <1>4, WriteExtends
  <1>5. CASE Pause \/ UNCHANGED vars
    <2>1. turn' = turn /\ log' = log /\ crossed' = crossed
      BY <1>5 DEF Pause, vars, chat, history
    <2>2. \A u \in Turns, k \in Kinds : Carried(u, k)
      BY <2>1 DEF Carried, Writing
    <2> QED
      BY <2>1, <2>2, SessionKept
  <1>6. CASE Crash
    <2>1. log' = log /\ crossed' = crossed
      BY <1>6 DEF Crash, history
    <2>2. ASSUME NEW u \in Turns, NEW k \in Kinds PROVE Carried(u, k)
      <3>1. turn[u] \in TurnState
        BY HandlerFacts
      <3> DEFINE up == IF turn[u].up = "running" THEN "aborted" ELSE turn[u].up
                 sv == [j \in Kinds |-> IF turn[u].save[j] \in {"session", "write"}
                                        THEN "failed" ELSE turn[u].save[j]]
      <3>2. \/ turn'[u] = turn[u]
            \/ turn'[u] = [turn[u] EXCEPT !.pc = "lost", !.up = up, !.save = sv]
        BY <1>6, <3>1 DEF Crash, TurnState
      <3>3. sv[k] # "write"
        OBVIOUS
      <3> HIDE DEF sv, up
      <3>4. turn'[u] = turn[u] \/ turn'[u].save = sv
        BY <3>1, <3>2 DEF TurnState
      <3> QED
        BY <3>3, <3>4 DEF Carried, Writing
    <2> QED
      BY <2>1, <2>2, SessionKept
  <1> QED
    BY <1>1, <1>2, <1>3, <1>4, <1>5, <1>6 DEF Next, SaveStep

(* The turns of a session are consecutive among those of their symbol, for *)
(* any number of turns, unless one of them had another recorded between    *)
(* the read of its session and its write (chat-sessions.service.ts:69-127).*)
THEOREM SessionsAreConversations == Spec => []SessionsContiguous
  <1>1. Init => ChatInv /\ SessionInv
    BY ChatInit, SessionInit
  <1>2. ChatInv /\ SessionInv /\ [Next]_vars => (ChatInv /\ SessionInv)'
    BY ChatNext, SessionNext
  <1>3. SessionInv => SessionsContiguous
    BY DEF SessionInv
  <1> QED
    BY <1>1, <1>2, <1>3, PTL DEF Spec
-----------------------------------------------------------------------------
(* The budget.  What a turn was let through with still holds when its      *)
(* answer is written: nobody else held to the budget is under way, so the  *)
(* answers that count are those it was checked against.                    *)

\* The turns with an answer on record that were held to the budget.
Counted == {t \in Turns : RecordedAs(t, "full")} \ unchecked

LetThrough(t) == turn[t].pc \in {"opening", "streaming"} /\ UnderWay(t)

IdsDiffer == \A i, j \in DOMAIN log : log[i].id = log[j].id => i = j
AnswersPriced == \A i \in DOMAIN log : log[i].kind = "full" => log[i].tokens = turn[log[i].id].cost
LostAreQuiet == \A t \in Turns : turn[t].pc = "lost" => ~Saving(t)
CheckedAreAlone == \A t, u \in Turns : (t # u /\ UnderWay(t) /\ UnderWay(u)) => t \in unchecked
RoomForAnswer ==
  \A t \in Turns \ unchecked :
    (LetThrough(t) /\ ~RecordedAs(t, "full")) => Spent(Counted) < Cap

BudgetInv ==
  /\ IdsDiffer /\ AnswersPriced /\ LostAreQuiet /\ CheckedAreAlone
  /\ RoomForAnswer /\ CheckedTurnsBounded

\* What each turn costs, asked or not.
CostOf == [t \in Turns |-> turn[t].cost]

LEMMA TurnsFinite == IsFiniteSet(Turns) /\ \A ts \in SUBSET Turns : IsFiniteSet(ts)
  <1>1. IsFiniteSet(Turns)
    BY FS_Interval, ChatTurnAssumption DEF Turns
  <1> QED
    BY <1>1, FS_Subset

LEMMA SpentIsSum ==
  ASSUME NEW handlers \in [Turns -> TurnState], NEW ts \in SUBSET Turns,
         NEW cost, cost = [t \in Turns |-> handlers[t].cost]
  PROVE  /\ SumFunction([t \in ts |-> handlers[t].cost]) = SumFunctionOnSet(cost, ts)
         /\ SumFunctionOnSet(cost, ts) \in Nat
         /\ \A t \in Turns : cost[t] \in Nat
  <1> DEFINE g == [t \in ts |-> handlers[t].cost]
  <1>1. \A t \in Turns : cost[t] = handlers[t].cost /\ cost[t] \in Nat
    BY ChatTurnAssumption DEF TurnState
  <1>2. IsFiniteSet(ts) /\ \A t \in ts : g[t] = cost[t]
    BY <1>1, TurnsFinite
  <1>3. SumFunction(g) = SumFunctionOnSet(g, ts)
    BY DEF SumFunction
  <1> HIDE DEF g
  <1>4. SumFunctionOnSet(g, ts) = SumFunctionOnSet(cost, ts)
    BY <1>2, SumSame
  <1>5. SumFunctionOnSet(cost, ts) \in Nat
    BY <1>1, <1>2, SumNat
  <1> QED
    BY <1>1, <1>3, <1>4, <1>5 DEF g

LEMMA MaxCostBounds == MaxCost \in Nat /\ MaxCost > 0 /\ \A c \in Costs : c <= MaxCost
  <1>1. Costs \in SUBSET Int /\ IsFiniteSet(Costs) /\ Costs # {}
    BY ChatTurnAssumption
  <1>2. Max(Costs) \in Costs /\ \A c \in Costs : c <= Max(Costs)
    BY <1>1, Greatest
  <1>3. \A c \in Costs : c \in Nat /\ c > 0
    BY ChatTurnAssumption
  <1> QED
    BY <1>2, <1>3 DEF MaxCost

(* The answers that count are among the stored turns, each with its price. *)
LEMMA SpentIsStored ==
  ASSUME ChatTypeOK, IdsDiffer, AnswersPriced
  PROVE  Tokens(log) \in Nat /\ Spent(Counted) <= Tokens(log)
  <1> DEFINE f == [i \in DOMAIN log |-> log[i].tokens]
             A == {i \in DOMAIN log : log[i].kind = "full" /\ log[i].id \in Counted}
             h == [i \in DOMAIN log |-> log[i].id]
  <1>1. log \in Seq(Doc) /\ DOMAIN log = 1..Len(log) /\ Len(log) \in Nat
    BY DEF ChatTypeOK
  <1>2. IsFiniteSet(DOMAIN log)
    BY <1>1, FS_Interval
  <1>3. \A i \in DOMAIN log : f[i] \in Nat /\ log[i].id \in Turns
    <2>1. \A i \in DOMAIN log : log[i] \in Doc
      BY <1>1
    <2> QED
      BY <2>1 DEF Doc
  <1>4. Tokens(log) = SumFunctionOnSet(f, DOMAIN log)
    BY DEF Tokens, SumFunction
  <1>5. {h[i] : i \in A} = Counted
    <2>1. \A t \in Counted : \E i \in A : log[i].id = t
      BY DEF Counted, RecordedAs
    <2> QED
      BY <2>1
  <1>6. \A i \in A : CostOf[h[i]] = f[i]
    BY <1>3 DEF AnswersPriced, CostOf
  <1>7. \A i, j \in A : h[i] = h[j] => i = j
    BY DEF IdsDiffer
  <1>8. A \in SUBSET DOMAIN log /\ IsFiniteSet(A) /\ \A i \in A : f[i] \in Int
    BY <1>2, <1>3, FS_Subset
  <1> HIDE DEF f, h, A
  <1>9. SumFunctionOnSet(CostOf, Counted) = SumFunctionOnSet(f, A)
    <2>1. SumFunctionOnSet(CostOf, {h[i] : i \in A}) = SumFunctionOnSet(f, A)
      BY <1>6, <1>7, <1>8, SumRenamed
    <2> QED
      BY <1>5, <2>1
  <1>10. SumFunctionOnSet(f, A) <= SumFunctionOnSet(f, DOMAIN log)
    BY <1>2, <1>3, <1>8, SumOfPart
  <1>11. Spent(Counted) = SumFunctionOnSet(CostOf, Counted)
    BY SpentIsSum DEF Counted, ChatTypeOK, Spent, CostOf
  <1>12. SumFunctionOnSet(f, DOMAIN log) \in Nat
    BY <1>2, <1>3, SumNat
  <1> QED
    BY <1>4, <1>9, <1>10, <1>11, <1>12

(* A turn with an answer on record was asked.                              *)
LEMMA CountedWereAsked ==
  ASSUME ChatInv, NEW t \in Turns, Recorded(t)
  PROVE  turn[t].pc # "idle"
  <1>1. PICK i \in DOMAIN log : log[i].id = t
    BY DEF Recorded
  <1>2. log[i].kind \in Kinds
    <2>1. log[i] \in Doc
      BY DEF ChatInv, ChatTypeOK
    <2> QED
      BY <2>1 DEF Doc
  <1>3. turn[t].save[log[i].kind] # "none"
    BY <1>1, <1>2 DEF ChatInv, RecordOK, RecordedAs
  <1> QED
    BY <1>2, <1>3 DEF ChatInv, HandlerOK, NoSave

(* Nothing is stored, and no turn that was asked changes its price.        *)
LEMMA NothingStored ==
  ASSUME ChatInv, ChatInv', BudgetInv, log' = log, unchecked \subseteq unchecked',
         \A t \in Turns : turn[t].pc # "idle" => turn'[t].cost = turn[t].cost
  PROVE  /\ IdsDiffer' /\ AnswersPriced' /\ CheckedTurnsBounded'
         /\ Spent(Counted)' <= Spent(Counted)
  <1>1. IdsDiffer'
    BY DEF BudgetInv, IdsDiffer
  <1>2. \A t \in Turns : Recorded(t) => turn'[t].cost = turn[t].cost
    BY CountedWereAsked
  <1>3. AnswersPriced'
    <2>1. \A i \in DOMAIN log : log[i] \in Doc /\ Recorded(log[i].id)
      BY DEF ChatInv, ChatTypeOK, Recorded
    <2>2. \A i \in DOMAIN log : log[i].id \in Turns
      BY <2>1 DEF Doc
    <2> QED
      BY <1>2, <2>1, <2>2 DEF BudgetInv, AnswersPriced
  <1>4. Counted' \subseteq Counted /\ Counted \in SUBSET Turns
    BY DEF Counted, RecordedAs
  <1>5. \A t \in Counted : CostOf'[t] = CostOf[t]
    BY <1>2 DEF Counted, CostOf, RecordedAs, Recorded
  <1>6. turn \in [Turns -> TurnState] /\ turn' \in [Turns -> TurnState]
    BY DEF ChatInv, ChatTypeOK
  <1> DEFINE C == Counted
             D == Counted'
             f == CostOf
             g == CostOf'
  <1>7. Spent(Counted) = SumFunctionOnSet(f, C) /\ Spent(Counted) \in Nat
        /\ \A t \in Turns : f[t] \in Nat
    BY <1>4, <1>6, SpentIsSum DEF Spent, CostOf
  <1>8. Spent(Counted)' = SumFunctionOnSet(g, D) /\ Spent(Counted)' \in Nat
    <2>1. D \in SUBSET Turns /\ g = [t \in Turns |-> turn'[t].cost]
      BY <1>4 DEF CostOf
    <2>2. Spent(Counted)' = SumFunction([t \in D |-> turn'[t].cost])
      BY DEF Spent
    <2> HIDE DEF D, g
    <2> QED
      BY <1>6, <2>1, <2>2, SpentIsSum
  <1> HIDE DEF C, D, f, g
  <1>9. IsFiniteSet(C) /\ IsFiniteSet(D) /\ D \in SUBSET C
        /\ (\A t \in D : g[t] = f[t]) /\ \A t \in C : f[t] \in Nat
    BY <1>4, <1>5, <1>7, TurnsFinite DEF C, D, f, g
  <1>10. SumFunctionOnSet(g, D) = SumFunctionOnSet(f, D)
    BY <1>9, SumSame
  <1>11. SumFunctionOnSet(f, D) <= SumFunctionOnSet(f, C)
    BY <1>9, SumOfPart
  <1>12. Spent(Counted)' <= Spent(Counted)
    BY <1>7, <1>8, <1>10, <1>11
  <1>13. CheckedTurnsBounded'
    <2>1. Spent(Counted) < Cap + MaxCost
      BY DEF BudgetInv, CheckedTurnsBounded, Counted
    <2>2. Spent(Counted)' < Cap + MaxCost
      BY <1>7, <1>8, <1>12, <2>1, ChatTurnAssumption, MaxCostBounds
    <2> QED
      BY <2>2 DEF CheckedTurnsBounded, Counted
  <1> QED
    BY <1>1, <1>3, <1>12, <1>13
(* A step that stores nothing keeps the budget if it lets a turn through   *)
(* only on a budget that has room.                                         *)
LEMMA BudgetKept ==
  ASSUME ChatInv, ChatInv', BudgetInv, log' = log, unchecked \subseteq unchecked',
         \A t \in Turns : turn[t].pc # "idle" => turn'[t].cost = turn[t].cost,
         LostAreQuiet', CheckedAreAlone',
         \A t \in Turns \ unchecked' : LetThrough(t)' => LetThrough(t) \/ WithinBudget
  PROVE  BudgetInv'
  <1>1. /\ IdsDiffer' /\ AnswersPriced' /\ CheckedTurnsBounded'
        /\ Spent(Counted)' <= Spent(Counted)
    BY NothingStored
  <1>2. Spent(Counted) \in Nat /\ Spent(Counted)' \in Nat /\ Tokens(log) \in Nat
        /\ Spent(Counted) <= Tokens(log)
    <2>1. Spent(Counted) \in Nat
      BY SpentIsSum DEF Counted, ChatInv, ChatTypeOK, Spent, CostOf
    <2>2. Spent(Counted)' \in Nat
      <3> DEFINE g == CostOf'
                 D == Counted'
      <3>1. D \in SUBSET Turns /\ g = [t \in Turns |-> turn'[t].cost]
            /\ turn' \in [Turns -> TurnState]
        BY DEF Counted, CostOf, ChatInv, ChatTypeOK
      <3>2. Spent(Counted)' = SumFunction([t \in D |-> turn'[t].cost])
        BY DEF Spent
      <3> HIDE DEF D, g
      <3> QED
        BY <3>1, <3>2, SpentIsSum
    <2> QED
      BY <2>1, <2>2, SpentIsStored DEF ChatInv, BudgetInv
  <1>3. RoomForAnswer'
    <2> SUFFICES ASSUME NEW t \in Turns \ unchecked', LetThrough(t)', ~RecordedAs(t, "full")'
                 PROVE  Spent(Counted)' < Cap
      BY DEF RoomForAnswer
    <2>1. Spent(Counted) < Cap
      <3>1. CASE LetThrough(t)
        <4>1. ~RecordedAs(t, "full") /\ t \notin unchecked
          BY DEF RecordedAs
        <4> QED
          BY <3>1, <4>1 DEF BudgetInv, RoomForAnswer
      <3>2. CASE WithinBudget
        BY <1>2, <3>2, ChatTurnAssumption DEF WithinBudget
      <3> QED
        BY <3>1, <3>2
    <2> QED
      BY <1>1, <1>2, <2>1, ChatTurnAssumption
  <1> QED
    BY <1>1, <1>3 DEF BudgetInv

(* One handler that is under way moves on, and stores nothing.             *)
LEMMA HandlerBudget ==
  ASSUME ChatInv, ChatInv', BudgetInv, log' = log,
         NEW t \in Turns, UnderWay(t), \A u \in Turns \ {t} : turn'[u] = turn[u],
         turn'[t].cost = turn[t].cost, turn'[t].pc # "lost",
         unchecked \subseteq unchecked',
         t \notin unchecked' /\ LetThrough(t)' => LetThrough(t) \/ WithinBudget
  PROVE  BudgetInv'
  <1>1. \A u \in Turns : turn[u].pc # "idle" => turn'[u].cost = turn[u].cost
    OBVIOUS
  <1>2. LostAreQuiet'
    BY DEF BudgetInv, LostAreQuiet, Saving
  <1>3. \A u \in Turns : UnderWay(u)' => UnderWay(u)
    BY DEF UnderWay, Over, Saving
  <1>4. CheckedAreAlone'
    BY <1>3 DEF BudgetInv, CheckedAreAlone
  <1>5. \A u \in Turns \ unchecked' : LetThrough(u)' => LetThrough(u) \/ WithinBudget
    BY DEF LetThrough, UnderWay, Over, Saving
  <1> QED
    BY <1>1, <1>2, <1>4, <1>5, BudgetKept

(* A turn with a record being written is under way, and let through.       *)
LEMMA SavingIsUnderWay ==
  ASSUME ChatInv, LostAreQuiet, NEW t \in Turns, NEW k \in Kinds,
         turn[t].save[k] \in {"session", "write"}
  PROVE  turn[t].pc = "streaming" /\ UnderWay(t) /\ LetThrough(t)
  <1>1. turn[t] \in TurnState /\ HandlerOK(turn[t])
    BY HandlerFacts
  <1>2. Saving(t) /\ turn[t].pc # "lost"
    BY DEF Saving, LostAreQuiet
  <1>3. turn[t].up # "none"
    BY <1>1 DEF HandlerOK, NoSave
  <1>4. turn[t].pc = "streaming"
    BY <1>1, <1>2, <1>3 DEF TurnState, HandlerOK
  <1> QED
    BY <1>2, <1>4 DEF UnderWay, Over, LetThrough

LEMMA AskBudget ==
  ASSUME ChatInv, ChatInv', BudgetInv, NEW t \in Turns, Ask(t)
  PROVE  BudgetInv'
  <1>1. turn[t].pc = "idle" /\ log' = log
    BY DEF Ask
  <1>2. turn'[t].pc = "budget" /\ \A u \in Turns \ {t} : turn'[u] = turn[u]
    <2>1. PICK s \in Symbols, f \in BOOLEAN, c \in Costs :
            turn' = [turn EXCEPT ![t].pc = "budget", ![t].symbol = s, ![t].fresh = f,
                                 ![t].cost = c]
      BY DEF Ask
    <2> QED
      BY <2>1, HandlerFacts DEF TurnState
  <1> DEFINE others == {u \in Turns : UnderWay(u)}
  <1>3. unchecked' = IF others = {} THEN unchecked ELSE unchecked \cup others \cup {t}
    BY DEF Ask
  <1>4. \A u \in Turns \ {t} : UnderWay(u)' <=> UnderWay(u)
    BY <1>2 DEF UnderWay, Over, Saving
  <1>5. CheckedAreAlone'
    BY <1>3, <1>4 DEF BudgetInv, CheckedAreAlone
  <1>6. LostAreQuiet'
    BY <1>2 DEF BudgetInv, LostAreQuiet, Saving
  <1>7. \A u \in Turns : LetThrough(u)' => LetThrough(u)
    BY <1>2, <1>4 DEF LetThrough
  <1>8. unchecked \subseteq unchecked'
    BY <1>3
  <1>9. \A u \in Turns : turn[u].pc # "idle" => turn'[u].cost = turn[u].cost
    BY <1>1, <1>2
  <1> QED
    BY <1>1, <1>5, <1>6, <1>7, <1>8, <1>9, BudgetKept

LEMMA HandlersBudget ==
  ASSUME ChatInv, ChatInv', BudgetInv, NEW t \in Turns,
         \/ CheckBudget(t) \/ BudgetUnread(t) \/ Open(t)
         \/ Started(t) \/ Result(t) \/ Ended(t) \/ Broken(t) \/ HangUp(t)
         \/ \E k \in Kinds : ResolveSession(t, k) \/ SaveFails(t, k)
  PROVE  BudgetInv'
  <1>1. /\ turn[t] \in TurnState /\ DOMAIN turn = Turns /\ HandlerOK(turn[t])
        /\ LostAreQuiet /\ unchecked \subseteq Turns
    BY HandlerFacts DEF BudgetInv
  <1>2. CASE CheckBudget(t)
    <2>1. UnderWay(t) /\ log' = log /\ unchecked' = unchecked
      BY <1>2 DEF CheckBudget, UnderWay, Over, history
    <2>2. /\ turn'[t].cost = turn[t].cost /\ turn'[t].pc \in {"opening", "refused"}
          /\ turn'[t].pc = "opening" => WithinBudget
          /\ \A u \in Turns \ {t} : turn'[u] = turn[u]
      BY <1>1, <1>2 DEF CheckBudget, TurnState
    <2> QED
      BY <2>1, <2>2, HandlerBudget DEF LetThrough
  <1>3. CASE BudgetUnread(t)
    <2>1. UnderWay(t) /\ log' = log /\ unchecked' = unchecked \cup {t}
      BY <1>3 DEF BudgetUnread, UnderWay, Over
    <2>2. /\ turn'[t].cost = turn[t].cost /\ turn'[t].pc = "opening"
          /\ \A u \in Turns \ {t} : turn'[u] = turn[u]
      BY <1>1, <1>3 DEF BudgetUnread, TurnState
    <2> QED
      BY <2>1, <2>2, HandlerBudget
  <1>4. CASE Open(t)
    <2>1. UnderWay(t) /\ LetThrough(t) /\ log' = log /\ unchecked' = unchecked
      BY <1>4 DEF Open, UnderWay, Over, LetThrough, history
    <2>2. /\ turn'[t].cost = turn[t].cost /\ turn'[t].pc # "lost"
          /\ \A u \in Turns \ {t} : turn'[u] = turn[u]
      BY <1>1, <1>4 DEF Open, TurnState
    <2> QED
      BY <2>1, <2>2, HandlerBudget
  <1>5. CASE Started(t) \/ Result(t) \/ Ended(t) \/ Broken(t)
    <2>1. /\ turn[t].pc = "streaming" /\ UnderWay(t) /\ LetThrough(t)
          /\ log' = log /\ unchecked' = unchecked
      BY <1>5 DEF Started, Result, Ended, Broken, Streaming, UnderWay, Over, LetThrough, history
    <2>2. /\ turn'[t].cost = turn[t].cost /\ turn'[t].pc = turn[t].pc
          /\ \A u \in Turns \ {t} : turn'[u] = turn[u]
      BY <1>1, <1>5 DEF Started, Result, Ended, Broken, TurnState
    <2> QED
      BY <2>1, <2>2, HandlerBudget
  <1>6. CASE HangUp(t)
    <2>1. UnderWay(t) /\ log' = log /\ unchecked' = unchecked
      BY <1>6 DEF HangUp
    <2>2. turn'[t] = LeftBehind(t) /\ \A u \in Turns \ {t} : turn'[u] = turn[u]
      BY <1>1, <1>6 DEF HangUp
    <2>3. /\ LeftBehind(t).cost = turn[t].cost
          /\ LeftBehind(t).pc = IF turn[t].pc = "opening" THEN "failed" ELSE turn[t].pc
      BY <1>1 DEF LeftBehind, Aborts, TurnState
    <2>4. turn[t].pc # "lost"
      BY <2>1 DEF UnderWay, Over
    <2>5. turn'[t].pc # "lost" /\ turn'[t].cost = turn[t].cost
      BY <2>2, <2>3, <2>4
    <2>6. LetThrough(t)' => LetThrough(t)
      <3>1. LetThrough(t)' => turn'[t].pc \in {"opening", "streaming"}
        BY DEF LetThrough
      <3> QED
        BY <2>1, <2>2, <2>3, <3>1 DEF LetThrough
    <2> QED
      BY <2>1, <2>2, <2>5, <2>6, HandlerBudget
  <1>7. ASSUME NEW k \in Kinds, ResolveSession(t, k) PROVE BudgetInv'
    <2>1. turn[t].save[k] \in {"session", "write"} /\ log' = log /\ unchecked' = unchecked
      BY <1>7 DEF ResolveSession, history
    <2>2. turn[t].pc = "streaming" /\ UnderWay(t) /\ LetThrough(t)
      BY <1>1, <2>1, SavingIsUnderWay
    <2>3. /\ turn'[t].cost = turn[t].cost /\ turn'[t].pc = turn[t].pc
          /\ \A u \in Turns \ {t} : turn'[u] = turn[u]
      BY <1>1, <1>7 DEF ResolveSession, TurnState
    <2> QED
      BY <2>1, <2>2, <2>3, HandlerBudget
  <1>8. ASSUME NEW k \in Kinds, SaveFails(t, k) PROVE BudgetInv'
    <2>1. turn[t].save[k] \in {"session", "write"} /\ log' = log /\ unchecked' = unchecked
      BY <1>8 DEF SaveFails, history
    <2>2. turn[t].pc = "streaming" /\ UnderWay(t) /\ LetThrough(t)
      BY <1>1, <2>1, SavingIsUnderWay
    <2>3. /\ turn'[t].cost = turn[t].cost /\ turn'[t].pc = turn[t].pc
          /\ \A u \in Turns \ {t} : turn'[u] = turn[u]
      BY <1>1, <1>8 DEF SaveFails, AfterFailedSave, AfterSave, TurnState
    <2> QED
      BY <2>1, <2>2, <2>3, HandlerBudget
  <1> QED
    BY <1>2, <1>3, <1>4, <1>5, <1>6, <1>7, <1>8

LEMMA CrashBudget ==
  ASSUME ChatInv, ChatInv', BudgetInv, Crash
  PROVE  BudgetInv'
  <1>1. log' = log /\ unchecked' = unchecked
    BY DEF Crash, history
  <1>2. ASSUME NEW t \in Turns
        PROVE  /\ turn'[t].cost = turn[t].cost
               /\ turn'[t].pc = "lost" => ~Saving(t)'
               /\ ~UnderWay(t)'
    <2>1. turn[t] \in TurnState
      BY HandlerFacts
    <2> DEFINE up == IF turn[t].up = "running" THEN "aborted" ELSE turn[t].up
               sv == [j \in Kinds |-> IF turn[t].save[j] \in {"session", "write"}
                                      THEN "failed" ELSE turn[t].save[j]]
    <2>2. CASE UnderWay(t)
      <3>1. turn'[t] = [turn[t] EXCEPT !.pc = "lost", !.up = up, !.save = sv]
        BY <2>1, <2>2 DEF Crash, TurnState
      <3>2. \A j \in Kinds : sv[j] \notin {"session", "write"}
        OBVIOUS
      <3> HIDE DEF up, sv
      <3>3. turn'[t].pc = "lost" /\ turn'[t].save = sv /\ turn'[t].cost = turn[t].cost
        BY <2>1, <3>1 DEF TurnState
      <3> QED
        BY <3>2, <3>3 DEF Saving, UnderWay, Over
    <2>3. CASE ~UnderWay(t)
      <3>1. turn'[t] = turn[t]
        BY <2>3 DEF Crash
      <3>2. turn[t].pc = "lost" => ~Saving(t)
        BY DEF BudgetInv, LostAreQuiet
      <3> QED
        BY <2>3, <3>1, <3>2 DEF Saving, UnderWay, Over
    <2> QED
      BY <2>2, <2>3
  <1>3. LostAreQuiet' /\ CheckedAreAlone'
    BY <1>2 DEF LostAreQuiet, CheckedAreAlone
  <1>4. \A t \in Turns : ~LetThrough(t)'
    BY <1>2 DEF LetThrough
  <1> QED
    BY <1>1, <1>2, <1>3, <1>4, BudgetKept
(* A turn is stored: its answer is added to those it was checked against,  *)
(* or it is not one that counts.                                           *)
LEMMA WriteTurnBudget ==
  ASSUME ChatInv, ChatInv', BudgetInv, NEW t \in Turns, NEW k \in Kinds, WriteTurn(t, k)
  PROVE  BudgetInv'
  <1> DEFINE d == [id |-> t, symbol |-> turn[t].symbol, kind |-> k,
                   session |-> turn[t].session[k], tokens |-> Charged(t, k), at |-> clock]
             n == Len(log) + 1
  <1>1. turn[t].save[k] = "write" /\ AfterSave(t, k, "saved") /\ unchecked' = unchecked
    BY DEF WriteTurn
  <1>2. /\ turn[t] \in TurnState /\ DOMAIN turn = Turns /\ LostAreQuiet
        /\ log \in Seq(Doc) /\ turn \in [Turns -> TurnState] /\ turn' \in [Turns -> TurnState]
    BY HandlerFacts DEF BudgetInv, ChatInv, ChatTypeOK
  <1>3. turn[t].pc = "streaming" /\ UnderWay(t) /\ LetThrough(t)
    BY <1>1, <1>2, SavingIsUnderWay
  <1>4. /\ turn'[t].cost = turn[t].cost /\ turn'[t].pc = turn[t].pc
        /\ \A u \in Turns \ {t} : turn'[u] = turn[u]
    BY <1>1, <1>2 DEF AfterSave, TurnState
  <1>5. CASE Recorded(t)
    BY <1>1, <1>3, <1>4, <1>5, HandlerBudget DEF WriteTurn
  <1>6. CASE ~Recorded(t)
    <2>1. log' = Append(log, d)
      BY <1>6 DEF WriteTurn
    <2>2. d.id = t /\ d.kind = k /\ (k = "full" => d.tokens = turn[t].cost)
      BY DEF Charged
    <2> HIDE DEF d
    <2>3. /\ DOMAIN log' = DOMAIN log \cup {n} /\ n \notin DOMAIN log
          /\ \A i \in DOMAIN log : log'[i] = log[i]
          /\ log'[n] = d
      BY <1>2, <2>1
    <2> HIDE DEF n
    <2>4. \A i \in DOMAIN log : log[i].id # t
      BY <1>6 DEF Recorded
    <2>5. IdsDiffer'
      BY <2>2, <2>3, <2>4 DEF BudgetInv, IdsDiffer
    <2>6. \A u \in Turns : turn'[u].cost = turn[u].cost
      BY <1>4
    <2>7. AnswersPriced'
      <3>1. \A i \in DOMAIN log : log[i] \in Doc
        BY <1>2
      <3>2. \A i \in DOMAIN log : log[i].id \in Turns
        BY <3>1 DEF Doc
      <3> QED
        BY <2>2, <2>3, <2>6, <3>2 DEF BudgetInv, AnswersPriced
    <2>8. LostAreQuiet'
      BY <1>3, <1>4 DEF BudgetInv, LostAreQuiet, Saving
    <2>9. \A u \in Turns : UnderWay(u)' => UnderWay(u)
      BY <1>3, <1>4 DEF UnderWay, Over, Saving
    <2>10. CheckedAreAlone'
      BY <1>1, <2>9 DEF BudgetInv, CheckedAreAlone
    <2>11. \A u \in Turns : RecordedAs(u, "full")' <=> RecordedAs(u, "full") \/ (u = t /\ k = "full")
      BY <2>2, <2>3 DEF RecordedAs
    <2>12. ~RecordedAs(t, "full")
      BY <2>4 DEF RecordedAs
    <2>13. \A u \in Turns : LetThrough(u)' => LetThrough(u)
      BY <1>3, <1>4, <2>9 DEF LetThrough
    <2> DEFINE C == Counted
               D == Counted'
               f == CostOf
    <2>14. /\ CostOf' = f /\ f[t] = turn[t].cost
           /\ C \in SUBSET Turns /\ D \in SUBSET Turns /\ t \notin C
           /\ D = IF k = "full" /\ t \notin unchecked THEN C \cup {t} ELSE C
      BY <1>1, <2>6, <2>11, <2>12 DEF Counted, CostOf
    <2>15. /\ Spent(Counted) = SumFunctionOnSet(f, C) /\ Spent(Counted) \in Nat
           /\ \A u \in Turns : f[u] \in Nat
      BY <1>2, <2>14, SpentIsSum DEF Spent, CostOf
    <2>16. Spent(Counted)' = SumFunctionOnSet(f, D)
      <3>1. Spent(Counted)' = SumFunction([u \in D |-> turn'[u].cost])
        BY DEF Spent
      <3>2. f = [u \in Turns |-> turn'[u].cost]
        BY <2>6 DEF CostOf
      <3> HIDE DEF D, f
      <3> QED
        BY <1>2, <2>14, <3>1, <3>2, SpentIsSum
    <2>17. Spent(Counted) < Cap + MaxCost
      BY DEF BudgetInv, CheckedTurnsBounded, Counted
    <2> HIDE DEF C, D, f
    <2>18. CASE k = "full" /\ t \notin unchecked
      <3>1. Spent(Counted) < Cap
        BY <1>3, <2>12, <2>18 DEF BudgetInv, RoomForAnswer
      <3>2. SumFunctionOnSet(f, C \cup {t}) = SumFunctionOnSet(f, C) + f[t]
        <4>1. IsFiniteSet(C) /\ f[t] \in Int /\ \A u \in C : f[u] \in Int
          BY <2>14, <2>15, TurnsFinite
        <4> QED
          BY <2>14, <4>1, SumAdd
      <3>3. f[t] <= MaxCost /\ f[t] \in Nat
        BY <1>2, <2>14, <2>15, MaxCostBounds DEF TurnState
      <3>4. Spent(Counted)' < Cap + MaxCost
        BY <2>14, <2>15, <2>16, <2>18, <3>1, <3>2, <3>3, ChatTurnAssumption, MaxCostBounds
      <3>5. RoomForAnswer'
        <4> SUFFICES ASSUME NEW u \in Turns \ unchecked', LetThrough(u)',
                            ~RecordedAs(u, "full")'
                     PROVE  FALSE
          BY DEF RoomForAnswer
        <4>1. u # t /\ UnderWay(u) /\ u \notin unchecked
          BY <1>1, <2>11, <2>13, <2>18 DEF LetThrough
        <4> QED
          BY <1>3, <4>1 DEF BudgetInv, CheckedAreAlone
      <3>6. CheckedTurnsBounded'
        BY <3>4 DEF CheckedTurnsBounded, Counted
      <3> QED
        BY <2>5, <2>7, <2>8, <2>10, <3>5, <3>6 DEF BudgetInv
    <2>19. CASE ~(k = "full" /\ t \notin unchecked)
      <3>1. Spent(Counted)' = Spent(Counted)
        BY <2>14, <2>15, <2>16, <2>19
      <3>2. CheckedTurnsBounded'
        BY <2>17, <3>1 DEF CheckedTurnsBounded, Counted
      <3>3. RoomForAnswer'
        <4> SUFFICES ASSUME NEW u \in Turns \ unchecked', LetThrough(u)',
                            ~RecordedAs(u, "full")'
                     PROVE  Spent(Counted)' < Cap
          BY DEF RoomForAnswer
        <4>1. LetThrough(u) /\ ~RecordedAs(u, "full") /\ u \in Turns \ unchecked
          BY <1>1, <2>11, <2>13
        <4>2. Spent(Counted) < Cap
          BY <4>1 DEF BudgetInv, RoomForAnswer
        <4> QED
          BY <3>1, <4>2
      <3> QED
        BY <2>5, <2>7, <2>8, <2>10, <3>2, <3>3 DEF BudgetInv
    <2> QED
      BY <2>18, <2>19
  <1> QED
    BY <1>5, <1>6

LEMMA BudgetInit == Init => BudgetInv
  <1> SUFFICES ASSUME Init PROVE BudgetInv
    OBVIOUS
  <1>1. ChatInv
    BY ChatInit
  <1>2. log = << >> /\ DOMAIN log = {} /\ \A t \in Turns : turn[t].pc = "idle"
    BY DEF Init
  <1>3. Counted = {}
    BY <1>2 DEF Counted, RecordedAs
  <1>4. Spent({}) = 0
    <2>1. Spent({}) = SumFunctionOnSet(CostOf, {})
      BY <1>1, SpentIsSum DEF Spent, CostOf, ChatInv, ChatTypeOK
    <2> QED
      BY <2>1, SumEmpty
  <1>5. CheckedTurnsBounded
    BY <1>3, <1>4, ChatTurnAssumption, MaxCostBounds DEF CheckedTurnsBounded, Counted
  <1> QED
    BY <1>2, <1>5 DEF BudgetInv, IdsDiffer, AnswersPriced, LostAreQuiet, CheckedAreAlone,
                      UnderWay, RoomForAnswer, LetThrough

LEMMA BudgetNext == ASSUME ChatInv, BudgetInv, [Next]_vars PROVE BudgetInv'
  <1>1. ChatInv'
    BY ChatNext
  <1>2. ASSUME NEW t \in Turns,
               \/ Ask(t) \/ CheckBudget(t) \/ BudgetUnread(t) \/ Open(t)
               \/ Started(t) \/ Result(t) \/ Ended(t) \/ Broken(t) \/ HangUp(t)
               \/ SaveStep(t)
        PROVE  BudgetInv'
    BY <1>1, <1>2, AskBudget, HandlersBudget, WriteTurnBudget DEF SaveStep
  <1>3. CASE Pause \/ UNCHANGED vars
    <2>1. turn' = turn /\ log' = log /\ unchecked' = unchecked
      BY <1>3 DEF Pause, vars, chat, history
    <2>2. LostAreQuiet' /\ CheckedAreAlone'
      BY <2>1 DEF BudgetInv, LostAreQuiet, CheckedAreAlone, UnderWay, Over, Saving
    <2>3. \A t \in Turns : LetThrough(t)' => LetThrough(t)
      BY <2>1 DEF LetThrough, UnderWay, Over, Saving
    <2> QED
      BY <1>1, <2>1, <2>2, <2>3, BudgetKept
  <1>4. CASE Crash
    BY <1>1, <1>4, CrashBudget
  <1> QED
    BY <1>2, <1>3, <1>4 DEF Next

(* However many turns a user asks for, and whatever fails: the answers to  *)
(* the turns that were held to the day's budget overshoot it by less than  *)
(* one turn (chat-budget.service.ts:72-125 and the $setOnInsert of          *)
(* recordTurn, which stores a turn once).                                  *)
THEOREM BudgetHolds == Spec => []CheckedTurnsBounded
  <1>1. Init => ChatInv /\ BudgetInv
    BY ChatInit, BudgetInit
  <1>2. ChatInv /\ BudgetInv /\ [Next]_vars => (ChatInv /\ BudgetInv)'
    BY ChatNext, BudgetNext
  <1>3. BudgetInv => CheckedTurnsBounded
    BY DEF BudgetInv
  <1> QED
    BY <1>1, <1>2, <1>3, PTL DEF Spec
=============================================================================
