------------------------------ MODULE ChatTurn ------------------------------
(***************************************************************************)
(* The live chat turn of one user: ChatStreamController.stream             *)
(* (src/src/signals/chat-stream.controller.ts), the daily token budget it  *)
(* asks first (ChatBudgetService) and the record it leaves                 *)
(* (ChatSessionsService.recordTurn).                                       *)
(*                                                                         *)
(* A turn is a handler with callbacks: after the response has started, the *)
(* upstream body's 'data', 'end' and 'error' and the response's 'close'    *)
(* arrive in any order the network produces, and the two kinds of record   *)
(* (of the finished turn, and of one the user abandoned) are written in    *)
(* the background with two awaits each.                                    *)
(*                                                                         *)
(* The agent (the signals service) is external: it may answer, stop        *)
(* without a result, break off, or be cancelled.  A turn's events are the  *)
(* two the handler looks at, turn_started (which carries the turn's id)    *)
(* and result.  Ids are minted upstream and never shared by two turns.     *)
(***************************************************************************)
EXTENDS Integers, Sequences, FiniteSets, FiniteSetsExt, Functions

CONSTANTS
  MaxTurns,      \* bound: turns the user asks for
  Symbols,       \* instruments asked about
  Costs,         \* tokens a turn may cost upstream
  Cap,           \* the user's daily cap
  MaxPauses,     \* bound: times the user is away longer than SESSION_GAP_MS
  MaxFaults,     \* bound: database calls that fail
  MaxCrashes,    \* bound: crashes of the API process
  NoSession

ASSUME ChatTurnAssumption ==
  /\ MaxTurns \in Nat /\ Cap \in Nat /\ Symbols # {}
  /\ Costs \subseteq Nat \ {0} /\ Costs # {} /\ IsFiniteSet(Costs)
  /\ MaxPauses \in Nat /\ MaxFaults \in Nat /\ MaxCrashes \in Nat
  /\ NoSession \notin Nat

VARIABLES
  turn,      \* the handler of each turn: its locals and its two streams
  log,       \* ChatTurn documents, in the order of createdAt
  clock,     \* time, in units of SESSION_GAP_MS
  faults,    \* failures used so far (bounded by MaxFaults)
  crashes,   \* crashes so far (bounded by MaxCrashes)
  unchecked, \* history: turns under way with another, or let through unread
  crossed,   \* history: turns another was recorded within, between the read of
             \* their session and their write
  unheard    \* history: turns whose reader left while the budget was being read

chat == <<turn, log>>
env == <<clock, faults, crashes>>
history == <<unchecked, crossed, unheard>>
vars == <<chat, env, history>>

\* Turns are numbered in the order in which they are asked.
Turns == 1..MaxTurns
Kinds == {"full", "cancelled"}

(* "opening" awaits the upstream response; from "streaming" on the turn    *)
(* lives in its callbacks.  "refused": over budget; "failed": answered     *)
(* with an error before the stream began.                                  *)
TurnState == [pc : {"idle", "budget", "opening", "streaming", "refused", "failed", "lost"},
              symbol : Symbols, fresh : BOOLEAN, cost : Costs,
              client : BOOLEAN,    \* the reader is still connected
              ended : BOOLEAN,     \* res.writableEnded
              up : {"none", "running", "ended", "broken", "aborted"},
              started : BOOLEAN,   \* turn_started was seen
              result : BOOLEAN,    \* result was seen
              save : [Kinds -> {"none", "session", "write", "saved", "failed"}],
              session : [Kinds -> Turns \cup {NoSession}],
              told : BOOLEAN]      \* the client was sent "recorded"
Doc == [id : Turns, symbol : Symbols, session : Turns, kind : Kinds, tokens : Nat, at : Nat]

Init ==
  /\ turn \in [Turns -> {[pc |-> "idle", symbol |-> s, fresh |-> FALSE, cost |-> c,
                 client |-> TRUE, ended |-> FALSE, up |-> "none", started |-> FALSE,
                 result |-> FALSE, save |-> [k \in Kinds |-> "none"],
                 session |-> [k \in Kinds |-> NoSession], told |-> FALSE] :
                   s \in {CHOOSE s \in Symbols : TRUE}, c \in {CHOOSE c \in Costs : TRUE}}]
  /\ log = << >> /\ clock = 0 /\ faults = 0 /\ crashes = 0
  /\ unchecked = {} /\ crossed = {} /\ unheard = {}

Saving(t) == \E k \in Kinds : turn[t].save[k] \in {"session", "write"}
(* No code of the turn runs any more, nor will.                            *)
Over(t) ==
  \/ turn[t].pc \in {"refused", "failed", "lost"}
  \/ turn[t].pc = "streaming" /\ turn[t].up # "running" /\ ~Saving(t)
UnderWay(t) == turn[t].pc # "idle" /\ ~Over(t)

-----------------------------------------------------------------------------
(* The request, the budget and the upstream call.                          *)

Ask(t) ==
  /\ turn[t].pc = "idle" /\ \A u \in Turns : u < t => turn[u].pc # "idle"
  /\ \E s \in Symbols, f \in BOOLEAN, c \in Costs :
       turn' = [turn EXCEPT ![t].pc = "budget", ![t].symbol = s, ![t].fresh = f,
                            ![t].cost = c]
  /\ unchecked' = LET others == {u \in Turns : UnderWay(u)}
                  IN IF others = {} THEN unchecked ELSE unchecked \cup others \cup {t}
  /\ UNCHANGED <<log, env, crossed, unheard>>

Tokens(docs) == SumFunction([i \in DOMAIN docs |-> docs[i].tokens])
\* Mutant (CheckedTurnsBounded): an off-by-one at the boundary.
WithinBudgetAtCap == Tokens(log) <= Cap
\* remaining > 0, with remaining = max(0, cap - tokens of the stored turns).
WithinBudget == Tokens(log) < Cap

(* spentToday and the verdict of assertWithinBudget; chatStream is called  *)
(* in the same step.                                                       *)
CheckBudget(t) ==
  /\ turn[t].pc = "budget"
  /\ turn' = [turn EXCEPT ![t].pc = IF WithinBudget THEN "opening" ELSE "refused"]
  /\ UNCHANGED <<log, env, history>>

(* "A failure to READ the budget must not block the user."                 *)
BudgetUnread(t) ==
  /\ turn[t].pc = "budget" /\ faults < MaxFaults
  /\ turn' = [turn EXCEPT ![t].pc = "opening"]
  /\ faults' = faults + 1
  /\ unchecked' = unchecked \cup {t}
  /\ UNCHANGED <<log, clock, crashes, crossed, unheard>>

(* The upstream answers with a stream, or does not: the turn then ends     *)
(* with an ordinary error response.                                        *)
Open(t) ==
  /\ turn[t].pc = "opening"
  /\ \/ turn' = [turn EXCEPT ![t].pc = "streaming", ![t].up = "running"]
     \/ turn' = [turn EXCEPT ![t].pc = "failed"]
  /\ UNCHANGED <<log, env, history>>

-----------------------------------------------------------------------------
(* The agent's events ('data'), and how its stream ends.                   *)

Streaming(t) == turn[t].pc = "streaming" /\ turn[t].up = "running"

Started(t) ==
  /\ Streaming(t) /\ ~turn[t].started
  /\ turn' = [turn EXCEPT ![t].started = TRUE]
  /\ UNCHANGED <<log, env, history>>

Result(t) ==
  /\ Streaming(t) /\ turn[t].started /\ ~turn[t].result
  /\ turn' = [turn EXCEPT ![t].result = TRUE]
  /\ UNCHANGED <<log, env, history>>

\* Mutant (StartedTurnsAreRecorded): only for a reader who is still there.
RecordsIfRead(t) == turn[t].result /\ turn[t].client
RecordsResult(t) == turn[t].result

\* 'end': finish() records the result if there is one, else closes at once.
Ended(t) ==
  /\ Streaming(t)
  /\ turn' = [turn EXCEPT ![t].up = "ended",
       ![t].save["full"] = IF RecordsResult(t) THEN "session" ELSE "none",
       ![t].ended = ~RecordsResult(t)]
  /\ UNCHANGED <<log, env, history>>

\* 'error': a last event, and the response is closed.
Broken(t) ==
  /\ Streaming(t)
  /\ turn' = [turn EXCEPT ![t].up = "broken", ![t].ended = TRUE]
  /\ UNCHANGED <<log, env, history>>

-----------------------------------------------------------------------------
(* The client hangs up ('close').                                          *)

\* Mutant (AnswerNotShadowed): only a closed response counts as finished.
AbandonedUnlessClosed(t) == turn[t].started /\ ~turn[t].ended
(* The second listener records a turn that has an id, has no result yet,   *)
(* and whose response has not been closed by the server.                   *)
Abandoned(t) == turn[t].started /\ ~turn[t].result /\ ~turn[t].ended

\* Mutant (NoReaderNoTurn): the listener is registered after the stream opened.
AbortsLate(pc) == pc = "streaming"
(* The first listener is registered once the budget has been checked.      *)
Aborts(pc) == pc \in {"opening", "streaming"}

(* A turn still running is cancelled; its body then errors, and the error  *)
(* handler closes the response.                                            *)
LeftBehind(t) ==
  [turn[t] EXCEPT
    !.client = FALSE,
    !.pc = IF turn[t].pc = "opening" /\ Aborts("opening") THEN "failed" ELSE turn[t].pc,
    !.up = IF turn[t].up = "running" /\ Aborts("streaming") THEN "aborted" ELSE turn[t].up,
    !.ended = turn[t].ended \/ (Streaming(t) /\ Aborts("streaming")),
    !.save["cancelled"] = IF turn[t].pc = "streaming" /\ Abandoned(t)
                          THEN "session" ELSE turn[t].save["cancelled"]]

HangUp(t) ==
  /\ UnderWay(t) /\ turn[t].client /\ ~turn[t].ended
  /\ turn' = [turn EXCEPT ![t] = LeftBehind(t)]
  /\ unheard' = IF turn[t].pc = "budget" THEN unheard \cup {t} ELSE unheard
  /\ UNCHANGED <<log, env, unchecked, crossed>>

-----------------------------------------------------------------------------
(* recordTurn.                                                             *)

Earlier(s) == {i \in DOMAIN log : log[i].symbol = s}
\* Mutant (SessionsContiguous): the conversation of the oldest turn.
PreviousOldest(s) == log[Min(Earlier(s))]
\* findOne({userId, symbol}).sort({createdAt: -1})
Previous(s) == log[Max(Earlier(s))]

\* An age below SESSION_GAP_MS is one within the same unit of the clock.
Continues(t) ==
  /\ ~turn[t].fresh /\ Earlier(turn[t].symbol) # {}
  /\ Previous(turn[t].symbol).at = clock

\* A new session is named after its first turn.
SessionFor(t) == IF Continues(t) THEN Previous(turn[t].symbol).session ELSE t

(* resolveSessionId.                                                       *)
ResolveSession(t, k) ==
  /\ turn[t].save[k] = "session"
  /\ turn' = [turn EXCEPT ![t].save[k] = "write",
       ![t].session[k] = SessionFor(t)]
  /\ UNCHANGED <<log, env, history>>

\* usage.total_tokens: the agent reports it with the result; a cancelled turn
\* is stored with an empty usage.
Charged(t, k) == IF k = "full" THEN turn[t].cost ELSE 0

Recorded(t) == \E i \in DOMAIN log : log[i].id = t

(* finish() then tells the client the id, and closes the response.         *)
AfterSave(t, k, outcome) ==
  turn' = [turn EXCEPT ![t].save[k] = outcome,
             ![t].told = @ \/ (k = "full" /\ outcome = "saved" /\ ~turn[t].ended),
             ![t].ended = @ \/ k = "full"]

(* findOneAndUpdate with $setOnInsert and upsert: the first record of a    *)
(* turn id stays.                                                          *)
WriteTurn(t, k) ==
  /\ turn[t].save[k] = "write"
  /\ log' = IF Recorded(t) THEN log
            ELSE Append(log, [id |-> t, symbol |-> turn[t].symbol, kind |-> k,
                              session |-> turn[t].session[k],
                              tokens |-> Charged(t, k), at |-> clock])
  /\ AfterSave(t, k, "saved")
  /\ crossed' = crossed \cup
       {u \in Turns : u # t /\ turn[u].symbol = turn[t].symbol
                      /\ \E j \in Kinds : turn[u].save[j] = "write"}
  /\ UNCHANGED <<env, unchecked, unheard>>

\* Mutant (AnswersClose): the response is left open after a failed write.
AfterFailedSaveOpen(t, k) == turn' = [turn EXCEPT ![t].save[k] = "failed"]
AfterFailedSave(t, k) == AfterSave(t, k, "failed")

(* Either await of recordTurn throws: logged, and otherwise ignored.       *)
SaveFails(t, k) ==
  /\ turn[t].save[k] \in {"session", "write"} /\ faults < MaxFaults
  /\ AfterFailedSave(t, k)
  /\ faults' = faults + 1
  /\ UNCHANGED <<log, clock, crashes, history>>

-----------------------------------------------------------------------------
\* The user is away longer than SESSION_GAP_MS, with nothing being recorded.
Pause ==
  /\ clock < MaxPauses /\ \A t \in Turns : ~UnderWay(t)
  /\ clock' = clock + 1
  /\ UNCHANGED <<chat, faults, crashes, history>>

(* The process dies: handlers, streams and pending writes are gone.        *)
Crash ==
  /\ crashes < MaxCrashes /\ \E t \in Turns : UnderWay(t)
  /\ turn' = [t \in Turns |-> IF UnderWay(t)
                THEN [turn[t] EXCEPT !.pc = "lost",
                        !.up = IF @ = "running" THEN "aborted" ELSE @,
                        !.save = [k \in Kinds |-> IF @[k] \in {"session", "write"}
                                                  THEN "failed" ELSE @[k]]]
                ELSE turn[t]]
  /\ crashes' = crashes + 1
  /\ UNCHANGED <<log, clock, faults, history>>

SaveStep(t) == \E k \in Kinds : ResolveSession(t, k) \/ WriteTurn(t, k) \/ SaveFails(t, k)

Next ==
  \/ \E t \in Turns :
       \/ Ask(t) \/ CheckBudget(t) \/ BudgetUnread(t) \/ Open(t)
       \/ Started(t) \/ Result(t) \/ Ended(t) \/ Broken(t) \/ HangUp(t)
       \/ SaveStep(t)
  \/ Pause
  \/ Crash

Spec == Init /\ [][Next]_vars

(* The awaits of recordTurn are answered or fail (driver timeouts).  The   *)
(* agent's stream has no timeout, and nothing makes the user act.          *)
FairSpec == Spec /\ \A t \in Turns : WF_vars(SaveStep(t))

-----------------------------------------------------------------------------
(* Every handler and every stored turn has its type.                       *)
ChatTypeOK ==
  /\ turn \in [Turns -> TurnState]
  /\ log \in Seq(Doc)
  /\ clock \in Nat /\ faults \in Nat /\ crashes \in Nat
  /\ unchecked \subseteq Turns /\ crossed \subseteq Turns /\ unheard \subseteq Turns

RecordedAs(t, k) == \E i \in DOMAIN log : log[i].id = t /\ log[i].kind = k

(* A turn whose answer came through is never on record as "Stopped before  *)
(* this analysis finished", whatever the order of 'end' and 'close' and of *)
(* their writes (122-142; recordTurn's $setOnInsert keeps the first), and  *)
(* the id a client is given to link a trade to names a stored answer.      *)
AnswerNotShadowed ==
  \A t \in Turns :
    /\ turn[t].result => ~RecordedAs(t, "cancelled")
    /\ turn[t].told => RecordedAs(t, "full")

(* "an abandoned turn still leaves a record" (104-106): once it is over, a *)
(* turn that had started is stored, except when its write failed, the      *)
(* agent's stream broke off or ended without a result, the process died,   *)
(* or the reader left between the result and the end of the stream.        *)
StartedTurnsAreRecorded ==
  \A t \in Turns : (turn[t].started /\ Over(t)) =>
    \/ Recorded(t)
    \/ \E k \in Kinds : turn[t].save[k] = "failed"
    \/ turn[t].up = "broken" \/ (turn[t].up = "ended" /\ ~turn[t].result)
    \/ turn[t].pc = "lost"
    \/ turn[t].up = "aborted" /\ turn[t].result

(* "The turn must not outlive the reader it is running for" (57): the      *)
(* agent works without a reader only if that reader left while the budget  *)
(* was being read, before the first listener was registered (55-68).       *)
NoReaderNoTurn ==
  \A t \in Turns : (turn[t].up = "running" /\ ~turn[t].client) => t \in unheard

\* The tokens really spent on the turns of a set.
Spent(ts) == SumFunction([t \in ts |-> turn[t].cost])
MaxCost == Max(Costs)

(* "Refuse a turn that would push the user past their day's budget"        *)
(* (chat-budget.service.ts:100): the recorded answers overshoot the cap by *)
(* less than one turn.  Turns asked for while another is under way, or     *)
(* while the budget cannot be read, are not held to it, nor are abandoned  *)
(* ones counted (139-140).                                                 *)
CheckedTurnsBounded ==
  Spent({t \in Turns : RecordedAs(t, "full")} \ unchecked) < Cap + MaxCost

\* No turn after i, up to k, was recorded out of its turn.
InOrder(i, k) ==
  \A m \in (i + 1)..k : log[m].symbol = log[i].symbol => log[m].id \notin crossed

(* "Consecutive turns about the same symbol belong to one conversation"    *)
(* (chat-sessions.service.ts:8): the turns of a session are consecutive    *)
(* among those of their symbol.  A session may be split only across a turn *)
(* that another was recorded within, between the read of its session and   *)
(* its write; whoever then joins that turn is split from the older ones    *)
(* with it.                                                                *)
SessionsContiguous ==
  \A i, k \in DOMAIN log :
    (i < k /\ log[i].session = log[k].session /\ InOrder(i, k)) =>
      \A j \in i..k : log[j].symbol = log[i].symbol => log[j].session = log[i].session

(* A response whose agent has finished is closed, even if the turn cannot  *)
(* be recorded ("a failed write is our problem", 164-165).                 *)
AnswersClose ==
  \A t \in Turns : (turn[t].up = "ended") ~> (turn[t].ended \/ turn[t].pc = "lost")

-----------------------------------------------------------------------------
(* What the source says of the turn, and a run refutes.                    *)

(* "Kept so an abandoned turn still leaves a record" (104): the reader     *)
(* left, nothing failed, the turn is over, and it is stored.               *)
AbandonedTurnLeavesRecord ==
  \A t \in Turns :
    (/\ turn[t].started /\ ~turn[t].client /\ Over(t)
     /\ turn[t].up \in {"ended", "aborted"})
      => Recorded(t)

(* "It also has to count against the daily budget, which is summed from    *)
(* stored turns" (chat-sessions.service.spec.ts:217-218): the stored turns *)
(* overshoot the cap by less than one turn, abandoned ones included.       *)
StoredTurnsBounded ==
  Spent({t \in Turns : Recorded(t)} \ unchecked) < Cap + MaxCost

=============================================================================
