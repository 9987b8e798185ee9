----------------------------- MODULE SpendCaps -----------------------------
(***************************************************************************)
(* Who may spend how much on the agent in a day: the check of              *)
(* ChatBudgetService (src/src/chat/chat-budget.service.ts) and the page    *)
(* from which an admin watches and caps users, AdminService                *)
(* (src/src/admin/admin.service.ts).  The two read the same documents, in  *)
(* code of their own.                                                      *)
(*                                                                         *)
(* A check reads the user's spend of the day and the user's cap, side by   *)
(* side; meanwhile turns are recorded, caps set, and midnight passes.      *)
(* Either read may fail.                                                   *)
(***************************************************************************)
EXTENDS Integers, FiniteSets

CONSTANTS
  Users, Checks,   \* users; requests for a turn
  Caps,            \* caps an admin may set; 0 cuts a user off
  DefaultCap,      \* CHAT_DAILY_TOKEN_CAP
  NoOverride,      \* no dailyTokenCapOverride
  NoCheck,         \* a request that is not under way
  Unread,          \* a read whose answer has not come
  Failed,          \* a read that failed
  TurnCosts,       \* tokens of a turn; 0 if its usage was not recorded
  MaxTurns,        \* bound: turns of a user in a day
  MaxDay           \* bound: days

ASSUME SpendCapsAssumption ==
  /\ Caps \subseteq Nat /\ DefaultCap \in Nat \ {0} /\ TurnCosts \subseteq Nat
  /\ {NoOverride, Unread, Failed} \cap Nat = {} /\ Unread # Failed
  /\ MaxTurns \in Nat /\ MaxDay \in Nat

VARIABLES
  today,      \* the day, from midnight IST
  override,   \* dailyTokenCapOverride of each user
  spent,      \* the ChatTurn documents: tokens and turns of each user and day
  check       \* each request: its check, and whether it passed

bvars == <<today, override, spent, check>>

NoTurns == [tokens |-> 0, turns |-> 0]

SpendInit ==
  /\ today = 0
  /\ override = [u \in Users |-> NoOverride]
  /\ spent = [u \in Users |-> [d \in 0..MaxDay |-> NoTurns]]
  /\ check = [c \in Checks |-> NoCheck]

Left(cap, tokens) == IF cap > tokens THEN cap - tokens ELSE 0

-----------------------------------------------------------------------------
(* The check.                                                              *)

UnderCheck == {c \in Checks : check[c] # NoCheck}

(* spentToday begins: both reads are issued, for the day that it is.  The  *)
(* check is steady until something it may have read changes.               *)
Begin(c) ==
  /\ c \notin UnderCheck
  /\ \E u \in Users :
       check' = [check EXCEPT ![c] =
         [user |-> u, day |-> today, tokens |-> Unread, cap |-> Unread,
          steady |-> TRUE, passed |-> FALSE]]
  /\ UNCHANGED <<today, override, spent>>

(* The sum over the turns since midnight.                                  *)
ReadSpend(c) ==
  /\ c \in UnderCheck /\ check[c].tokens = Unread
  /\ \E tokens \in {spent[check[c].user][check[c].day].tokens, Failed} :
       check' = [check EXCEPT ![c].tokens = tokens]
  /\ UNCHANGED <<today, override, spent>>

\* Mutant (GateAgreesWithAdmin): the override is tested for truth, and 0 is false.
CapUnlessZero(u) == IF override[u] \in {NoOverride, 0} THEN DefaultCap ELSE override[u]
\* capFor, if the user can be read.
CapOf(u) == IF override[u] = NoOverride THEN DefaultCap ELSE override[u]

(* capFor.  A failed lookup falls back to the default.                     *)
ReadCap(c) ==
  /\ c \in UnderCheck /\ check[c].cap = Unread
  /\ \/ check' = [check EXCEPT ![c].cap = CapOf(check[c].user)]
     \/ check' = [check EXCEPT ![c].cap = DefaultCap, ![c].steady = FALSE]
  /\ UNCHANGED <<today, override, spent>>

AnswersIn(c) ==
  c \in UnderCheck /\ ~check[c].passed /\ check[c].tokens # Unread /\ check[c].cap # Unread

(* assertWithinBudget: the turn may run.  If the spend could not be read   *)
(* it may.                                                                 *)
Admits(c) == check[c].tokens # Failed => Left(check[c].cap, check[c].tokens) > 0

\* Something a check of u may have read has changed.
Unsettled(u) ==
  [c \in Checks |->
    IF c \in UnderCheck /\ check[c].user = u THEN [check[c] EXCEPT !.steady = FALSE]
    ELSE check[c]]

Admit(c) ==
  /\ AnswersIn(c) /\ Admits(c)
  /\ check' = [check EXCEPT ![c].passed = TRUE]
  /\ UNCHANGED <<today, override, spent>>

Refuse(c) ==
  /\ AnswersIn(c) /\ ~Admits(c)
  /\ check' = [check EXCEPT ![c] = NoCheck]
  /\ UNCHANGED <<today, override, spent>>

(* The turn that was admitted is recorded, on the day that it is by then.  *)
RecordTurn(c) ==
  /\ c \in UnderCheck /\ check[c].passed
  /\ LET u == check[c].user IN
     /\ spent[u][today].turns < MaxTurns
     /\ \E cost \in TurnCosts :
          spent' = [spent EXCEPT ![u][today] =
                      [tokens |-> @.tokens + cost, turns |-> @.turns + 1]]
     /\ check' = [Unsettled(u) EXCEPT ![c] = NoCheck]
  /\ UNCHANGED <<today, override>>

(* Or it never is: the agent failed, or the record did.                    *)
LoseTurn(c) ==
  /\ c \in UnderCheck /\ check[c].passed
  /\ check' = [check EXCEPT ![c] = NoCheck]
  /\ UNCHANGED <<today, override, spent>>

-----------------------------------------------------------------------------
(* The admin's page.                                                       *)

(* usageToday: the row of a user, and the row that setCap answers.         *)
UsageRow(u) ==
  LET usage == spent[u][today]
      cap == IF override[u] \in Nat THEN override[u] ELSE DefaultCap
  IN  [tokensToday |-> usage.tokens, turnsToday |-> usage.turns,
       cap |-> cap, remaining |-> Left(cap, usage.tokens)]

(* setCap: null clears the override, 0 is a cap like any other.            *)
SetCap(u) ==
  /\ \E cap \in Caps \cup {NoOverride} :
       cap # override[u] /\ override' = [override EXCEPT ![u] = cap]
  /\ check' = Unsettled(u)
  /\ UNCHANGED <<today, spent>>

\* dayStart() moves on.
Midnight ==
  /\ today < MaxDay /\ today' = today + 1
  /\ check' = [c \in Checks |->
       IF c \in UnderCheck THEN [check[c] EXCEPT !.steady = FALSE] ELSE NoCheck]
  /\ UNCHANGED <<override, spent>>

SpendNext ==
  \/ \E c \in Checks : Begin(c) \/ ReadSpend(c) \/ ReadCap(c) \/ Admit(c) \/ Refuse(c)
                       \/ RecordTurn(c) \/ LoseTurn(c)
  \/ \E u \in Users : SetCap(u)
  \/ Midnight

SpendSpec == SpendInit /\ [][SpendNext]_bvars

-----------------------------------------------------------------------------
CheckState ==
  [user : Users, day : 0..MaxDay, tokens : Nat \cup {Unread, Failed},
   cap : Nat \cup {Unread}, steady : BOOLEAN, passed : BOOLEAN]

(* Caps, turns and checks have their types.                                *)
SpendTypeOK ==
  /\ today \in 0..MaxDay
  /\ override \in [Users -> Caps \cup {NoOverride}]
  /\ spent \in [Users -> [0..MaxDay -> [tokens : Nat, turns : 0..MaxTurns]]]
  /\ check \in [Checks -> CheckState \cup {NoCheck}]

(* "No parallel accounting to keep in sync" (admin.service.ts 14-15): the  *)
(* page and the check agree.  A check whose reads both worked, while       *)
(* nothing of that user changed and no midnight passed, admits the turn    *)
(* exactly if the admin's page shows the user with tokens remaining; so a  *)
(* user with cap 0 is cut off, and one whose cap is raised or cleared, or  *)
(* whose day has begun, is let in.  Otherwise its verdict may be out of    *)
(* date, and a failed lookup lets in even a user who was cut off.          *)
GateAgreesWithAdmin ==
  \A c \in UnderCheck :
    AnswersIn(c) /\ check[c].steady /\ check[c].tokens # Failed =>
      (Admits(c) <=> UsageRow(check[c].user).remaining > 0)

=============================================================================
