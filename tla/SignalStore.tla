---------------------------- MODULE SignalStore ----------------------------
(***************************************************************************)
(* Trading signals on their way from the screener to the browsers:         *)
(* SignalsService.persistSignal (src/src/signals/signals.service.ts), with *)
(* isDuplicateSetup of eval.ts.                                            *)
(*                                                                         *)
(* The screener posts a signal, posts it again if it gets no answer, and   *)
(* restates a setup every 15 minutes for as long as it lasts.  Each post   *)
(* looks for a recent signal that says the same, inserts its own under a   *)
(* unique index, and broadcasts what it has inserted: three steps, between *)
(* which other posts run and the process may die.                          *)
(*                                                                         *)
(* A setup stands for a symbol and a direction.                            *)
(***************************************************************************)
EXTENDS Integers, Sequences

CONSTANTS
  Posts,        \* requests to POST /internal/signals
  Setups,       \* pairs of a symbol and a direction
  EntryPrices,  \* what a signal may name as its entry
  Window,       \* DEDUPE_WINDOW_MS, in ticks
  Tolerance,    \* DEDUPE_PRICE_TOLERANCE, in thousandths
  Undated,      \* generated_at of a message that carries none
  Nothing,      \* no request, or no document
  MaxClock      \* bound: ticks

(* A document.  asked and knew are history: when its post looked for       *)
(* recent signals, and how many were stored then.                          *)
Signal ==
  [setup : Setups, price : EntryPrices, at : Int, created : Int,
   asked : Int, knew : Nat]

(* A request: where it is, the document it holds, the one it has stored.   *)
PostState ==
  [pc : {"new", "inserted", "done", "dropped"}, doc : Signal \cup {Nothing}, index : Nat]

ASSUME SignalStoreAssumption ==
  /\ EntryPrices \subseteq Nat \ {0}
  /\ Window \in Nat /\ Tolerance \in Nat /\ MaxClock \in Nat
  /\ Undated \notin Int /\ Nothing \notin Signal \cup PostState

VARIABLES
  clock,        \* the time
  post,         \* each request: where it is and what it holds
  stored,       \* the Signal documents, in order of insertion
  announced     \* how often each of them was broadcast

svars == <<clock, post, stored, announced>>

SignalsInit ==
  /\ clock = 0
  /\ post = [p \in Posts |-> Nothing]
  /\ stored = <<>> /\ announced = <<>>

-----------------------------------------------------------------------------
Distance(a, b) == IF a > b THEN a - b ELSE b - a

(* isDuplicateSetup: the prior is the same idea.  The drift is relative to *)
(* the incoming price.                                                     *)
Restates(incoming, prior) ==
  /\ prior.setup = incoming.setup
  /\ Distance(incoming.at, prior.at) <= Window
  /\ Distance(prior.price, incoming.price) * 1000 <= Tolerance * incoming.price

\* Mutant (RestatementsOverlap): $gt, for $gte.
RecentAfter(setup) ==
  {i \in DOMAIN stored : stored[i].setup = setup /\ stored[i].created > clock - Window}
\* find({symbol, direction, createdAt: {$gte: since}})
Recent(setup) ==
  {i \in DOMAIN stored : stored[i].setup = setup /\ stored[i].created >= clock - Window}

IsDuplicateSetup(s) == \E i \in Recent(s.setup) : Restates(s, stored[i])

\* The unique index on (symbol, generatedAt, direction).
Indexed(s) == {i \in DOMAIN stored : stored[i].setup = s.setup /\ stored[i].at = s.at}

(* toSignalDocument: a message that is not dated is generated now.         *)
ToDocument(setup, price, generatedAt) ==
  [setup |-> setup, price |-> price,
   at |-> IF generatedAt = Undated THEN clock ELSE generatedAt,
   created |-> clock, asked |-> clock, knew |-> Len(stored)]

Moved(p, pc, doc, index) ==
  post' = [post EXCEPT ![p] = [pc |-> pc, doc |-> doc, index |-> index]]

(* The request arrives, and looks for a restatement.                       *)
Look(p) ==
  /\ post[p] = Nothing
  /\ \E setup \in Setups, price \in EntryPrices, at \in 0..clock \cup {Undated} :
       LET s == ToDocument(setup, price, at) IN
       IF IsDuplicateSetup(s) THEN Moved(p, "done", Nothing, 0) ELSE Moved(p, "new", s, 0)
  /\ UNCHANGED <<clock, stored, announced>>

At(p, pc) == post[p] # Nothing /\ post[p].pc = pc

\* Mutant (AnnouncedOnce): a duplicate key is answered with the document that
\* is there, and broadcast like a new one.
RefusedAndFound(p) ==
  /\ At(p, "new")
  /\ \E i \in Indexed(post[p].doc) : Moved(p, "inserted", Nothing, i)
  /\ UNCHANGED <<clock, stored, announced>>
(* create() fails with a duplicate key (code 11000).                       *)
Refused(p) ==
  /\ At(p, "new") /\ Indexed(post[p].doc) # {}
  /\ Moved(p, "done", Nothing, 0)
  /\ UNCHANGED <<clock, stored, announced>>

(* create() stores the document.                                           *)
Insert(p) ==
  /\ At(p, "new") /\ Indexed(post[p].doc) = {}
  /\ stored' = Append(stored, [post[p].doc EXCEPT !.created = clock])
  /\ announced' = Append(announced, 0)
  /\ Moved(p, "inserted", Nothing, Len(stored) + 1)
  /\ UNCHANGED clock

(* broadcastSignal, and the answer saved: true.                            *)
Announce(p) ==
  /\ At(p, "inserted")
  /\ announced' = [announced EXCEPT ![post[p].index] = @ + 1]
  /\ Moved(p, "done", Nothing, 0)
  /\ UNCHANGED <<clock, stored>>

(* An await fails, or the process dies: the request gets no answer.  After *)
(* an insert nobody will broadcast what it stored.                         *)
Drop(p) ==
  /\ At(p, "new") \/ At(p, "inserted")
  /\ Moved(p, "dropped", Nothing, post[p].index)
  /\ UNCHANGED <<clock, stored, announced>>

SignalsTick == clock < MaxClock /\ clock' = clock + 1 /\ UNCHANGED <<post, stored, announced>>

SignalsNext ==
  \/ \E p \in Posts : Look(p) \/ Refused(p) \/ Insert(p) \/ Announce(p) \/ Drop(p)
  \/ SignalsTick

SignalsSpec == SignalsInit /\ [][SignalsNext]_svars

-----------------------------------------------------------------------------
(* Documents and requests have their types.                                *)
SignalsTypeOK ==
  /\ clock \in Nat
  /\ post \in [Posts -> PostState \cup {Nothing}]
  /\ stored \in Seq(Signal)
  /\ announced \in Seq(Nat) /\ Len(announced) = Len(stored)

(* One idea is one signal (persistSignal 40-67): no fingerprint is ever    *)
(* stored twice, and of two stored signals that restate one another, the   *)
(* later one asked before the earlier one was stored (their requests       *)
(* overlapped), or was generated before it asked (it arrived late).  A     *)
(* retry, or the next run of a screener that posts one at a time as it     *)
(* generates, never adds a second copy to the scored sample.               *)
RestatementsOverlap ==
  \A j \in DOMAIN stored : \A i \in 1..(j - 1) :
    stored[i].setup = stored[j].setup =>
      /\ stored[i].at # stored[j].at
      /\ Restates(stored[j], stored[i]) =>
           i > stored[j].knew \/ stored[j].at < stored[j].asked

(* A stored signal is broadcast once, and by the request that stored it    *)
(* (69-72): it is silent only as long as that request is at work, or for   *)
(* good if it was dropped, because every retry is a duplicate from then    *)
(* on.                                                                     *)
AnnouncedOnce ==
  \A i \in DOMAIN stored :
    /\ announced[i] <= 1
    /\ announced[i] = 0 <=> \E p \in Posts :
         (At(p, "inserted") \/ At(p, "dropped")) /\ post[p].index = i

=============================================================================
