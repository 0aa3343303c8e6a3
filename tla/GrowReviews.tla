---------------------------- MODULE GrowReviews ----------------------------
(***************************************************************************)
(* Grow: what the agent learns from its turns.  The outbox dispatcher      *)
(* hands every finished turn to the settlement, which counts how a         *)
(* published skill version did and rolls it back when it fails too often,  *)
(* and to the observer, which may put a review; the review worker works    *)
(* reviews off and publishes new versions.  Both loops live in one process *)
(* and interleave at every await; the process may crash.                   *)
(*                                                                         *)
(* Every turn here used the one version under observation; the outcome of  *)
(* one that was cancelled is "none", and counts for nothing.  A crash, or  *)
(* a database that refuses even the word of a failure, leaves claims       *)
(* behind, which a later tick takes over when they have run out: the time  *)
(* that takes, and the backoff, are not modelled, nor a claim that runs    *)
(* out beside a tick still at work on it.                                  *)
(***************************************************************************)
EXTENDS Naturals, FiniteSets

CONSTANTS
  Events,         \* the agent.turn.terminal events in the outbox
  MaxAttempts,    \* deliveries of an event, and runs of a review (5 in the code)
  MaxFaults       \* a bound of a run on crashes and failures from outside

VARIABLES
  outbox,       \* event -> its row, with how the skill version did in the turn
  effect,       \* the growEffectObservation of the version
  receipts,     \* growEffectEventReceipt: the events that were counted
  draft,        \* who has a DRAFT version of the skill
  dispatcher,   \* the dispatcher's tick
  reviews,      \* event -> the review it led to
  worker,       \* the worker's tick
  faults,       \* crashes and failures so far
  history       \* what the count began with, and the faults between the
                \* two writes of recordUsage

growVars == <<outbox, effect, receipts, draft, dispatcher, reviews, worker, faults, history>>

AtRest == [at |-> "next", of |-> "none", todo |-> {}, rolledBack |-> FALSE]
Awake(loop, e, where) == [loop EXCEPT !.at = where, !.of = e]
Idle(loop) == loop.at = "next" /\ loop.todo = {}
Next1(loop) == [AtRest EXCEPT !.todo = loop.todo \ {loop.of}]

GrowTypeOK ==
  /\ outbox \in [Events -> [status : {"pending", "claimed", "delivered", "dead"},
                            attempts : 0..(MaxAttempts + MaxFaults),
                            outcome : {"completed", "failed", "load_failed", "none"}]]
  /\ effect \in [total : Nat, negative : Nat, inRow : Nat, previous : BOOLEAN,
                 closed : BOOLEAN, rolledBack : BOOLEAN]
  /\ receipts \in SUBSET Events
  /\ draft \in {"none", "rollback", "review"}
  /\ dispatcher.at \in {"next", "settle", "restore", "publish", "save", "mark", "pass", "observe", "deliver"}
  /\ reviews \in [Events -> [status : {"none", "PENDING", "RUNNING", "COMPLETED", "SKIPPED", "FAILED"},
                             attempts : 0..(MaxAttempts + MaxFaults)]]
  /\ worker.at \in {"next", "focus", "draft", "publish", "skip", "save", "failed"}
  /\ dispatcher.todo \in SUBSET Events /\ worker.todo \in SUBSET Events
  /\ faults \in 0..MaxFaults /\ history \in [before : Nat, torn : 0..faults]

(* Of the version, two failures or nine good turns have been counted; it   *)
(* follows a previous one, or is the skill's first.                        *)
Seen(total, negative, previous) ==
  [total |-> total, negative |-> negative, inRow |-> negative, previous |-> previous,
   closed |-> FALSE, rolledBack |-> FALSE]

GrowInit ==
  /\ outbox \in [Events -> {[status |-> "pending", attempts |-> 0, outcome |-> o] :
                              o \in {"completed", "failed", "load_failed", "none"}}]
  /\ effect \in {Seen(2, 2, TRUE), Seen(2, 2, FALSE), Seen(9, 0, TRUE)}
  /\ receipts = {} /\ draft = "none"
  /\ dispatcher = AtRest /\ worker = AtRest
  /\ reviews = [e \in Events |-> [status |-> "none", attempts |-> 0]]
  /\ faults = 0 /\ history = [before |-> effect.total, torn |-> 0]

-----------------------------------------------------------------------------
(* GrowEffectTracker: what an outcome makes of the observation             *)
Counted(e) ==
  LET bad == outbox[e].outcome # "completed" IN
  [effect EXCEPT !.total = @ + 1, !.negative = @ + (IF bad THEN 1 ELSE 0),
                 !.inRow = IF bad THEN @ + 1 ELSE 0]

ShouldRollback(e) ==
  LET next == Counted(e) IN
  /\ effect.previous
  /\ \/ outbox[e].outcome = "load_failed"
     \/ next.inRow >= 3
     \/ next.total >= 5 /\ 2 * next.negative > next.total

(* The dispatcher: claim, then deliver one row after the other.            *)
ClaimEvents ==
  LET claimable == {e \in Events : outbox[e].status \in {"pending", "claimed"}} IN
  /\ Idle(dispatcher) /\ claimable # {}
  /\ outbox' = [e \in Events |-> IF e \notin claimable THEN outbox[e]
                  ELSE [outbox[e] EXCEPT !.status = "claimed", !.attempts = @ + 1]]
  /\ dispatcher' = [dispatcher EXCEPT !.todo = claimable]
  /\ UNCHANGED <<effect, receipts, draft, reviews, worker, faults, history>>

Begin(e) ==
  /\ dispatcher.at = "next" /\ e \in dispatcher.todo
  /\ dispatcher' = Awake(dispatcher, e, "settle")
  /\ UNCHANGED <<outbox, effect, receipts, draft, reviews, worker, faults, history>>

(* Mutant: the receipt is not looked up. *)
SettleUnread(e) ==
  /\ dispatcher.at = "settle"
  /\ dispatcher' = [dispatcher EXCEPT !.at =
       IF outbox[e].outcome = "none" THEN "observe" ELSE IF effect.closed THEN "pass"
       ELSE IF ShouldRollback(e) THEN "restore" ELSE "save"]
  /\ UNCHANGED <<outbox, effect, receipts, draft, reviews, worker, faults, history>>

(* recordUsage, which is not called without an outcome: an event with a    *)
(* receipt is not counted; a closed observation takes the receipt only.    *)
Settle(e) ==
  /\ dispatcher.at = "settle"
  /\ dispatcher' = [dispatcher EXCEPT !.at =
       IF e \in receipts \/ outbox[e].outcome = "none" THEN "observe"
       ELSE IF effect.closed THEN "pass"
       ELSE IF ShouldRollback(e) THEN "restore" ELSE "save"]
  /\ UNCHANGED <<outbox, effect, receipts, draft, reviews, worker, faults, history>>

(* The rollback clones the previous version into a draft and publishes it. *)
Restore(e) ==
  /\ dispatcher.at = "restore" /\ draft = "none"
  /\ draft' = "rollback"
  /\ dispatcher' = [dispatcher EXCEPT !.at = "publish"]
  /\ UNCHANGED <<outbox, effect, receipts, reviews, worker, faults, history>>

PublishRestored(e) ==
  /\ dispatcher.at = "publish"
  /\ draft' = "none"
  /\ dispatcher' = [dispatcher EXCEPT !.at = "save", !.rolledBack = TRUE]
  /\ UNCHANGED <<outbox, effect, receipts, reviews, worker, faults, history>>

Save(e) ==
  /\ dispatcher.at = "save"
  /\ effect' = [Counted(e) EXCEPT !.rolledBack = dispatcher.rolledBack,
                                  !.closed = dispatcher.rolledBack \/ Counted(e).total >= 10]
  /\ dispatcher' = [dispatcher EXCEPT !.at = "mark"]
  /\ UNCHANGED <<outbox, receipts, draft, reviews, worker, faults, history>>

Mark(e) ==
  /\ dispatcher.at \in {"mark", "pass"}
  /\ receipts' = receipts \cup {e}
  /\ dispatcher' = [dispatcher EXCEPT !.at = "observe"]
  /\ UNCHANGED <<outbox, effect, draft, reviews, worker, faults, history>>

(* Mutant: the observer does not look for the review of the event. *)
ObserveAgain(e) ==
  /\ dispatcher.at = "observe"
  /\ reviews' \in {reviews, [reviews EXCEPT ![e].status = "PENDING"]}
  /\ dispatcher' = [dispatcher EXCEPT !.at = "deliver"]
  /\ UNCHANGED <<outbox, effect, receipts, draft, worker, faults, history>>

(* The observer leaves an event alone that has led to a review; what makes *)
(* it put one is not modelled.                                             *)
Observe(e) ==
  /\ dispatcher.at = "observe"
  /\ reviews' \in {reviews} \cup (IF reviews[e].status # "none" THEN {}
                                  ELSE {[reviews EXCEPT ![e].status = "PENDING"]})
  /\ dispatcher' = [dispatcher EXCEPT !.at = "deliver"]
  /\ UNCHANGED <<outbox, effect, receipts, draft, worker, faults, history>>

Deliver(e) ==
  /\ dispatcher.at = "deliver"
  /\ outbox' = [outbox EXCEPT ![e].status = "delivered"]
  /\ dispatcher' = Next1(dispatcher)
  /\ UNCHANGED <<effect, receipts, draft, reviews, worker, faults, history>>

(* Any of these may throw; restoring does when the skill has a draft.      *)
Fault == faults < MaxFaults /\ faults' = faults + 1
Tear == history' = IF dispatcher.at = "mark" THEN [history EXCEPT !.torn = @ + 1] ELSE history

DeliveryFails(e) ==
  /\ dispatcher.at # "next"
  /\ IF dispatcher.at = "restore" /\ draft # "none" THEN UNCHANGED faults ELSE Fault
  /\ outbox' = [outbox EXCEPT ![e].status =
                  IF outbox[e].attempts >= MaxAttempts THEN "dead" ELSE "pending"]
  /\ dispatcher' = Next1(dispatcher)
  /\ Tear
  /\ UNCHANGED <<effect, receipts, draft, reviews, worker>>

(* The row that says so may fail to be written too: it stays claimed.      *)
LeaveClaimed(e) ==
  /\ dispatcher.at # "next"
  /\ Fault
  /\ dispatcher' = Next1(dispatcher)
  /\ Tear
  /\ UNCHANGED <<outbox, effect, receipts, draft, reviews, worker>>

-----------------------------------------------------------------------------
(* The review worker.                                                      *)
PendingOnly(e) == reviews[e].status = "PENDING"     \* mutant: a lost run is not claimed again
Claimable(e) == reviews[e].status \in {"PENDING", "RUNNING"}

ClaimReviews ==
  LET claimable == {e \in Events : Claimable(e)} IN
  /\ Idle(worker) /\ claimable # {}
  /\ reviews' = [e \in Events |-> IF e \in claimable THEN [reviews[e] EXCEPT !.status = "RUNNING"]
                                  ELSE reviews[e]]
  /\ worker' = [worker EXCEPT !.todo = claimable]
  /\ UNCHANGED <<outbox, effect, receipts, draft, dispatcher, faults, history>>

Start(e) ==
  /\ worker.at = "next" /\ e \in worker.todo
  /\ reviews' = [reviews EXCEPT ![e].attempts = @ + 1]
  /\ worker' = Awake(worker, e, "focus")
  /\ UNCHANGED <<outbox, effect, receipts, draft, dispatcher, faults, history>>

(* The focus agent finds nothing to do, or a new version to write.         *)
Focus(e) ==
  /\ worker.at = "focus"
  /\ worker' \in {[worker EXCEPT !.at = "skip"], [worker EXCEPT !.at = "draft"]}
  /\ UNCHANGED <<outbox, effect, receipts, draft, dispatcher, reviews, faults, history>>

Draft(e) ==
  /\ worker.at = "draft" /\ draft = "none"
  /\ draft' = "review"
  /\ worker' = [worker EXCEPT !.at = "publish"]
  /\ UNCHANGED <<outbox, effect, receipts, dispatcher, reviews, faults, history>>

(* Published, or refused by the validation: the draft is one no more.      *)
PublishDraft(e) ==
  /\ worker.at = "publish"
  /\ draft' = "none"
  /\ worker' = [worker EXCEPT !.at = "save"]
  /\ UNCHANGED <<outbox, effect, receipts, dispatcher, reviews, faults, history>>

Conclude(e) ==
  /\ worker.at \in {"skip", "save"}
  /\ reviews' = [reviews EXCEPT ![e].status = IF worker.at = "skip" THEN "SKIPPED" ELSE "COMPLETED"]
  /\ worker' = Next1(worker)
  /\ UNCHANGED <<outbox, effect, receipts, draft, dispatcher, faults, history>>

ReviewFails(e) ==
  /\ worker.at \in {"focus", "draft", "publish", "skip", "save"}
  /\ IF worker.at = "draft" /\ draft # "none" THEN UNCHANGED faults ELSE Fault
  /\ reviews' = [reviews EXCEPT ![e].status = "FAILED"]
  /\ worker' = [worker EXCEPT !.at = "failed"]
  /\ UNCHANGED <<outbox, effect, receipts, draft, dispatcher, history>>

(* Mutant: the attempts are not counted against the limit. *)
RetryForEver(e) ==
  /\ worker.at = "failed"
  /\ reviews' \in {reviews, [reviews EXCEPT ![e].status = "PENDING"]}
  /\ worker' = Next1(worker)
  /\ UNCHANGED <<outbox, effect, receipts, draft, dispatcher, faults, history>>

(* A failure that may pass is tried again, and the others are not.         *)
Retry(e) ==
  /\ worker.at = "failed"
  /\ reviews' \in {reviews} \cup (IF reviews[e].attempts >= MaxAttempts THEN {}
                                  ELSE {[reviews EXCEPT ![e].status = "PENDING"]})
  /\ worker' = Next1(worker)
  /\ UNCHANGED <<outbox, effect, receipts, draft, dispatcher, faults, history>>

Crash ==
  /\ Fault
  /\ dispatcher' = AtRest /\ worker' = AtRest
  /\ Tear
  /\ UNCHANGED <<outbox, effect, receipts, draft, reviews>>

-----------------------------------------------------------------------------
DispatcherStep ==
  \/ ClaimEvents
  \/ \E e \in dispatcher.todo : Begin(e)
  \/ LET e == dispatcher.of IN
     \/ Settle(e) \/ Restore(e) \/ PublishRestored(e) \/ Save(e) \/ Mark(e) \/ Observe(e) \/ Deliver(e)
     \/ DeliveryFails(e) \/ LeaveClaimed(e)

WorkerStep ==
  \/ ClaimReviews
  \/ \E e \in worker.todo : Start(e)
  \/ LET e == worker.of IN
     \/ Focus(e) \/ Draft(e) \/ PublishDraft(e) \/ Conclude(e) \/ ReviewFails(e) \/ Retry(e)

GrowNext == DispatcherStep \/ WorkerStep \/ Crash
GrowSpec == GrowInit /\ [][GrowNext]_growVars

(* The timers of both loops go off again and again.                        *)
GrowFairSpec == GrowSpec /\ WF_growVars(DispatcherStep) /\ WF_growVars(WorkerStep)

-----------------------------------------------------------------------------
(* What the rollback decides on is what happened: an event that is         *)
(* delivered has its receipt, or had no outcome; an observation that is    *)
(* open has counted at least the events with a receipt, and none has       *)
(* counted more than those and one for each time it was cut off between    *)
(* the count and the receipt                                               *)
(* (GrowSkillUsageSettlement.settle, GrowEffectTracker.recordUsage).       *)
UsesCounted ==
  LET counted == effect.total - history.before
      written == Cardinality(receipts)
  IN
  /\ {e \in Events : outbox[e].status = "delivered" /\ outbox[e].outcome # "none"} \subseteq receipts
  /\ ~effect.closed => counted >= written
  /\ counted <= written + history.torn + (IF dispatcher.at = "mark" THEN 1 ELSE 0)

(* The outbox and the reviews as job tables                                *)
Deliveries == INSTANCE LeasedJobs WITH Jobs <- Events,
  job <- [e \in Events |-> CASE outbox[e].status = "pending"   -> "waiting"
                             [] outbox[e].status = "claimed"   -> "taken"
                             [] outbox[e].status = "delivered" -> "done"
                             [] OTHER                          -> "dead"]

Reviews == INSTANCE LeasedJobs WITH Jobs <- Events,
  job <- [e \in Events |-> CASE reviews[e].status = "none"    -> "none"
                             [] reviews[e].status = "PENDING" -> "waiting"
                             [] reviews[e].status \in {"COMPLETED", "SKIPPED"} -> "done"
                             [] reviews[e].status = "FAILED" /\ ~(worker.at = "failed" /\ worker.of = e)
                                                              -> "dead"
                             [] OTHER                         -> "taken"]

(* An event that was delivered or given up is not delivered again, and a   *)
(* review that is over is not run or put again, whatever was lost between  *)
(* the writes of a delivery (GrowOutboxDispatcher.deliver,                 *)
(* GrowObserver.observe, GrowReviewWorker.process).                        *)
ImplementsJobs == Deliveries!JobSpec /\ Reviews!JobSpec

(* A review is concluded in the end, its runs failing and crashing, and    *)
(* the skill's one draft taken by another (claimPending, process).         *)
EveryReviewEnds == Reviews!EveryJobEnds
=============================================================================
