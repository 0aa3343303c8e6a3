------------------------------ MODULE Approval ------------------------------
(***************************************************************************)
(* A tool call that needs the user's consent: AgentToolRuntime.invoke asks *)
(* for it with a row and waits; the user decides, a change of the policy   *)
(* decides for him, the wait expires or the turn is aborted.  Every await  *)
(* ends a step.  An approval's key is its call: a call asks once.          *)
(***************************************************************************)
EXTENDS Naturals

CONSTANTS
  Calls,        \* tool calls of one turn, side by side
  Clients,      \* HTTP and socket requests being served
  MaxRequests   \* a bound of a run on those requests

VARIABLES
  policy,     \* the scope: its permission mode, whether its workspace is
              \* another than the calls were shown, whether it is open
  rows,       \* call -> its agentApproval row
  toolCalls,  \* call -> where invokeResolved stands
  aborted,    \* the turn's abort signal
  clients,    \* client -> a decide or a settings update being served
  served      \* requests so far

consentVars == <<policy, rows, toolCalls, aborted, clients, served>>

Modes     == {"confirm_required", "audit_autorun", "full_access"}
Decisions == {"approved_once", "rejected", "audit_only", "full_access_for_task"}
Consents  == Decisions \ {"rejected"}
TaskWide  == {"audit_only", "full_access_for_task"}
None      == "none"
Asking    == {"asked", "looked", "waiting"}     \* calls that have a row and no answer
NoClient  == [at |-> "idle", call |-> None, decision |-> None, held |-> FALSE, todo |-> {}, reconciles |-> FALSE]

ConsentTypeOK ==
  /\ policy \in [mode : Modes, moved : BOOLEAN, open : BOOLEAN]
  /\ rows \in [Calls -> [status : {None, "pending", "approved", "rejected", "expired",
                                   "cancelled", "resumed"},
                         decision : Decisions \cup {None}]]
  /\ toolCalls \in [Calls -> [at : {"idle", "asking", "answered", "executed", "done", "failed"} \cup Asking,
                              risk : {"medium", "high"}, answer : Decisions \cup {None},
                              late : {None, "expired", "cancelled"}]]
  /\ aborted \in BOOLEAN
  /\ clients \in [Clients -> [at : {"idle", "read", "list", "each", "resolving", "written"},
                              call : Calls \cup {None}, decision : Decisions \cup {None},
                              held : BOOLEAN, todo : SUBSET Calls, reconciles : BOOLEAN]]
  /\ served \in 0..MaxRequests

ConsentInit ==
  /\ policy = [mode |-> "confirm_required", moved |-> FALSE, open |-> TRUE]
  /\ rows = [c \in Calls |-> [status |-> None, decision |-> None]]
  /\ toolCalls \in [Calls -> {[at |-> "idle", risk |-> r, answer |-> None, late |-> None] :
                                r \in {"medium", "high"}}]
  /\ aborted = FALSE
  /\ clients = [a \in Clients |-> NoClient]
  /\ served = 0

-----------------------------------------------------------------------------
(* RuntimeActionRisk.decide, for the calls whose risk makes them ask       *)
MustAsk(mode, risk) == mode = "confirm_required" \/ (mode = "audit_autorun" /\ risk = "high")

MoveCall(c, where) == toolCalls' = [toolCalls EXCEPT ![c].at = where]
Answered(c, decision) == toolCalls' = [toolCalls EXCEPT ![c].at = "answered", ![c].answer = decision]

(* The tool call.                                                          *)
Resolve(c) ==
  /\ toolCalls[c].at = "idle"
  /\ MoveCall(c, IF MustAsk(policy.mode, toolCalls[c].risk) THEN "asking" ELSE "done")
  /\ UNCHANGED <<policy, rows, aborted, clients, served>>

Request(c) ==
  /\ toolCalls[c].at = "asking"
  /\ rows' = [rows EXCEPT ![c].status = "pending"]
  /\ MoveCall(c, "asked")
  /\ UNCHANGED <<policy, aborted, clients, served>>

(* waitForDecision reads the row, and then registers the waiter.           *)
Look(c) ==
  /\ toolCalls[c].at = "asked"
  /\ IF rows[c].decision # None THEN Answered(c, rows[c].decision) ELSE MoveCall(c, "looked")
  /\ UNCHANGED <<policy, rows, aborted, clients, served>>

Register(c) ==
  /\ toolCalls[c].at = "looked"
  /\ MoveCall(c, IF aborted THEN "failed" ELSE "waiting")
  /\ UNCHANGED <<policy, rows, aborted, clients, served>>

(* Mutant: the poller looks at the status an approval gives a row. *)
PollApproved(c) ==
  /\ toolCalls[c].at = "waiting" /\ rows[c].status = "approved"
  /\ Answered(c, rows[c].decision)
  /\ UNCHANGED <<policy, rows, aborted, clients, served>>

Poll(c) ==
  /\ toolCalls[c].at = "waiting" /\ rows[c].decision # None
  /\ Answered(c, rows[c].decision)
  /\ UNCHANGED <<policy, rows, aborted, clients, served>>

(* The timer, or the abort, settles the waiter first and the row later.    *)
GiveUp(c) ==
  /\ toolCalls[c].at = "waiting"
  /\ \E status \in {"expired"} \cup (IF aborted THEN {"cancelled"} ELSE {}) :
       toolCalls' = [toolCalls EXCEPT ![c].at = "failed", ![c].late = status]
  /\ UNCHANGED <<policy, rows, aborted, clients, served>>

(* Mutant: the update does not ask whether the row was decided meanwhile. *)
MarkGivenUpAnyway(c) ==
  /\ toolCalls[c].late # None
  /\ toolCalls' = [toolCalls EXCEPT ![c].late = None]
  /\ rows' = [rows EXCEPT ![c].status = toolCalls[c].late]
  /\ UNCHANGED <<policy, aborted, clients, served>>

MarkGivenUp(c) ==
  /\ toolCalls[c].late # None
  /\ toolCalls' = [toolCalls EXCEPT ![c].late = None]
  /\ rows' = [rows EXCEPT ![c].status = IF @ = "pending" THEN toolCalls[c].late ELSE @]
  /\ UNCHANGED <<policy, aborted, clients, served>>

(* What was approved is compared with what was asked, and the policy read  *)
(* once more for its version: a turn keeps its workspace, so that none of  *)
(* the comparisons fails here.                                             *)
Execute(c) ==
  /\ toolCalls[c].at = "answered"
  /\ MoveCall(c, IF toolCalls[c].answer = "rejected" THEN "failed" ELSE "executed")
  /\ UNCHANGED <<policy, rows, aborted, clients, served>>

MarkResumed(c) ==
  /\ toolCalls[c].at = "executed"
  /\ rows' = [rows EXCEPT ![c].status = "resumed"]
  /\ MoveCall(c, "done")
  /\ UNCHANGED <<policy, aborted, clients, served>>

-----------------------------------------------------------------------------
(* What clients do.                                                        *)
Serve(a, as) ==
  /\ served < MaxRequests /\ clients[a].at = "idle"
  /\ clients' = [clients EXCEPT ![a] = as]
  /\ served' = served + 1

Decide(a, c, decision) ==
  /\ rows[c].status = "pending"
  /\ Serve(a, [NoClient EXCEPT !.at = "read", !.call = c, !.decision = decision,
                               !.reconciles = decision \in TaskWide])
  /\ UNCHANGED <<policy, rows, toolCalls, aborted>>

(* setTaskPermission, which refuses a scope that is over; the waiter is     *)
(* looked up after it.                                                     *)
Permit(a) ==
  /\ clients[a].at = "read"
  /\ IF clients[a].reconciles /\ ~policy.open
     THEN clients' = [clients EXCEPT ![a] = NoClient] /\ UNCHANGED policy
     ELSE /\ policy' = IF ~clients[a].reconciles THEN policy
                       ELSE [policy EXCEPT !.mode = IF clients[a].decision = "audit_only"
                                                    THEN "audit_autorun" ELSE "full_access"]
          /\ clients' = [clients EXCEPT ![a].at = "resolving",
                                        ![a].held = toolCalls[clients[a].call].at = "waiting"]
  /\ UNCHANGED <<rows, toolCalls, aborted, served>>

ChangeSettings(a, mode, moved) ==
  /\ Serve(a, [NoClient EXCEPT !.at = "list", !.reconciles = TRUE])
  /\ policy' = IF policy.open THEN [policy EXCEPT !.mode = mode, !.moved = moved] ELSE policy
  /\ UNCHANGED <<rows, toolCalls, aborted>>

(* reconcilePendingForConversation: the rows are read once, the policy for *)
(* each of them.                                                           *)
List(a) ==
  /\ clients[a].at = "list"
  /\ clients' = [clients EXCEPT ![a].at = "each", ![a].todo = {c \in Calls : rows[c].status = "pending"}]
  /\ UNCHANGED <<policy, rows, toolCalls, aborted, served>>

Reconcile(a, c) ==
  LET verdict == IF policy.moved THEN "rejected"
                 ELSE IF MustAsk(policy.mode, toolCalls[c].risk) THEN None ELSE "approved_once"
      next    == [clients[a] EXCEPT !.todo = @ \ {c}]
  IN
  /\ clients[a].at = "each" /\ c \in clients[a].todo
  /\ clients' = [clients EXCEPT ![a] =
       IF ~policy.open \/ verdict = None THEN next
       ELSE [next EXCEPT !.at = "resolving", !.call = c, !.decision = verdict,
                         !.held = toolCalls[c].at = "waiting"]]
  /\ UNCHANGED <<policy, rows, toolCalls, aborted, served>>

Reconciled(a) ==
  /\ clients[a].at = "each" /\ clients[a].todo = {}
  /\ clients' = [clients EXCEPT ![a] = NoClient]
  /\ UNCHANGED <<policy, rows, toolCalls, aborted, served>>

(* resolvePendingRow: a guarded update, the row read again, and the waiter *)
(* found before the update gets the decision of the row.                   *)
StatusOf(decision) == IF decision = "rejected" THEN "rejected" ELSE "approved"

(* Mutant: the update does not ask for a pending row. *)
WriteAnyway(a) ==
  /\ clients[a].at = "resolving"
  /\ rows' = [rows EXCEPT ![clients[a].call] =
       [@ EXCEPT !.status = StatusOf(clients[a].decision), !.decision = clients[a].decision]]
  /\ clients' = [clients EXCEPT ![a].at = "written"]
  /\ UNCHANGED <<policy, toolCalls, aborted, served>>

Write(a) ==
  /\ clients[a].at = "resolving"
  /\ rows' = [rows EXCEPT ![clients[a].call] =
       IF @.status # "pending" THEN @
       ELSE [@ EXCEPT !.status = StatusOf(clients[a].decision), !.decision = clients[a].decision]]
  /\ clients' = [clients EXCEPT ![a].at = "written"]
  /\ UNCHANGED <<policy, toolCalls, aborted, served>>

Answer(a) ==
  LET c == clients[a].call IN
  /\ clients[a].at = "written"
  /\ IF clients[a].held /\ rows[c].decision # None /\ toolCalls[c].at = "waiting"
     THEN Answered(c, rows[c].decision) ELSE UNCHANGED toolCalls
  /\ clients' = [clients EXCEPT ![a] =
       IF ~@.reconciles THEN NoClient
       ELSE [NoClient EXCEPT !.at = IF clients[a].decision \in TaskWide THEN "list" ELSE "each",
                             !.todo = clients[a].todo, !.reconciles = TRUE]]
  /\ UNCHANGED <<policy, rows, aborted, served>>

(* The turn is stopped; its scope, the turn or the workflow, ends.         *)
AbortTurn == /\ ~aborted /\ aborted' = TRUE
             /\ UNCHANGED <<policy, rows, toolCalls, clients, served>>

Close == /\ policy.open /\ policy' = [policy EXCEPT !.open = FALSE]
         /\ UNCHANGED <<rows, toolCalls, aborted, clients, served>>

-----------------------------------------------------------------------------
CallStep(c) == \/ Resolve(c) \/ Request(c) \/ Look(c) \/ Register(c) \/ Poll(c)
               \/ Execute(c) \/ MarkResumed(c) \/ MarkGivenUp(c)

ConsentNext ==
  \/ \E c \in Calls : CallStep(c) \/ GiveUp(c)
  \/ \E a \in Clients :
       \/ Permit(a) \/ List(a) \/ Reconciled(a) \/ Write(a) \/ Answer(a)
       \/ \E c \in Calls : Reconcile(a, c)
       \/ \E c \in Calls, d \in Decisions : Decide(a, c, d)
       \/ \E m \in Modes, w \in BOOLEAN : ChangeSettings(a, m, w)
  \/ AbortTurn \/ Close

(* Calls go on; nobody has to decide, and no timer has to fire.            *)
ConsentSpec == ConsentInit /\ [][ConsentNext]_consentVars
ConsentFairSpec == ConsentSpec /\ \A c \in Calls : WF_consentVars(CallStep(c))

(* What a call acts on is what its row says for good: a call that was      *)
(* executed on a consent has a row that records a consent, and one that    *)
(* was refused a rejection, whatever the user, another of his clients, a   *)
(* change of the policy and the timer did in between                       *)
(* (resolvePendingRow, waitForDecision, invokeResolved).                   *)
ActsAsRecorded ==
  \A c \in Calls :
    /\ toolCalls[c].answer # None => rows[c].decision = toolCalls[c].answer
    /\ rows[c].decision \in Consents => rows[c].status \in {"approved", "resumed"}
    /\ rows[c].decision = "rejected" => rows[c].status = "rejected"

(* The first decision of a row is its last, whoever else decides; a row    *)
(* that is refused, lapsed or used up changes no more; and a call that has *)
(* run, was refused or gave up waiting is not taken up again by an answer  *)
(* that comes too late (resolvePendingRow, waitForDecision).               *)
DecisionsStay ==
  [][\A c \in Calls :
       /\ rows[c].decision # None => rows'[c].decision = rows[c].decision
       /\ rows[c].status \in {"rejected", "expired", "cancelled", "resumed"} => rows'[c] = rows[c]
       /\ toolCalls[c].at \in {"done", "failed"} => toolCalls'[c].at = toolCalls[c].at]_consentVars

(* A decision reaches the call that waits for it, the one taken while the  *)
(* call is between its look at the row and its waiter included: nothing    *)
(* but the poller finds that one (waitForDecision).                        *)
DecisionArrives ==
  \A c \in Calls : (toolCalls[c].at \in Asking /\ rows[c].decision # None) ~> toolCalls[c].at \notin Asking
=============================================================================
