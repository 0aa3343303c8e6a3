------------------------------ MODULE ChatTurn ------------------------------
(***************************************************************************)
(* The turns of one conversation, end to end: clients submit, steer, stop  *)
(* and recycle; the orchestrator drains the queue and resumes; one         *)
(* executor runs the claimed turn through message creation, the agent loop *)
(* and finalization; the process crashes and its recovery runs beside live *)
(* traffic.                                                                *)
(*                                                                         *)
(* Durable state survives a crash, the rest does not.  Each action is what *)
(* the code does between two awaits that matter: one transaction or one    *)
(* guarded update, with the synchronous code around it.  The inside of the *)
(* agent loop (budgets, input order, retries) is module AgentTurn; here it *)
(* is reduced to its checkpoints, its tool batches and how it ends.        *)
(***************************************************************************)
EXTENDS ChatTurnRequests, FiniteSets

CONSTANTS
  Nobody,                                    \* no request: a value outside Requests
  MaxCrashes, MaxStops, MaxSteers, MaxRecycles, MaxBatches     \* bounds of a run

ASSUME NobodyAssumption == Nobody \notin Requests
ASSUME BoundsAssumption ==
  /\ MaxCrashes \in Nat /\ MaxStops \in Nat /\ MaxSteers \in Nat
  /\ MaxRecycles \in Nat /\ MaxBatches \in Nat

VARIABLES
  \* durable
  turn,         \* status of the AgentTurn row of the request's trace
  phase,        \* phase of its trajectory checkpoint
  message,      \* the turn's messages: none, the user's only, or the assistant's state
  pending,      \* requests with an accepted, unconsumed user input
  dispatched,   \* tool batches whose side effects were let go (history)
  observed,     \* tool batches whose observations are in the checkpoint
  \* volatile
  exec,         \* the execution registry entry and where executeRequest stands
  claims,       \* claimed requests about to enter executeRequest
  drain,        \* a drain of the queue is scheduled
  wake,         \* a call of resumeWaitingUser is under way
  resuming,     \* requests that call has found ready to resume
  stop,         \* the stop handler
  recovery,     \* the restart recovery
  spent         \* how much of each bound is used

durable  == <<turn, phase, message, pending, dispatched, observed>>
volatile == <<exec, claims, drain, wake, resuming, stop, recovery>>
vars     == <<queueVars, durable, volatile, spent>>

TurnTerminal == {"succeeded", "partial", "failed", "cancelled"}
TurnStatus   == {"none", "running", "waiting_user_input", "completing"} \cup TurnTerminal
Phase        == {"none", "ready", "executing_tools", "waiting_user", "terminal"}
Settled      == {"finished", "failed", "cancelled"}
MessageState == {"none", "user", "unfinished"} \cup Settled
Stage == {"idle", "user", "shell", "anchor", "announce", "open", "execute", "restore",
          "iterate", "model", "dispatch", "observe", "ask", "commitPause", "markWaiting",
          "result", "complete", "finalize", "report",
          "agentCatch", "turnCatch", "requestCatch", "finish"}

Execution == [req : Requests \cup {Nobody}, resume : BOOLEAN, at : Stage,
              aborted : BOOLEAN, outcome : TurnTerminal \cup {"none"}, settled : BOOLEAN]
Claim     == [req : Requests, resume : BOOLEAN]
Item      == [req : Requests, status : {"STARTING", "RUNNING"}, anchored : BOOLEAN]
Bounds    == [crashes : Nat, stops : Nat, steers : Nat, recycles : Nat]

NewExecution(r, resume) ==
  [req |-> r, resume |-> resume, at |-> "user", aborted |-> FALSE,
   outcome |-> "none", settled |-> FALSE]
IdleExecution == [NewExecution(Nobody, FALSE) EXCEPT !.at = "idle"]
IdleStop      == [at |-> "idle", req |-> Nobody, anchored |-> FALSE]
NoRecovery    == [at |-> "done", list |-> {}, req |-> Nobody, anchored |-> FALSE,
                  resume |-> FALSE, cancelling |-> {}, anchors |-> {}]

TypeOK ==
  /\ QueueTypeOK
  /\ turn \in [Requests -> TurnStatus]
  /\ phase \in [Requests -> Phase]
  /\ message \in [Requests -> MessageState]
  /\ pending \in SUBSET Requests
  /\ dispatched \in [Requests -> Nat] /\ observed \in [Requests -> Nat]
  /\ exec \in Execution
  /\ claims \in SUBSET Claim
  /\ drain \in BOOLEAN /\ wake \in BOOLEAN
  /\ resuming \in SUBSET Requests
  /\ stop \in [at : {"idle", "mark", "signal", "cancelTurn", "commit", "end"},
               req : Requests \cup {Nobody}, anchored : BOOLEAN]
  /\ recovery \in [at : {"snapshot", "each", "claim", "launch", "fail", "cancel",
                         "wake", "drain", "done"},
                   list : SUBSET Item, req : Requests \cup {Nobody},
                   anchored : BOOLEAN, resume : BOOLEAN,
                   cancelling : SUBSET Requests, anchors : SUBSET Requests]
  /\ spent \in Bounds

Init ==
  /\ QueueInit
  /\ turn = [r \in Requests |-> "none"]
  /\ phase = [r \in Requests |-> "none"]
  /\ message = [r \in Requests |-> "none"]
  /\ pending = {}
  /\ dispatched = [r \in Requests |-> 0]
  /\ observed = [r \in Requests |-> 0]
  /\ exec = IdleExecution
  /\ claims = {}
  /\ drain = FALSE
  /\ wake = FALSE
  /\ resuming = {}
  /\ stop = IdleStop
  /\ recovery = NoRecovery
  /\ spent = [crashes |-> 0, stops |-> 0, steers |-> 0, recycles |-> 0]

-----------------------------------------------------------------------------
(* Clients *)

(* submit() without expectedTraceId: queue the message and schedule a drain *)
SubmitMessage(r) ==
  /\ Submit(r)
  /\ drain' = TRUE
  /\ UNCHANGED <<durable, exec, claims, wake, resuming, stop, recovery, spent>>

(* submit() with the trace of a turn under way: appendInput, then try to   *)
(* wake a turn that waits for the user.                                    *)
Steer(r) ==
  /\ spent.steers < MaxSteers
  /\ row[r].started
  /\ row[r].status \notin {"CANCELLING", "CANCELLED"}
  /\ turn[r] \in {"running", "waiting_user_input"}
  /\ pending' = pending \cup {r}
  /\ wake' = TRUE
  /\ spent' = [spent EXCEPT !.steers = @ + 1]
  /\ UNCHANGED <<queueVars, turn, phase, message, dispatched, observed,
                 exec, claims, drain, resuming, stop, recovery>>

RecycleConversation ==
  /\ spent.recycles < MaxRecycles
  /\ Recycle
  /\ spent' = [spent EXCEPT !.recycles = @ + 1]
  /\ UNCHANGED <<durable, volatile>>

RestoreConversation == Restore /\ UNCHANGED <<durable, volatile, spent>>

-----------------------------------------------------------------------------
(* Orchestrator: drainConversation, resumeWaitingUser, entry of            *)
(* executeRequest                                                          *)

Drain ==
  /\ drain
  /\ drain' = FALSE
  /\ \/ \E r \in Requests :
          ClaimNext(r) /\ claims' = claims \cup {[req |-> r, resume |-> FALSE]}
     \/ /\ deleted \/ InStatus(Active) # {} \/ InStatus({"QUEUED"}) = {}
        /\ UNCHANGED <<queueVars, claims>>
  /\ UNCHANGED <<durable, exec, wake, resuming, stop, recovery, spent>>

WakeCheck ==
  /\ wake
  /\ wake' = FALSE
  /\ resuming' = resuming \cup
       {r \in pending : row[r].status = "WAITING_USER" /\ exec.req # r}
  /\ UNCHANGED <<queueVars, durable, exec, claims, drain, stop, recovery, spent>>

WakeClaim(r) ==
  /\ r \in resuming
  /\ resuming' = resuming \ {r}
  /\ \/ ClaimUserResume(r) /\ claims' = claims \cup {[req |-> r, resume |-> TRUE]}
     \/ row[r].status # "WAITING_USER" /\ UNCHANGED <<queueVars, claims>>
  /\ UNCHANGED <<durable, exec, drain, wake, stop, recovery, spent>>

(* executions.begin throws CHAT_TURN_ALREADY_ACTIVE outside the try block: *)
(* a claim that meets a live execution is dropped as it stands.            *)
Begin(c) ==
  /\ c \in claims
  /\ claims' = claims \ {c}
  /\ exec' = IF exec.req = Nobody THEN NewExecution(c.req, c.resume) ELSE exec
  /\ UNCHANGED <<queueVars, durable, drain, wake, resuming, stop, recovery, spent>>

-----------------------------------------------------------------------------
(* Executor: ChatTurnService.start up to the announcement                  *)
At(stage)        == exec.at = stage
Go(stage)        == exec' = [exec EXCEPT !.at = stage]
GoWith(stage, o) == exec' = [exec EXCEPT !.at = stage, !.outcome = o]
OthersKept == UNCHANGED <<claims, drain, wake, resuming, stop, recovery, spent>>
Req == exec.req

(* Access, locale or the transaction may throw; a recycled conversation    *)
(* always does, and so do a resume without its user message and a fresh    *)
(* start over one: the message id is the client message id.                *)
CreateUserMessage ==
  /\ At("user")
  /\ \/ /\ ~exec.resume /\ ~deleted /\ message[Req] = "none"
        /\ message' = [message EXCEPT ![Req] = "user"]
        /\ Go("shell")
     \/ exec.resume /\ message[Req] # "none" /\ Go("shell") /\ UNCHANGED message
     \/ Go("requestCatch") /\ UNCHANGED message
  /\ UNCHANGED <<queueVars, turn, phase, pending, dispatched, observed>> /\ OthersKept

CreateAssistantShell ==
  /\ At("shell")
  /\ \/ ~exec.resume /\ message' = [message EXCEPT ![Req] = "unfinished"] /\ Go("anchor")
     \/ exec.resume /\ message[Req] # "user" /\ Go("anchor") /\ UNCHANGED message
     \/ exec.resume /\ message[Req] = "user" /\ Go("requestCatch") /\ UNCHANGED message
  /\ UNCHANGED <<queueVars, turn, phase, pending, dispatched, observed>> /\ OthersKept

AnchorTurn ==
  /\ At("anchor")
  /\ turn' = IF turn[Req] = "none" THEN [turn EXCEPT ![Req] = "running"] ELSE turn
  /\ Go("announce")
  /\ UNCHANGED <<queueVars, phase, message, pending, dispatched, observed>> /\ OthersKept

(* Mutant: the result of markRunning is not looked at. *)
AnnounceUnchecked ==
  /\ At("announce")
  /\ Go("open")
  /\ \/ MarkRunning(Req)
     \/ row[Req].status # "STARTING" /\ UNCHANGED queueVars
  /\ UNCHANGED durable /\ OthersKept

Announce ==
  /\ At("announce")
  /\ \/ MarkRunning(Req) /\ Go("open")
     \/ row[Req].status # "STARTING" /\ UNCHANGED queueVars /\ Go("requestCatch")
  /\ UNCHANGED durable /\ OthersKept

(* throwIfAborted before the runner: here only the message is finalized.   *)
EnterRunner ==
  /\ At("open")
  /\ Go(IF exec.aborted THEN "turnCatch" ELSE "execute")
  /\ UNCHANGED <<queueVars, durable>> /\ OthersKept

(* SeekmoreAgentService.execute: checks, context, then the Turn is opened  *)
(* (or reopened) whatever its status.                                      *)
StartTurn ==
  /\ At("execute")
  /\ \/ ~exec.aborted /\ turn' = [turn EXCEPT ![Req] = "running"] /\ Go("restore")
     \/ Go("agentCatch") /\ UNCHANGED turn
  /\ UNCHANGED <<queueVars, phase, message, pending, dispatched, observed>> /\ OthersKept

-----------------------------------------------------------------------------
(* Executor: the agent loop                                                *)

(* restore() refuses a checkpoint that is not a safe boundary.             *)
RestoreTrajectory ==
  /\ At("restore")
  /\ Go(IF phase[Req] \in {"none", "ready", "waiting_user"} THEN "iterate" ELSE "agentCatch")
  /\ UNCHANGED <<queueVars, durable>> /\ OthersKept

(* Top of an iteration: assertActive, then consumption and the checkpoint  *)
(* that carries it; the first iteration of a fresh turn checkpoints anyway.*)
Iterate ==
  /\ At("iterate")
  /\ IF exec.aborted
     THEN GoWith("result", "cancelled") /\ UNCHANGED <<phase, pending>>
     ELSE /\ Go("model")
          /\ pending' = pending \ {Req}
          /\ phase' = IF Req \in pending \/ phase[Req] = "none"
                      THEN [phase EXCEPT ![Req] = "ready"] ELSE phase
  /\ UNCHANGED <<queueVars, turn, message, dispatched, observed>> /\ OthersKept

(* Mutant: the seal does not look for unconsumed input. *)
SealableIgnoringInput == turn[Req] \notin TurnTerminal

Sealable == Req \notin pending /\ turn[Req] \notin TurnTerminal

(* A final answer ends the loop only if the inputs can be sealed.          *)
ModelAnswers ==
  /\ At("model")
  /\ IF Sealable
     THEN /\ turn' = [turn EXCEPT ![Req] = "completing"]
          /\ \E o \in {"succeeded", "partial"} :
               GoWith("result", IF exec.aborted THEN "cancelled" ELSE o)
     ELSE Go("iterate") /\ UNCHANGED turn
  /\ UNCHANGED <<queueVars, phase, message, pending, dispatched, observed>> /\ OthersKept

(* Mutant: no executing_tools checkpoint before the tools run. *)
ModelCallsToolsUnmarked ==
  /\ At("model")
  /\ dispatched[Req] < MaxBatches
  /\ Go("dispatch")
  /\ UNCHANGED <<queueVars, durable>> /\ OthersKept

ModelCallsTools ==
  /\ At("model")
  /\ dispatched[Req] < MaxBatches
  /\ phase' = [phase EXCEPT ![Req] = "executing_tools"]
  /\ Go("dispatch")
  /\ UNCHANGED <<queueVars, turn, message, pending, dispatched, observed>> /\ OthersKept

DispatchTools ==
  /\ At("dispatch")
  /\ dispatched' = [dispatched EXCEPT ![Req] = @ + 1]
  /\ Go("observe")
  /\ UNCHANGED <<queueVars, turn, phase, message, pending, observed>> /\ OthersKept

(* The observations enter the trajectory; a finishing tool may end the turn *)
ObserveTools ==
  /\ At("observe")
  /\ phase' = [phase EXCEPT ![Req] = "ready"]
  /\ observed' = [observed EXCEPT ![Req] = dispatched[Req]]
  /\ \/ Go("iterate") /\ UNCHANGED turn
     \/ /\ Sealable
        /\ turn' = [turn EXCEPT ![Req] = "completing"]
        /\ GoWith("result", "succeeded")
  /\ UNCHANGED <<queueVars, message, pending, dispatched>> /\ OthersKept

(* Mutant: the pause is reported and not checkpointed. *)
ModelAsksUserUnsaved ==
  /\ At("model")
  /\ Go("ask")
  /\ UNCHANGED <<queueVars, durable>> /\ OthersKept

ModelAsksUser ==
  /\ At("model")
  /\ phase' = [phase EXCEPT ![Req] = "waiting_user"]
  /\ turn' = IF turn[Req] \in TurnTerminal THEN turn
             ELSE [turn EXCEPT ![Req] = "waiting_user_input"]
  /\ Go("ask")
  /\ UNCHANGED <<queueVars, message, pending, dispatched, observed>> /\ OthersKept

(* Budget or progress ends the loop, or an abort is noticed in it.         *)
LoopStops ==
  /\ exec.at \in {"model", "dispatch", "observe"}
  /\ \/ exec.aborted /\ GoWith("result", "cancelled")
     \/ At("model") /\ \E o \in {"partial", "failed"} : GoWith("result", o)
  /\ UNCHANGED <<queueVars, durable>> /\ OthersKept

LoopThrows ==
  /\ At("model")
  /\ ~exec.aborted
  /\ Go("agentCatch")
  /\ UNCHANGED <<queueVars, durable>> /\ OthersKept

(* result(): a last attempt to seal, and the terminal checkpoint           *)
CommitResult ==
  /\ At("result")
  /\ turn' = IF Sealable THEN [turn EXCEPT ![Req] = "completing"] ELSE turn
  /\ phase' = [phase EXCEPT ![Req] = "terminal"]
  /\ GoWith("complete",
            IF exec.outcome = "succeeded" /\ ~Sealable THEN "partial" ELSE exec.outcome)
  /\ UNCHANGED <<queueVars, message, pending, dispatched, observed>> /\ OthersKept

-----------------------------------------------------------------------------
(* Executor: completion, finalization and report                           *)
EndTurn(r, o) ==
  turn' = IF turn[r] \in TurnTerminal \cup {"none"} THEN turn ELSE [turn EXCEPT ![r] = o]

(* Mutant: the message takes the name of the outcome. *)
MessageOfVerbatim(o) == o

MessageOf(o) == IF o \in {"succeeded", "partial"} THEN "finished" ELSE o
StatusOf(o)  == CASE o = "succeeded" -> "SUCCEEDED" [] o = "partial" -> "PARTIAL"
                  [] o = "failed" -> "FAILED" [] OTHER -> "CANCELLED"

(* commitTerminal is idempotent on a message that is settled already.      *)
SettleMessage(r, o) ==
  message' = IF message[r] \in Settled THEN message
             ELSE [message EXCEPT ![r] = MessageOf(o)]

CompleteTurn ==
  /\ At("complete")
  /\ EndTurn(Req, exec.outcome)
  /\ Go("finalize")
  /\ UNCHANGED <<queueVars, phase, message, pending, dispatched, observed>> /\ OthersKept

FinalizeMessage ==
  /\ At("finalize")
  /\ IF exec.aborted THEN Go("turnCatch") /\ UNCHANGED message
                     ELSE SettleMessage(Req, exec.outcome) /\ Go("report")
  /\ UNCHANGED <<queueVars, turn, phase, pending, dispatched, observed>> /\ OthersKept

(* The pause keeps the status the checkpoint wrote, then writes the        *)
(* message as unfinished whatever it was.                                  *)
CompletePause ==
  /\ At("ask")
  /\ turn' = IF turn[Req] \in TurnTerminal THEN turn
             ELSE [turn EXCEPT ![Req] = "waiting_user_input"]
  /\ Go("commitPause")
  /\ UNCHANGED <<queueVars, phase, message, pending, dispatched, observed>> /\ OthersKept

CommitPause ==
  /\ At("commitPause")
  /\ IF exec.aborted THEN Go("turnCatch") /\ UNCHANGED message
     ELSE message' = [message EXCEPT ![Req] = "unfinished"] /\ Go("markWaiting")
  /\ UNCHANGED <<queueVars, turn, phase, pending, dispatched, observed>> /\ OthersKept

ReportWaiting ==
  /\ At("markWaiting")
  /\ \/ MarkWaiting(Req, "WAITING_USER")
     \/ row[Req].status # "RUNNING" /\ UNCHANGED queueVars
  /\ Go("finish")
  /\ UNCHANGED durable /\ OthersKept

AgentCatch ==
  /\ At("agentCatch")
  /\ EndTurn(Req, IF exec.aborted THEN "cancelled" ELSE "failed")
  /\ Go("turnCatch")
  /\ UNCHANGED <<queueVars, phase, message, pending, dispatched, observed>> /\ OthersKept

TurnCatch ==
  /\ At("turnCatch")
  /\ IF exec.aborted THEN SettleMessage(Req, "cancelled") /\ GoWith("report", "cancelled")
                     ELSE SettleMessage(Req, "failed") /\ Go("requestCatch")
  /\ UNCHANGED <<queueVars, turn, phase, pending, dispatched, observed>> /\ OthersKept

(* The catch of executeRequest reads the row to decide, then marks it.     *)
RequestCatch ==
  /\ At("requestCatch")
  /\ GoWith("report", IF exec.aborted \/ row[Req].status = "CANCELLING"
                      THEN "cancelled" ELSE "failed")
  /\ UNCHANGED <<queueVars, durable>> /\ OthersKept

Report ==
  /\ At("report")
  /\ LET status == StatusOf(exec.outcome) IN
     \/ MarkTerminal(Req, status) /\ exec' = [exec EXCEPT !.at = "finish", !.settled = TRUE]
     \/ row[Req].status \notin MayEndFrom(status) /\ UNCHANGED queueVars /\ Go("finish")
  /\ UNCHANGED durable /\ OthersKept

(* Mutants: the end of a turn drains nothing, wakes nobody. *)
FinishWithoutDrain ==
  /\ At("finish")
  /\ exec' = IdleExecution
  /\ wake' = TRUE
  /\ UNCHANGED <<queueVars, durable, claims, drain, resuming, stop, recovery, spent>>

FinishWithoutWake ==
  /\ At("finish")
  /\ exec' = IdleExecution
  /\ drain' = (drain \/ exec.settled)
  /\ UNCHANGED <<queueVars, durable, claims, wake, resuming, stop, recovery, spent>>

Finish ==
  /\ At("finish")
  /\ exec' = IdleExecution
  /\ wake' = TRUE
  /\ drain' = (drain \/ exec.settled)
  /\ UNCHANGED <<queueVars, durable, claims, resuming, stop, recovery, spent>>

ExecutorStep ==
  \/ CreateUserMessage \/ CreateAssistantShell \/ AnchorTurn \/ Announce
  \/ EnterRunner \/ StartTurn \/ RestoreTrajectory \/ Iterate
  \/ ModelAnswers \/ ModelCallsTools \/ DispatchTools \/ ObserveTools
  \/ ModelAsksUser \/ LoopStops \/ LoopThrows \/ CommitResult
  \/ CompleteTurn \/ FinalizeMessage \/ CompletePause \/ CommitPause
  \/ ReportWaiting \/ AgentCatch \/ TurnCatch \/ RequestCatch \/ Report \/ Finish

-----------------------------------------------------------------------------
(* stopActiveTurn, one call at a time                                      *)
StopRead(r) ==
  /\ stop.at = "idle"
  /\ spent.stops < MaxStops
  /\ row[r].status \in Active
  /\ stop' = [at |-> "mark", req |-> r, anchored |-> row[r].anchored]
  /\ spent' = [spent EXCEPT !.stops = @ + 1]
  /\ UNCHANGED <<queueVars, durable, exec, claims, drain, wake, resuming, recovery>>

StopMark ==
  /\ stop.at = "mark"
  /\ \/ MarkCancelling(stop.req) /\ stop' = [stop EXCEPT !.at = "signal"]
     \/ /\ row[stop.req].status \in {"CANCELLING"} \cup Terminal
        /\ stop' = IdleStop
        /\ UNCHANGED queueVars
  /\ UNCHANGED <<durable, exec, claims, drain, wake, resuming, recovery, spent>>

(* requestStop: an execution of this process will settle the request       *)
(* itself; without one the handler does it.                                *)
StopSignal ==
  /\ stop.at = "signal"
  /\ IF exec.req = stop.req
     THEN exec' = [exec EXCEPT !.aborted = TRUE] /\ stop' = IdleStop
     ELSE stop' = [stop EXCEPT !.at = "cancelTurn"] /\ UNCHANGED exec
  /\ UNCHANGED <<queueVars, durable, claims, drain, wake, resuming, recovery, spent>>

StopCancelTurn ==
  /\ stop.at = "cancelTurn"
  /\ EndTurn(stop.req, "cancelled")
  /\ stop' = [stop EXCEPT !.at = "commit"]
  /\ UNCHANGED <<queueVars, phase, message, pending, dispatched, observed,
                 exec, claims, drain, wake, resuming, recovery, spent>>

StopCommit ==
  /\ stop.at = "commit"
  /\ IF stop.anchored THEN SettleMessage(stop.req, "cancelled") ELSE UNCHANGED message
  /\ stop' = [stop EXCEPT !.at = "end"]
  /\ UNCHANGED <<queueVars, turn, phase, pending, dispatched, observed,
                 exec, claims, drain, wake, resuming, recovery, spent>>

StopEnd ==
  /\ stop.at = "end"
  /\ stop' = IdleStop
  /\ \/ MarkTerminal(stop.req, "CANCELLED") /\ drain' = TRUE
     \/ row[stop.req].status \notin Active /\ UNCHANGED <<queueVars, drain>>
  /\ UNCHANGED <<durable, exec, claims, wake, resuming, recovery, spent>>

StopStep == StopMark \/ StopSignal \/ StopCancelTurn \/ StopCommit \/ StopEnd

-----------------------------------------------------------------------------
(* Crash, restart and ChatTurnRecoveryService.recover                      *)
Crash ==
  /\ spent.crashes < MaxCrashes
  /\ spent' = [spent EXCEPT !.crashes = @ + 1]
  /\ exec' = IdleExecution
  /\ claims' = {}
  /\ drain' = FALSE
  /\ wake' = FALSE
  /\ resuming' = {}
  /\ stop' = IdleStop
  /\ recovery' = [NoRecovery EXCEPT !.at = "snapshot"]
  /\ UNCHANGED <<queueVars, durable>>

RecoveryKeeps == UNCHANGED <<claims, resuming, stop, spent>>
NextItem == [NoRecovery EXCEPT !.at = "each", !.list = recovery.list]

RecoverySnapshot ==
  /\ recovery.at = "snapshot"
  /\ recovery' = [recovery EXCEPT !.at = "each",
       !.list = {[req |-> r, status |-> row[r].status, anchored |-> row[r].anchored] :
                   r \in InStatus({"STARTING", "RUNNING"})}]
  /\ UNCHANGED <<queueVars, durable, exec, drain, wake>> /\ RecoveryKeeps

(* Per row: is there a safe boundary, and are there messages to resume on? *)
RecoveryInspect(i) ==
  /\ recovery.at = "each" /\ i \in recovery.list
  /\ recovery' = [recovery EXCEPT
       !.at = IF i.status = "STARTING" \/ phase[i.req] = "ready" THEN "claim" ELSE "fail",
       !.list = @ \ {i}, !.req = i.req, !.anchored = i.anchored,
       !.resume = (message[i.req] # "none")]
  /\ UNCHANGED <<queueVars, durable, exec, drain, wake>> /\ RecoveryKeeps

(* Mutant: claimRecovery without its where clause on the status. *)
RecoveryClaimUnguarded ==
  /\ recovery.at = "claim"
  /\ row' = [row EXCEPT ![recovery.req].status = "STARTING"]
  /\ recovery' = [recovery EXCEPT !.at = "launch"]
  /\ UNCHANGED <<deleted, durable, exec, drain, wake>> /\ RecoveryKeeps

RecoveryClaim ==
  /\ recovery.at = "claim"
  /\ \/ ClaimRecovery(recovery.req) /\ recovery' = [recovery EXCEPT !.at = "launch"]
     \/ /\ row[recovery.req].status \notin {"STARTING", "RUNNING"}
        /\ recovery' = [recovery EXCEPT !.at = "fail"]
        /\ UNCHANGED queueVars
  /\ UNCHANGED <<durable, exec, drain, wake>> /\ RecoveryKeeps

(* resumeRecoveredRequest: refuses a trace that is already executing.      *)
RecoveryLaunch ==
  /\ recovery.at = "launch"
  /\ IF exec.req = recovery.req
     THEN recovery' = [recovery EXCEPT !.at = "fail"] /\ UNCHANGED exec
     ELSE /\ recovery' = NextItem
          /\ exec' = IF exec.req = Nobody
                     THEN NewExecution(recovery.req, recovery.resume) ELSE exec
  /\ UNCHANGED <<queueVars, durable, drain, wake>> /\ RecoveryKeeps

RecoveryFail ==
  /\ recovery.at = "fail"
  /\ FailInterrupted(recovery.req)
  /\ EndTurn(recovery.req, "failed")
  /\ message' = IF recovery.anchored /\ message[recovery.req] = "unfinished"
                THEN [message EXCEPT ![recovery.req] = "failed"] ELSE message
  /\ recovery' = NextItem
  /\ UNCHANGED <<phase, pending, dispatched, observed, exec, drain, wake>> /\ RecoveryKeeps

RecoveryFindCancelling ==
  /\ recovery.at = "each" /\ recovery.list = {}
  /\ recovery' = [recovery EXCEPT !.at = "cancel",
       !.cancelling = InStatus({"CANCELLING"}),
       !.anchors = {r \in InStatus({"CANCELLING"}) : row[r].anchored}]
  /\ UNCHANGED <<queueVars, durable, exec, drain, wake>> /\ RecoveryKeeps

RecoveryCancel ==
  /\ recovery.at = "cancel"
  /\ CancelAfterRestart(recovery.cancelling)
  /\ turn' = [r \in Requests |->
       IF r \in recovery.cancelling /\ turn[r] \notin TurnTerminal \cup {"none"}
       THEN "cancelled" ELSE turn[r]]
  /\ message' = [r \in Requests |->
       IF r \in recovery.anchors /\ message[r] = "unfinished" THEN "cancelled" ELSE message[r]]
  /\ recovery' = [NoRecovery EXCEPT !.at = "wake"]
  /\ UNCHANGED <<phase, pending, dispatched, observed, exec, drain, wake>> /\ RecoveryKeeps

RecoveryWake ==
  /\ recovery.at = "wake"
  /\ wake' = (wake \/ InStatus({"WAITING_USER"}) # {})
  /\ recovery' = [recovery EXCEPT !.at = "drain"]
  /\ UNCHANGED <<queueVars, durable, exec, drain>> /\ RecoveryKeeps

RecoveryDrain ==
  /\ recovery.at = "drain"
  /\ drain' = (drain \/ (InStatus({"QUEUED"}) # {} /\ ~deleted))
  /\ recovery' = NoRecovery
  /\ UNCHANGED <<queueVars, durable, exec, wake>> /\ RecoveryKeeps

RecoveryStep ==
  \/ RecoverySnapshot \/ RecoveryClaim \/ RecoveryLaunch \/ RecoveryFail
  \/ RecoveryFindCancelling \/ RecoveryCancel \/ RecoveryWake \/ RecoveryDrain
  \/ \E i \in recovery.list : RecoveryInspect(i)

-----------------------------------------------------------------------------
OrchestratorStep ==
  Drain \/ WakeCheck \/ (\E r \in resuming : WakeClaim(r)) \/ (\E c \in claims : Begin(c))

Next ==
  \/ \E r \in Requests : SubmitMessage(r) \/ Steer(r) \/ StopRead(r)
  \/ RecycleConversation \/ RestoreConversation
  \/ OrchestratorStep \/ ExecutorStep \/ StopStep
  \/ Crash \/ RecoveryStep

Spec == Init /\ [][Next]_vars

(* What the event loop runs once it is due: continuations of the executor, *)
(* of the stop handler and of recovery, scheduled drains and wake-ups.     *)
(* Nothing obliges a client to act or the process to crash.                *)
Fairness ==
  /\ WF_vars(ExecutorStep) /\ WF_vars(StopStep) /\ WF_vars(RecoveryStep)
  /\ WF_vars(Drain) /\ WF_vars(WakeCheck)
  /\ \A r \in Requests : WF_vars(WakeClaim(r))
  /\ \A r \in Requests, resume \in BOOLEAN : WF_vars(Begin([req |-> r, resume |-> resume]))

FairSpec == Spec /\ Fairness

-----------------------------------------------------------------------------
(* No blind replay: a tool batch is dispatched only when every earlier     *)
(* dispatch is observed in the durable checkpoint, so no restart, resume   *)
(* or retry runs a batch whose side effects may have happened.             *)
NoReplay ==
  [][\A r \in Requests :
       dispatched'[r] > dispatched[r] => dispatched[r] = observed[r]]_vars

(* Side effects happen under a request that is running or being cancelled, *)
(* never under one that is settled, waits or is still queued.  (Between    *)
(* restarts only: recovery may overrule a request that is executing.)      *)
DispatchUnderRequest ==
  At("dispatch") => row[Req].status \in {"RUNNING", "CANCELLING"}

(* A request is SUCCEEDED only over a succeeded turn, a settled message, a *)
(* terminal checkpoint and no user input accepted but left unread.  The    *)
(* message is the finished answer, but for a turn that had failed when the *)
(* process stopped and that recovery resumes over its failure message.     *)
SucceededIsCommitted ==
  \A r \in Requests : row[r].status = "SUCCEEDED" =>
    /\ turn[r] = "succeeded" /\ phase[r] = "terminal" /\ r \notin pending
    /\ message[r] \in {"finished"} \cup (IF spent.crashes = 0 THEN {} ELSE {"failed"})

(* A parked turn can be continued: a request shown as waiting for the user *)
(* has the checkpoint that restore accepts, a turn that accepts the answer *)
(* and an assistant message still open.                                    *)
ParkedIsResumable ==
  \A r \in Requests : row[r].status = "WAITING_USER" =>
    phase[r] = "waiting_user" /\ turn[r] = "waiting_user_input" /\ message[r] = "unfinished"

(* No lost drain: whenever messages are queued and no request is active,   *)
(* somebody (the turn that ended, the stop handler, the recovery) drains.  *)
NoLostDrain ==
  (~deleted /\ InStatus({"QUEUED"}) # {} /\ InStatus(Active) = {})
    ~> (deleted \/ InStatus({"QUEUED"}) = {} \/ InStatus(Active) # {})

(* No lost wake-up: an answer accepted for a parked turn gets it going,    *)
(* however the answer, the pause and the end of the execution interleave.  *)
NoLostWake ==
  \A r \in Requests :
    (row[r].status = "WAITING_USER" /\ r \in pending) ~> row[r].status # "WAITING_USER"

-----------------------------------------------------------------------------
(* README: "the turn is bounded by iteration limits, no-progress           *)
(* detection, cancellation, ..."; a stop accepted for a turn ends it.      *)
CancellationEnds ==
  \A r \in Requests : row[r].status = "CANCELLING" ~> row[r].status \in Terminal

(* README: "`waiting_user` checkpoints can continue after user input": the *)
(* recovery does not fail a turn that has asked, saved its question and is *)
(* executed by nobody.                                                     *)
WaitingUserCanContinue ==
  [][recovery.at = "fail" /\ recovery' # recovery /\ exec.req # recovery.req
       => phase[recovery.req] # "waiting_user"]_vars
=============================================================================
