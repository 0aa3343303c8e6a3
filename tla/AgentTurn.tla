------------------------------ MODULE AgentTurn ------------------------------
(***************************************************************************)
(* One AgentTurn from the inside: the agent loop (agent-loop.service.ts),  *)
(* the trajectory it keeps in memory and checkpoints, the log of user      *)
(* inputs, the model and tool budgets, and the Turn row that serialises    *)
(* acceptance, consumption and sealing (agent-turn.repository.ts).         *)
(* Clients add inputs and stop the turn at any moment, the process crashes *)
(* at any moment, and the turn is resumed from its checkpoint.             *)
(*                                                                         *)
(* A trajectory is reduced to what the properties tell apart: the inputs   *)
(* in it, whether a clarification waits for its answer, and the budget.    *)
(* What the model answers and whether a tool makes progress is free; the   *)
(* retry counters of the loop only limit choices that are free here.       *)
(***************************************************************************)
EXTENDS Naturals, Sequences, FiniteSets

CONSTANTS
  MaxModelCalls,          \* request.maxIterations
  MaxToolCalls,           \* IterationBudget.maximumToolCalls
  BatchSizes,             \* how many tools a model response may select
  MaxInputs, MaxCrashes   \* bounds of a run

ASSUME BudgetAssumption ==
  MaxModelCalls \in Nat \ {0} /\ MaxToolCalls \in Nat /\ BatchSizes \subseteq Nat \ {0}
ASSUME BoundsAssumption == MaxInputs \in Nat /\ MaxCrashes \in Nat

VARIABLES
  \* durable
  turn,         \* status of the AgentTurn row
  inputs,       \* the AgentTurnInput rows by sequence number
  saved,        \* the checkpoint: phase and trajectory
  request,      \* status of the ChatTurnRequest; "SETTLED" is any end but CANCELLED
  \* volatile
  memory,       \* the trajectory of the AgentLoopState
  loop,         \* where the loop stands
  \* history
  toolsRun,     \* tools executed, in all processes
  modelRuns,    \* model calls made, in all processes
  crashes

history == <<toolsRun, modelRuns, crashes>>
vars    == <<turn, inputs, saved, request, memory, loop, history>>

Over       == {"SETTLED", "CANCELLED"}
Request    == {"QUEUED", "STARTING", "RUNNING", "WAITING_USER", "CANCELLING"} \cup Over
Terminal   == {"succeeded", "partial", "failed", "cancelled"}
TurnStatus == {"none", "running", "waiting_user_input", "completing"} \cup Terminal
Phase      == {"none", "ready", "executing_tools", "waiting_user", "terminal"}
Input      == [kind : {"STEERING", "USER_RESPONSE"}, consumed : BOOLEAN]
Trajectory == [seen : Seq(Nat), question : BOOLEAN,
               modelCalls : Nat, toolCalls : Nat, grace : BOOLEAN]
Stage      == {"idle", "claimed", "top", "consume", "model", "tools", "observe", "finishing",
               "after", "consumeLast", "grace", "result", "terminal", "complete",
               "pause", "throw", "finalize", "commitPause", "report", "markWaiting"}

Fresh == [seen |-> <<>>, question |-> FALSE, modelCalls |-> 0, toolCalls |-> 0, grace |-> FALSE]
Idle  == [at |-> "idle", reading |-> <<>>, batch |-> 0, outcome |-> "failed"]

TypeOK ==
  /\ turn \in TurnStatus
  /\ inputs \in Seq(Input) /\ Len(inputs) <= MaxInputs
  /\ saved \in [phase : Phase, trajectory : Trajectory]
  /\ request \in Request
  /\ memory \in Trajectory
  /\ loop \in [at : Stage, reading : Seq(Nat), batch : Nat, outcome : Terminal]
  /\ toolsRun \in Nat /\ modelRuns \in Nat /\ crashes \in 0..MaxCrashes

Init ==
  /\ turn = "none" /\ inputs = <<>> /\ request = "QUEUED"
  /\ saved = [phase |-> "none", trajectory |-> Fresh]
  /\ memory = Fresh /\ loop = Idle
  /\ toolsRun = 0 /\ modelRuns = 0 /\ crashes = 0

-----------------------------------------------------------------------------
(* The Turn row *)

Pending   == {i \in DOMAIN inputs : ~inputs[i].consumed}
Completed == turn \in Terminal

(* orderBy sequence asc: the i-th element has i elements up to it          *)
InOrder(S) ==
  [i \in 1..Cardinality(S) |-> CHOOSE p \in S : Cardinality({q \in S : q <= p}) = i]

Checkpoint(phase, trajectory) == saved' = [phase |-> phase, trajectory |-> trajectory]

(* sealInputs: refused while an input is unread or once the turn is over   *)
Sealable == ~Completed /\ Pending = {}
Seal == turn' = IF Sealable THEN "completing" ELSE turn

(* complete, fail and cancel leave a completed turn alone.                 *)
Settle(status) == turn' = IF Completed THEN turn ELSE status

-----------------------------------------------------------------------------
(* Clients *)
cancelling == request = "CANCELLING"

(* appendInput: the sequence number is the place in the log                *)
AppendInput ==
  /\ Len(inputs) < MaxInputs
  /\ request \notin {"CANCELLING", "CANCELLED"}
  /\ turn \in {"running", "waiting_user_input"}
  /\ inputs' = Append(inputs,
       [kind |-> IF turn = "waiting_user_input" THEN "USER_RESPONSE" ELSE "STEERING",
        consumed |-> FALSE])
  /\ UNCHANGED <<turn, saved, request, memory, loop, history>>

(* stopActiveTurn: an execution sees the signal, a turn that nobody        *)
(* executes is cancelled on the spot.                                      *)
Stop ==
  /\ request \in {"STARTING", "RUNNING", "WAITING_USER"}
  /\ IF loop.at = "idle"
     THEN /\ request' = "CANCELLED"
          /\ turn' = IF turn \in Terminal \cup {"none"} THEN turn ELSE "cancelled"
     ELSE request' = "CANCELLING" /\ UNCHANGED turn
  /\ UNCHANGED <<inputs, saved, memory, loop, history>>

-----------------------------------------------------------------------------
(* Claim, start, crash *)
At(stage) == loop.at = stage
Go(stage) == loop' = [loop EXCEPT !.at = stage]
End(outcome) == loop' = [loop EXCEPT !.at = "result", !.outcome = outcome]

(* Mutant: a parked turn is resumed whether or not an input arrived. *)
WakeableAlways == request = "WAITING_USER"

Wakeable == request = "WAITING_USER" /\ Pending # {}

Restored == saved.trajectory

(* The queue claims a new request, an input wakes a parked one, and the    *)
(* recovery takes over one that was interrupted before it ran or on a      *)
(* ready checkpoint, be its turn failed meanwhile or not.                  *)
Claim ==
  /\ At("idle")
  /\ \/ request \in {"QUEUED", "STARTING"}
     \/ Wakeable
     \/ request = "RUNNING" /\ saved.phase = "ready"
  /\ request' = "STARTING"
  /\ Go("claimed")
  /\ UNCHANGED <<turn, inputs, saved, memory, history>>

(* markRunning, turns.start and restore: the turn is running, whatever it  *)
(* was, and the checkpoint, if there is one, gives the trajectory back.  A *)
(* stop in between ends the request only.                                  *)
Start ==
  /\ At("claimed")
  /\ IF cancelling
     THEN request' = "CANCELLED" /\ loop' = Idle /\ UNCHANGED <<turn, memory>>
     ELSE /\ request' = "RUNNING"
          /\ turn' = "running"
          /\ memory' = Restored
          /\ Go("top")
  /\ UNCHANGED <<inputs, saved, history>>

Crash ==
  /\ crashes < MaxCrashes /\ ~At("idle")
  /\ crashes' = crashes + 1
  /\ loop' = Idle /\ memory' = Fresh
  /\ UNCHANGED <<turn, inputs, saved, request, toolsRun, modelRuns>>

(* The recovery settles an interrupted turn that it does not resume.       *)
Abandon ==
  /\ At("idle")
  /\ \/ /\ cancelling /\ request' = "CANCELLED"
        /\ turn' = IF turn \in Terminal \cup {"none"} THEN turn ELSE "cancelled"
     \/ /\ request = "RUNNING" /\ saved.phase # "ready" /\ request' = "SETTLED"
        /\ turn' = IF Completed THEN turn ELSE "failed"
  /\ UNCHANGED <<inputs, saved, memory, loop, history>>

-----------------------------------------------------------------------------
(* The loop: reading inputs *)
LoopKeeps == UNCHANGED <<inputs, request, history>>

(* pendingInputs at the top of an iteration and again after the loop       *)
ReadPending(next) == loop' = [loop EXCEPT !.at = next, !.reading = InOrder(Pending)]

BeginIteration ==
  /\ At("top") /\ memory.modelCalls < MaxModelCalls
  /\ IF cancelling THEN End("cancelled") ELSE ReadPending("consume")
  /\ LoopKeeps /\ UNCHANGED <<turn, saved, memory>>

LeaveLoop ==
  /\ At("top") /\ memory.modelCalls >= MaxModelCalls
  /\ Go("after")
  /\ LoopKeeps /\ UNCHANGED <<turn, saved, memory>>

ReadLast ==
  /\ At("after")
  /\ ReadPending("consumeLast")
  /\ LoopKeeps /\ UNCHANGED <<turn, saved, memory>>

(* The inputs read enter the trajectory, the first user input answers the  *)
(* open question, and consumption commits with the checkpoint.             *)
WithInputs == [memory EXCEPT !.seen = @ \o loop.reading, !.question = FALSE]

Consumed(rows) ==
  [i \in DOMAIN inputs |->
     IF \E j \in DOMAIN rows : rows[j] = i THEN [inputs[i] EXCEPT !.consumed = TRUE]
                                           ELSE inputs[i]]

(* Mutant: whatever is unread when the checkpoint commits is marked. *)
ConsumeAllPending ==
  IF loop.reading = <<>>
  THEN /\ UNCHANGED inputs
       /\ IF saved.phase = "none" THEN Checkpoint("ready", memory) ELSE UNCHANGED saved
  ELSE /\ inputs' = Consumed(InOrder(Pending))
       /\ Checkpoint("ready", WithInputs)

ConsumeInputs ==
  IF loop.reading = <<>>
  THEN /\ UNCHANGED inputs
       /\ IF saved.phase = "none" THEN Checkpoint("ready", memory) ELSE UNCHANGED saved
  ELSE /\ inputs' = Consumed(loop.reading)
       /\ Checkpoint("ready", WithInputs)

Trajected == IF loop.reading = <<>> THEN memory ELSE WithInputs

Iterate ==
  /\ At("consume")
  /\ ConsumeInputs
  /\ memory' = [Trajected EXCEPT !.modelCalls = @ + 1]
  /\ modelRuns' = modelRuns + 1
  /\ loop' = [loop EXCEPT !.at = "model", !.reading = <<>>]
  /\ UNCHANGED <<turn, request, toolsRun, crashes>>

-----------------------------------------------------------------------------
(* The loop: what the model answers *)

(* A context retry, a length continuation, an empty answer or the nudge to *)
(* verify goes round without a checkpoint.                                 *)
GoRound ==
  /\ At("model") /\ Go("top")
  /\ LoopKeeps /\ UNCHANGED <<turn, saved, memory>>

(* What was streamed before the failure makes a partial answer, aborted or *)
(* not; without it the error goes up.                                      *)
ModelFails ==
  /\ At("model")
  /\ \/ End("partial")
     \/ IF cancelling THEN End("cancelled") ELSE Go("throw")
  /\ LoopKeeps /\ UNCHANGED <<turn, saved, memory>>

Clarify ==
  /\ At("model")
  /\ memory' = [memory EXCEPT !.question = TRUE]
  /\ Checkpoint("waiting_user", memory')
  /\ Settle("waiting_user_input")
  /\ Go("pause")
  /\ LoopKeeps

(* Mutant: the batch is not counted in. *)
CanExecuteAnother(n) == memory.toolCalls < MaxToolCalls

CanExecuteTools(n) == memory.toolCalls + n <= MaxToolCalls

(* Without budget for the batch, or after too many cut answers: leave.     *)
Exhausted ==
  /\ At("model") /\ Go("after")
  /\ LoopKeeps /\ UNCHANGED <<turn, saved, memory>>

CallTools(n) ==
  /\ At("model") /\ CanExecuteTools(n)
  /\ Checkpoint("executing_tools", memory)
  /\ loop' = [loop EXCEPT !.at = "tools", !.batch = n]
  /\ LoopKeeps /\ UNCHANGED <<turn, memory>>

Answer ==
  /\ At("model")
  /\ Seal
  /\ IF Sealable THEN End(IF cancelling THEN "cancelled" ELSE "succeeded") ELSE Go("top")
  /\ LoopKeeps /\ UNCHANGED <<saved, memory>>

-----------------------------------------------------------------------------
(* The loop: tools *)
ExecuteTools ==
  /\ At("tools")
  /\ toolsRun' = toolsRun + loop.batch
  /\ \/ memory' = [memory EXCEPT !.toolCalls = @ + loop.batch] /\ Go("observe")
     \/ UNCHANGED memory /\ IF cancelling THEN End("cancelled") ELSE Go("throw")
  /\ UNCHANGED <<inputs, request, turn, saved, modelRuns, crashes>>

(* The observations are in the trajectory; a finishing tool tries to seal, *)
(* no progress for too long leaves the loop.                               *)
Observe ==
  /\ At("observe")
  /\ Checkpoint("ready", memory)
  /\ \E next \in {"top", "after", "finishing"} : Go(next)
  /\ LoopKeeps /\ UNCHANGED <<turn, memory>>

FinishTool ==
  /\ At("finishing")
  /\ Seal
  /\ IF Sealable THEN End("succeeded") ELSE \E next \in {"top", "after"} : Go(next)
  /\ LoopKeeps /\ UNCHANGED <<saved, memory>>

-----------------------------------------------------------------------------
(* After the loop: last inputs, at most one grace call, the result *)
ConsumeLast ==
  /\ At("consumeLast")
  /\ IF loop.reading = <<>> THEN UNCHANGED <<inputs, saved>> ELSE ConsumeInputs
  /\ memory' = [Trajected EXCEPT !.grace = TRUE]
  /\ modelRuns' = IF memory.grace \/ cancelling THEN modelRuns ELSE modelRuns + 1
  /\ loop' = [loop EXCEPT !.at = "grace", !.reading = <<>>]
  /\ UNCHANGED <<turn, request, toolsRun, crashes>>

Grace ==
  /\ At("grace")
  /\ IF cancelling THEN End("cancelled") ELSE \E o \in {"partial", "failed"} : End(o)
  /\ LoopKeeps /\ UNCHANGED <<turn, saved, memory>>

(* Mutant: a result that cannot be sealed is tried again. *)
SealResultRetried ==
  /\ At("result") /\ Seal
  /\ IF Sealable THEN Go("terminal") ELSE UNCHANGED loop
  /\ LoopKeeps /\ UNCHANGED <<saved, memory>>

(* result(): success without the seal, or without evidence for a mutation, *)
(* is partial.                                                             *)
SealResult ==
  /\ At("result")
  /\ Seal
  /\ \E o \in {loop.outcome} \cup (IF loop.outcome = "succeeded" THEN {"partial"} ELSE {}) :
       /\ o = "succeeded" => Sealable
       /\ loop' = [loop EXCEPT !.at = "terminal", !.outcome = o]
  /\ LoopKeeps /\ UNCHANGED <<saved, memory>>

SaveTerminal ==
  /\ At("terminal")
  /\ Checkpoint("terminal", memory)
  /\ Go("complete")
  /\ LoopKeeps /\ UNCHANGED <<turn, memory>>

(* Mutant: the pause by another name. *)
PausedStatusMisnamed == "waiting_user"

PausedStatus == "waiting_user_input"

(* turns.complete, turns.fail and turns.cancel: the end of the turn, which *)
(* the request does not know of yet.                                       *)
Complete ==
  /\ \/ At("complete") /\ Settle(loop.outcome) /\ Go("finalize")
     \/ At("pause") /\ Settle(PausedStatus) /\ Go("commitPause")
     \/ /\ At("throw")
        /\ loop' = [loop EXCEPT !.at = "finalize",
                                !.outcome = IF cancelling THEN "cancelled" ELSE "failed"]
        /\ Settle(loop'.outcome)
  /\ LoopKeeps /\ UNCHANGED <<saved, memory>>

(* The message is committed; here a stop is noticed for the last time, and *)
(* whatever came before ends as cancelled.                                 *)
Finalize ==
  /\ \/ cancelling /\ loop.at \in {"finalize", "commitPause"}
        /\ loop' = [loop EXCEPT !.at = "report", !.outcome = "cancelled"]
     \/ ~cancelling /\ At("finalize") /\ Go("report")
     \/ ~cancelling /\ At("commitPause") /\ Go("markWaiting")
  /\ LoopKeeps /\ UNCHANGED <<turn, saved, memory>>

(* markTerminal and markWaiting: a request that is being cancelled takes   *)
(* only the cancellation, and stays as it is otherwise.                    *)
Report ==
  /\ \/ At("report") /\ loop.outcome = "cancelled" /\ request' = "CANCELLED"
     \/ At("report") /\ loop.outcome # "cancelled" /\ request' = IF cancelling THEN request ELSE "SETTLED"
     \/ At("markWaiting") /\ request' = IF cancelling THEN request ELSE "WAITING_USER"
  /\ loop' = Idle /\ memory' = Fresh
  /\ UNCHANGED <<turn, inputs, saved, history>>

LoopStep ==
  \/ BeginIteration \/ LeaveLoop \/ ReadLast \/ Iterate
  \/ GoRound \/ ModelFails \/ Clarify \/ Exhausted \/ Answer
  \/ \E n \in BatchSizes : CallTools(n)
  \/ ExecuteTools \/ Observe \/ FinishTool
  \/ ConsumeLast \/ Grace \/ SealResult \/ SaveTerminal
  \/ Complete \/ Finalize \/ Report

Next == AppendInput \/ Stop \/ Claim \/ Start \/ Crash \/ Abandon \/ LoopStep

Spec     == Init /\ [][Next]_vars
FairSpec == Spec /\ WF_vars(LoopStep) /\ WF_vars(Start)

-----------------------------------------------------------------------------
ConsumedInputs == {i \in DOMAIN inputs : inputs[i].consumed}

(* Accepted input is read once and in order: whatever is interrupted, the  *)
(* durable trajectory holds exactly the inputs marked consumed, and they   *)
(* are the oldest ones.                                                    *)
InputsReadOnceInOrder ==
  /\ saved.trajectory.seen = [i \in 1..Cardinality(ConsumedInputs) |-> i]
  /\ ConsumedInputs = 1..Cardinality(ConsumedInputs)

(* A turn that succeeded has read everything its users added to it.        *)
SucceededReadEverything == turn = "succeeded" => Pending = {}

(* The model is never called over an open question: a paused turn goes on  *)
(* only with an input that answers it.                                     *)
QuestionBlocksModel == loop.at \in {"model", "grace"} => ~memory.question

(* The tool budget of a turn holds over pauses, crashes and resumptions.   *)
ToolBudgetHolds == toolsRun <= MaxToolCalls

(* So does the model budget, with its one grace call, over pauses.  (The   *)
(* calls since the last checkpoint are forgotten by a crash.)              *)
ModelBudgetHolds == crashes = 0 => modelRuns <= MaxModelCalls + 1

(* README: "the turn is bounded by iteration limits": both budgets hold.   *)
BudgetsHold == ToolBudgetHolds /\ ModelBudgetHolds

(* A turn that is not interrupted stops, whatever the model answers and    *)
(* the user adds.                                                          *)
LoopEnds == loop.at # "idle" ~> loop.at = "idle"

(* The status of the turn, as far as its inputs go: sealInputs makes it    *)
(* completing, and a resumption running again.                             *)
LifeOf ==
  CASE turn = "none"       -> "unborn"
    [] turn = "completing" -> "sealed"
    [] turn = "succeeded"  -> "answered"
    [] turn \in Terminal \ {"succeeded"}             -> "given up"
    [] turn \in {"running", "waiting_user_input"}    -> "open"

Promised == INSTANCE TurnInputs
  WITH accepted <- Len(inputs), marked <- ConsumedInputs,
       trajectory <- saved.trajectory.seen, life <- LifeOf,
       settled <- request \in Over

(* The turn keeps the promise TurnInputs states of it, over every crash    *)
(* and resumption: a row is consumed exactly when the checkpoint holds it, *)
(* nothing is accepted, lost or read twice once the turn is sealed, an     *)
(* answered turn stays answered, and one that gave up is taken up again    *)
(* only by a request that the crash left unsettled.                        *)
InputsPromised == Promised!InputsSpec

(* agent-loop.service.ts, where an open question is closed: "This is a     *)
(* response to the actual pending request".                                *)
QuestionAnsweredByUser ==
  [][loop.at \in {"consume", "consumeLast"} /\ memory.question /\ ~memory'.question =>
       \E j \in DOMAIN loop.reading : inputs[loop.reading[j]].kind = "USER_RESPONSE"]_vars
=============================================================================
