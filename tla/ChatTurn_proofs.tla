---------------------------- MODULE ChatTurn_proofs ----------------------------
(***************************************************************************)
(* What holds of the turns of a conversation for every number of messages, *)
(* crashes, stops, inputs and tool batches.                                *)
(*                                                                         *)
(* The actors of ChatTurn use the queue only through its operators and     *)
(* only on requests, so ChatTurn implements QueueSpec and inherits what is *)
(* proved of it in ChatTurnRequests_proofs.  For the tools it is enough to *)
(* look at the checkpoint a turn may be restored from: it is a safe        *)
(* boundary only while everything that was let go has been observed.       *)
(*                                                                         *)
(* How a turn ends is a matter of who may still write what.  A request     *)
(* that was cancelled, or whose turn somebody else has settled, is doomed  *)
(* and stays so; an executor that meets a doomed request can only cancel   *)
(* it.  On any other request nobody but the executor writes, so the turn,  *)
(* the message and the row are as its stage left them.                     *)
(***************************************************************************)
EXTENDS ChatTurn, ChatTurnRequests_proofs

-----------------------------------------------------------------------------
(* The orchestrator, the executor, the stop handler and the recovery.      *)
DurableTypeOK ==
  /\ turn \in [Requests -> TurnStatus]
  /\ phase \in [Requests -> Phase]
  /\ message \in [Requests -> MessageState]
  /\ pending \in SUBSET Requests
  /\ dispatched \in [Requests -> Nat] /\ observed \in [Requests -> Nat]

StopType == [at : {"idle", "mark", "signal", "cancelTurn", "commit", "end"},
             req : Requests \cup {Nobody}, anchored : BOOLEAN]

RecoveryType == [at : {"snapshot", "each", "claim", "launch", "fail", "cancel",
                       "wake", "drain", "done"},
                 list : SUBSET Item, req : Requests \cup {Nobody},
                 anchored : BOOLEAN, resume : BOOLEAN,
                 cancelling : SUBSET Requests, anchors : SUBSET Requests]

ActorsTypeOK ==
  /\ claims \in SUBSET Claim
  /\ drain \in BOOLEAN /\ wake \in BOOLEAN
  /\ resuming \in SUBSET Requests
  /\ stop \in StopType
  /\ recovery \in RecoveryType
  /\ spent \in Bounds

(* Whoever is at work works on a request.                                  *)
ActorsInv ==
  /\ exec.at # "idle" => exec.req \in Requests
  /\ stop.at # "idle" => stop.req \in Requests
  /\ recovery.at \in {"claim", "launch", "fail"} => recovery.req \in Requests

-----------------------------------------------------------------------------
(* The types, in three parts.                                              *)
LEMMA TypeParts ==
  TypeOK <=> QueueTypeOK /\ DurableTypeOK /\ exec \in Execution /\ ActorsTypeOK
BY DEF TypeOK, DurableTypeOK, ActorsTypeOK, StopType, RecoveryType

(* Moving the executor on keeps its type and its request.                  *)
LEMMA GoType ==
  ASSUME exec \in Execution, NEW stage \in Stage,
         Go(stage) \/ \E o \in TurnTerminal \cup {"none"} : GoWith(stage, o)
  PROVE  exec' \in Execution /\ exec'.at = stage /\ exec'.req = exec.req
<1>1. \/ exec' = [exec EXCEPT !.at = stage]
      \/ \E o \in TurnTerminal \cup {"none"} : exec' = [exec EXCEPT !.at = stage, !.outcome = o]
  BY DEF Go, GoWith
<1> QED
  BY <1>1 DEF Execution

(* A new execution and an idle one have the type.                          *)
LEMMA ExecutionType ==
  /\ \A r \in Requests, resume \in BOOLEAN : NewExecution(r, resume) \in Execution
  /\ \A r \in Requests, resume \in BOOLEAN : NewExecution(r, resume).req = r
  /\ IdleExecution \in Execution /\ IdleExecution.at = "idle"
BY DEF NewExecution, IdleExecution, Execution, Stage

(* The stop handler and the recovery at rest have theirs.                  *)
LEMMA RestType ==
  /\ IdleStop \in StopType /\ IdleStop.at = "idle"
  /\ NoRecovery \in RecoveryType /\ NoRecovery.at = "done"
BY DEF IdleStop, NoRecovery, StopType, RecoveryType

(* Ending a turn and settling a message write a status and a state.        *)
LEMMA EndType ==
  ASSUME DurableTypeOK, NEW r, NEW o \in TurnTerminal \cup {"none"}
  PROVE  /\ EndTurn(r, o) => turn' \in [Requests -> TurnStatus]
         /\ SettleMessage(r, o) => message' \in [Requests -> MessageState]
<1>1. o \in TurnStatus /\ MessageOf(o) \in MessageState
  BY DEF TurnStatus, TurnTerminal, MessageOf, MessageState, Settled
<1> QED
  BY <1>1 DEF EndTurn, SettleMessage, DurableTypeOK

-----------------------------------------------------------------------------
(* The executor.                                                           *)
LEMMA ExecutorTypes ==
  ASSUME TypeOK, ActorsInv, ExecutorStep
  PROVE  DurableTypeOK' /\ exec' \in Execution /\ ActorsTypeOK' /\ ActorsInv'
<1>0. DurableTypeOK /\ exec \in Execution /\ ActorsTypeOK
  BY TypeParts
<1>1. exec.at # "idle"
  BY DEF ExecutorStep, CreateUserMessage, CreateAssistantShell, AnchorTurn, Announce, EnterRunner,
     StartTurn, RestoreTrajectory, Iterate, ModelAnswers, ModelCallsTools, DispatchTools,
     ObserveTools, ModelAsksUser, LoopStops, LoopThrows, CommitResult, CompleteTurn,
     FinalizeMessage, CompletePause, CommitPause, ReportWaiting, AgentCatch, TurnCatch,
     RequestCatch, Report, Finish, At
<1>2. ActorsTypeOK' /\ UNCHANGED <<stop, recovery>>
  <2>1. CASE Finish
    BY <1>0, <2>1 DEF Finish, ActorsTypeOK, Execution
  <2>2. CASE ~Finish
    <3>1. OthersKept
      BY <2>2 DEF ExecutorStep, CreateUserMessage, CreateAssistantShell, AnchorTurn, Announce,
         EnterRunner, StartTurn, RestoreTrajectory, Iterate, ModelAnswers, ModelCallsTools,
         DispatchTools, ObserveTools, ModelAsksUser, LoopStops, LoopThrows, CommitResult,
         CompleteTurn, FinalizeMessage, CompletePause, CommitPause, ReportWaiting, AgentCatch,
         TurnCatch, RequestCatch, Report
    <3> QED
      BY <1>0, <3>1 DEF OthersKept, ActorsTypeOK
  <2> QED
    BY <2>1, <2>2
<1>3. exec' \in Execution /\ (exec'.at # "idle" => exec'.req = exec.req)
  <2>1. CASE Finish
    BY <2>1, ExecutionType DEF Finish
  <2>2. CASE Report
    <3>1. \/ exec' = [exec EXCEPT !.at = "finish", !.settled = TRUE]
          \/ exec' = [exec EXCEPT !.at = "finish"]
      BY <2>2 DEF Report, Go
    <3> QED
      BY <1>0, <3>1 DEF Execution, Stage
  <2>3. CASE ~Finish /\ ~Report
    <3>1. \/ \E stage \in Stage : Go(stage)
          \/ \E stage \in Stage, o \in TurnTerminal \cup {"none"} : GoWith(stage, o)
      <4>1. CASE \/ CreateUserMessage \/ CreateAssistantShell \/ AnchorTurn \/ Announce
                 \/ EnterRunner \/ StartTurn \/ RestoreTrajectory
        BY <4>1 DEF CreateUserMessage, CreateAssistantShell, AnchorTurn, Announce, EnterRunner,
           StartTurn, RestoreTrajectory, Stage
      <4>2. CASE Iterate \/ ModelAnswers \/ ModelCallsTools \/ DispatchTools \/ ObserveTools
        BY <4>2 DEF Iterate, ModelAnswers, ModelCallsTools, DispatchTools, ObserveTools, Stage,
           TurnTerminal
      <4>3. CASE \/ ModelAsksUser \/ LoopStops \/ LoopThrows \/ CommitResult \/ CompleteTurn
        BY <1>0, <4>3 DEF ModelAsksUser, LoopStops, LoopThrows, CommitResult, CompleteTurn, Stage,
           TurnTerminal, Execution
      <4>4. CASE \/ FinalizeMessage \/ CompletePause \/ CommitPause \/ ReportWaiting \/ AgentCatch
                 \/ TurnCatch \/ RequestCatch
        BY <4>4 DEF FinalizeMessage, CompletePause, CommitPause, ReportWaiting, AgentCatch,
           TurnCatch, RequestCatch, Stage, TurnTerminal
      <4> QED
        BY <2>3, <4>1, <4>2, <4>3, <4>4 DEF ExecutorStep
    <3> QED
      BY <1>0, <3>1, GoType
  <2> QED
    BY <2>1, <2>2, <2>3
<1>4. DurableTypeOK'
  <2>1. CASE CreateUserMessage \/ CreateAssistantShell \/ AnchorTurn \/ Announce \/ EnterRunner
             \/ StartTurn \/ RestoreTrajectory
    BY <1>0, <2>1 DEF CreateUserMessage, CreateAssistantShell, AnchorTurn, Announce, EnterRunner,
       StartTurn, RestoreTrajectory, durable, DurableTypeOK, TurnStatus, MessageState
  <2>2. CASE Iterate \/ ModelCallsTools \/ ObserveTools
    BY <1>0, <2>2 DEF Iterate, ModelCallsTools, ObserveTools, DurableTypeOK, TurnStatus, Phase
  <2>3. CASE DispatchTools
    <3>1. /\ dispatched' = [dispatched EXCEPT ![Req] = dispatched[Req] + 1]
          /\ UNCHANGED <<turn, phase, message, pending, observed>>
      BY <2>3 DEF DispatchTools
    <3>2. Req \in Requests
      BY <1>1 DEF ActorsInv, Req
    <3> QED
      BY <1>0, <3>1, <3>2 DEF DurableTypeOK
  <2>4. CASE ModelAnswers \/ ModelAsksUser \/ LoopStops \/ LoopThrows \/ CommitResult
    BY <1>0, <2>4 DEF ModelAnswers, ModelAsksUser, LoopStops, LoopThrows, CommitResult, durable,
       DurableTypeOK, TurnStatus, Phase
  <2>5. CASE CompleteTurn \/ AgentCatch
    <3>1. \E o \in TurnTerminal \cup {"none"} : EndTurn(Req, o)
      BY <1>0, <2>5 DEF CompleteTurn, AgentCatch, Execution, TurnTerminal
    <3> QED
      BY <1>0, <2>5, <3>1, EndType DEF CompleteTurn, AgentCatch, DurableTypeOK
  <2>6. CASE FinalizeMessage \/ TurnCatch
    <3>1. UNCHANGED message \/ \E o \in TurnTerminal \cup {"none"} : SettleMessage(Req, o)
      BY <1>0, <2>6 DEF FinalizeMessage, TurnCatch, Execution, TurnTerminal
    <3> QED
      BY <1>0, <2>6, <3>1, EndType DEF FinalizeMessage, TurnCatch, DurableTypeOK
  <2>7. CASE CompletePause \/ CommitPause
    BY <1>0, <2>7 DEF CompletePause, CommitPause, DurableTypeOK, TurnStatus, MessageState
  <2>8. CASE ReportWaiting \/ RequestCatch \/ Report \/ Finish
    BY <1>0, <2>8 DEF ReportWaiting, RequestCatch, Report, Finish, durable, DurableTypeOK
  <2> QED
    BY <2>1, <2>2, <2>3, <2>4, <2>5, <2>6, <2>7, <2>8 DEF ExecutorStep
<1> QED
  BY <1>1, <1>2, <1>3, <1>4 DEF ActorsInv

(* The clients and the orchestrator.                                       *)
LEMMA ClientTypes ==
  ASSUME TypeOK, ActorsInv,
         \/ \E r \in Requests : SubmitMessage(r) \/ Steer(r) \/ StopRead(r)
         \/ RecycleConversation \/ RestoreConversation \/ OrchestratorStep
  PROVE  DurableTypeOK' /\ exec' \in Execution /\ ActorsTypeOK' /\ ActorsInv'
<1>0. DurableTypeOK /\ exec \in Execution /\ ActorsTypeOK
  BY TypeParts
<1>1. CASE \/ \E r \in Requests : SubmitMessage(r)
           \/ RestoreConversation
  BY <1>0, <1>1 DEF SubmitMessage, RestoreConversation, durable, volatile, DurableTypeOK,
     ActorsTypeOK, ActorsInv
<1>2. ASSUME NEW r \in Requests, Steer(r)
      PROVE  DurableTypeOK' /\ exec' \in Execution /\ ActorsTypeOK' /\ ActorsInv'
  <2>1. /\ pending' = pending \cup {r} /\ wake' = TRUE
        /\ spent' = [spent EXCEPT !.steers = @ + 1]
        /\ UNCHANGED <<turn, phase, message, dispatched, observed, exec, claims, drain, resuming,
                        stop, recovery>>
    BY <1>2 DEF Steer
  <2>2. spent' \in Bounds
    BY <1>0, <2>1 DEF ActorsTypeOK, Bounds
  <2> QED
    BY <1>0, <2>1, <2>2 DEF DurableTypeOK, ActorsTypeOK, ActorsInv
<1>3. ASSUME NEW r \in Requests, StopRead(r)
      PROVE  DurableTypeOK' /\ exec' \in Execution /\ ActorsTypeOK' /\ ActorsInv'
  <2>1. /\ stop' = [at |-> "mark", req |-> r, anchored |-> row[r].anchored]
        /\ spent' = [spent EXCEPT !.stops = @ + 1]
        /\ UNCHANGED <<durable, exec, claims, drain, wake, resuming, recovery>>
    BY <1>3 DEF StopRead
  <2>2. spent' \in Bounds
    BY <1>0, <2>1 DEF ActorsTypeOK, Bounds
  <2>3. stop' \in StopType
    BY <2>1 DEF TypeOK, QueueTypeOK, Row, StopType
  <2> QED
    BY <1>0, <2>1, <2>2, <2>3 DEF durable, DurableTypeOK, ActorsTypeOK, ActorsInv
<1>4. CASE RecycleConversation
  <2>1. spent' = [spent EXCEPT !.recycles = @ + 1] /\ UNCHANGED <<durable, volatile>>
    BY <1>4 DEF RecycleConversation
  <2>2. spent' \in Bounds
    BY <1>0, <2>1 DEF ActorsTypeOK, Bounds
  <2> QED
    BY <1>0, <2>1, <2>2 DEF durable, volatile, DurableTypeOK, ActorsTypeOK, ActorsInv
<1>5. CASE OrchestratorStep
  <2>1. CASE Drain
    <3>1. /\ drain' = FALSE /\ UNCHANGED <<durable, exec, wake, resuming, stop, recovery, spent>>
          /\ \/ claims' = claims
             \/ \E r \in Requests : claims' = claims \cup {[req |-> r, resume |-> FALSE]}
      BY <2>1 DEF Drain
    <3>2. \A r \in Requests : [req |-> r, resume |-> FALSE] \in Claim
      BY DEF Claim
    <3>3. claims' \in SUBSET Claim
      BY <1>0, <3>1, <3>2 DEF ActorsTypeOK
    <3> QED
      BY <1>0, <3>1, <3>3 DEF durable, DurableTypeOK, ActorsTypeOK, ActorsInv
  <2>2. CASE WakeCheck
    BY <1>0, <2>2 DEF WakeCheck, durable, DurableTypeOK, ActorsTypeOK, ActorsInv
  <2>3. CASE \E r \in resuming : WakeClaim(r)
    <3>1. /\ resuming' \subseteq resuming
          /\ UNCHANGED <<durable, exec, drain, wake, stop, recovery, spent>>
          /\ \/ claims' = claims
             \/ \E r \in Requests : claims' = claims \cup {[req |-> r, resume |-> TRUE]}
      BY <1>0, <2>3 DEF WakeClaim, ActorsTypeOK
    <3>2. \A r \in Requests : [req |-> r, resume |-> TRUE] \in Claim
      BY DEF Claim
    <3>3. claims' \in SUBSET Claim /\ resuming' \in SUBSET Requests
      BY <1>0, <3>1, <3>2 DEF ActorsTypeOK
    <3> QED
      BY <1>0, <3>1, <3>3 DEF durable, DurableTypeOK, ActorsTypeOK, ActorsInv
  <2>4. ASSUME NEW c \in claims, Begin(c)
        PROVE  DurableTypeOK' /\ exec' \in Execution /\ ActorsTypeOK' /\ ActorsInv'
    <3>1. /\ claims' = claims \ {c}
          /\ exec' = exec \/ exec' = NewExecution(c.req, c.resume)
          /\ UNCHANGED <<durable, drain, wake, resuming, stop, recovery, spent>>
      BY <2>4 DEF Begin
    <3>2. c.req \in Requests /\ c.resume \in BOOLEAN
      BY <1>0 DEF ActorsTypeOK, Claim
    <3>3. exec' \in Execution /\ (exec'.at # "idle" => exec'.req \in Requests)
      BY <1>0, <3>1, <3>2, ExecutionType DEF ActorsInv
    <3> QED
      BY <1>0, <3>1, <3>3 DEF durable, DurableTypeOK, ActorsTypeOK, ActorsInv
  <2> QED
    BY <1>5, <2>1, <2>2, <2>3, <2>4 DEF OrchestratorStep
<1> QED
  BY <1>1, <1>2, <1>3, <1>4, <1>5

(* The stop handler and a crash.                                           *)
LEMMA StopTypes ==
  ASSUME TypeOK, ActorsInv, StopStep \/ Crash
  PROVE  DurableTypeOK' /\ exec' \in Execution /\ ActorsTypeOK' /\ ActorsInv'
<1>0. DurableTypeOK /\ exec \in Execution /\ ActorsTypeOK /\ stop \in StopType
  BY TypeParts DEF ActorsTypeOK
<1>1. ASSUME NEW next \in {"signal", "cancelTurn", "commit", "end"},
             stop.at # "idle", stop' = [stop EXCEPT !.at = next]
      PROVE  stop' \in StopType /\ stop'.req \in Requests
  BY <1>0, <1>1 DEF StopType, ActorsInv
<1>2. CASE StopStep
  <2>1. /\ UNCHANGED <<phase, pending, dispatched, observed, claims, wake, resuming, recovery, spent>>
        /\ stop.at # "idle"
    BY <1>2 DEF StopStep, StopMark, StopSignal, StopCancelTurn, StopCommit, StopEnd, durable
  <2>2. drain' \in BOOLEAN
    BY <1>0, <1>2 DEF StopStep, StopMark, StopSignal, StopCancelTurn, StopCommit, StopEnd,
       ActorsTypeOK
  <2>3. stop' \in StopType /\ (stop'.at # "idle" => stop'.req \in Requests)
    <3>1. \/ stop' = IdleStop
          \/ \E next \in {"signal", "cancelTurn", "commit", "end"} :
               stop' = [stop EXCEPT !.at = next]
      BY <1>2 DEF StopStep, StopMark, StopSignal, StopCancelTurn, StopCommit, StopEnd
    <3> QED
      BY <1>1, <2>1, <3>1, RestType
  <2>4. exec' \in Execution /\ exec'.at = exec.at /\ exec'.req = exec.req
    <3>1. exec' = exec \/ exec' = [exec EXCEPT !.aborted = TRUE]
      BY <1>2 DEF StopStep, StopMark, StopSignal, StopCancelTurn, StopCommit, StopEnd
    <3> QED
      BY <1>0, <3>1 DEF Execution
  <2>5. turn' \in [Requests -> TurnStatus]
    <3>1. turn' = turn \/ EndTurn(stop.req, "cancelled")
      BY <1>2 DEF StopStep, StopMark, StopSignal, StopCancelTurn, StopCommit, StopEnd, durable
    <3>2. "cancelled" \in TurnTerminal \cup {"none"}
      BY DEF TurnTerminal
    <3> QED
      BY <1>0, <3>1, <3>2, EndType DEF DurableTypeOK
  <2>6. message' \in [Requests -> MessageState]
    <3>1. message' = message \/ SettleMessage(stop.req, "cancelled")
      BY <1>2 DEF StopStep, StopMark, StopSignal, StopCancelTurn, StopCommit, StopEnd, durable
    <3>2. "cancelled" \in TurnTerminal \cup {"none"}
      BY DEF TurnTerminal
    <3> QED
      BY <1>0, <3>1, <3>2, EndType DEF DurableTypeOK
  <2> QED
    BY <1>0, <2>1, <2>2, <2>3, <2>4, <2>5, <2>6 DEF DurableTypeOK, ActorsTypeOK, ActorsInv
<1>3. CASE Crash
  <2>1. recovery' = [NoRecovery EXCEPT !.at = "snapshot"]
        /\ spent' = [spent EXCEPT !.crashes = @ + 1]
        /\ exec' = IdleExecution /\ stop' = IdleStop
        /\ claims' = {} /\ drain' = FALSE /\ wake' = FALSE /\ resuming' = {}
        /\ UNCHANGED durable
    BY <1>3 DEF Crash
  <2>2. recovery' \in RecoveryType /\ recovery'.at = "snapshot"
    BY <2>1, RestType DEF RecoveryType
  <2>3. spent' \in Bounds
    BY <1>0, <2>1 DEF ActorsTypeOK, Bounds
  <2> QED
    BY <1>0, <2>1, <2>2, <2>3, RestType, ExecutionType
       DEF durable, DurableTypeOK, ActorsTypeOK, ActorsInv
<1> QED
  BY <1>2, <1>3

(* The recovery.                                                           *)
LEMMA RecoveryTypes ==
  ASSUME TypeOK, ActorsInv, RecoveryStep
  PROVE  DurableTypeOK' /\ exec' \in Execution /\ ActorsTypeOK' /\ ActorsInv'
<1>0. DurableTypeOK /\ exec \in Execution /\ ActorsTypeOK /\ recovery \in RecoveryType
  BY TypeParts DEF ActorsTypeOK
<1>1. UNCHANGED <<claims, resuming, stop, spent, phase, pending, dispatched, observed>>
  BY DEF RecoveryStep, RecoverySnapshot, RecoveryClaim, RecoveryLaunch, RecoveryFail,
     RecoveryFindCancelling, RecoveryCancel, RecoveryWake, RecoveryDrain, RecoveryInspect,
     RecoveryKeeps, durable
<1>2. drain' \in BOOLEAN /\ wake' \in BOOLEAN
  BY <1>0 DEF RecoveryStep, RecoverySnapshot, RecoveryClaim, RecoveryLaunch, RecoveryFail,
     RecoveryFindCancelling, RecoveryCancel, RecoveryWake, RecoveryDrain, RecoveryInspect,
     ActorsTypeOK
<1>3. NextItem \in RecoveryType /\ NextItem.at = "each"
  BY <1>0, RestType DEF NextItem, RecoveryType
<1>4. /\ recovery' \in RecoveryType
      /\ recovery'.at \in {"claim", "launch", "fail"} => recovery'.req \in Requests
  <2>1. CASE RecoverySnapshot
    <3>1. {[req |-> r, status |-> row[r].status, anchored |-> row[r].anchored] :
             r \in InStatus({"STARTING", "RUNNING"})} \in SUBSET Item
      BY DEF TypeOK, QueueTypeOK, Row, InStatus, Item
    <3> DEFINE rows == {[req |-> r, status |-> row[r].status, anchored |-> row[r].anchored] :
                          r \in InStatus({"STARTING", "RUNNING"})}
    <3>2. recovery' = [recovery EXCEPT !.at = "each", !.list = rows]
      BY <2>1 DEF RecoverySnapshot
    <3> HIDE DEF rows
    <3> QED
      BY <1>0, <3>1, <3>2 DEF RecoveryType, rows
  <2>2. ASSUME NEW i \in recovery.list, RecoveryInspect(i)
        PROVE  recovery' \in RecoveryType /\ recovery'.req \in Requests
    <3>1. i.req \in Requests /\ i.anchored \in BOOLEAN
      BY <1>0 DEF RecoveryType, Item
    <3>2. \E next \in {"claim", "fail"}, resume \in BOOLEAN :
            recovery' = [recovery EXCEPT !.at = next, !.list = @ \ {i}, !.req = i.req,
                           !.anchored = i.anchored, !.resume = resume]
      BY <2>2 DEF RecoveryInspect
    <3>3. recovery.list \ {i} \in SUBSET Item
      BY <1>0 DEF RecoveryType
    <3> QED
      BY <1>0, <3>1, <3>2, <3>3 DEF RecoveryType
  <2>3. CASE RecoveryClaim
    <3>1. recovery.at = "claim"
          /\ \E next \in {"launch", "fail"} : recovery' = [recovery EXCEPT !.at = next]
      BY <2>3 DEF RecoveryClaim
    <3> QED
      BY <1>0, <3>1 DEF RecoveryType, ActorsInv
  <2>4. CASE RecoveryLaunch \/ RecoveryFail
    <3>1. recovery.at \in {"launch", "fail"}
          /\ (recovery' = NextItem \/ recovery' = [recovery EXCEPT !.at = "fail"])
      BY <2>4 DEF RecoveryLaunch, RecoveryFail
    <3> QED
      BY <1>0, <1>3, <3>1 DEF RecoveryType, ActorsInv
  <2>5. CASE RecoveryFindCancelling
    BY <1>0, <2>5 DEF RecoveryFindCancelling, RecoveryType, InStatus
  <2>6. CASE RecoveryCancel \/ RecoveryWake \/ RecoveryDrain
    <3>1. \/ recovery' = [NoRecovery EXCEPT !.at = "wake"]
          \/ recovery' = [recovery EXCEPT !.at = "drain"]
          \/ recovery' = NoRecovery
      BY <2>6 DEF RecoveryCancel, RecoveryWake, RecoveryDrain
    <3> QED
      BY <1>0, <3>1, RestType DEF RecoveryType
  <2> QED
    BY <2>1, <2>2, <2>3, <2>4, <2>5, <2>6 DEF RecoveryStep, RecoverySnapshot
<1>5. exec' \in Execution /\ (exec'.at # "idle" => exec'.req \in Requests)
  <2>1. \/ exec' = exec
        \/ RecoveryLaunch /\ exec' = NewExecution(recovery.req, recovery.resume)
    BY DEF RecoveryStep, RecoverySnapshot, RecoveryClaim, RecoveryLaunch, RecoveryFail,
       RecoveryFindCancelling, RecoveryCancel, RecoveryWake, RecoveryDrain, RecoveryInspect
  <2>2. RecoveryLaunch => recovery.req \in Requests /\ recovery.resume \in BOOLEAN
    BY <1>0 DEF RecoveryLaunch, ActorsInv, RecoveryType
  <2> QED
    BY <1>0, <2>1, <2>2, ExecutionType DEF ActorsInv
<1>6. turn' \in [Requests -> TurnStatus] /\ message' \in [Requests -> MessageState]
  <2>1. CASE RecoveryFail
    <3>1. "failed" \in TurnTerminal \cup {"none"} /\ "failed" \in MessageState
      BY DEF TurnTerminal, MessageState, Settled
    <3>2. EndTurn(recovery.req, "failed")
          /\ (message' = message \/ message' = [message EXCEPT ![recovery.req] = "failed"])
      BY <2>1 DEF RecoveryFail
    <3> QED
      BY <1>0, <3>1, <3>2, EndType DEF DurableTypeOK
  <2>2. CASE RecoveryCancel
    BY <1>0, <2>2 DEF RecoveryCancel, DurableTypeOK, TurnStatus, TurnTerminal, MessageState, Settled
  <2>3. CASE ~RecoveryFail /\ ~RecoveryCancel
    BY <1>0, <2>3 DEF RecoveryStep, RecoverySnapshot, RecoveryClaim, RecoveryLaunch,
       RecoveryFindCancelling, RecoveryWake, RecoveryDrain, RecoveryInspect, durable, DurableTypeOK
  <2> QED
    BY <2>1, <2>2, <2>3
<1>7. DurableTypeOK'
  BY <1>0, <1>1, <1>6 DEF DurableTypeOK
<1>8. ActorsTypeOK'
  BY <1>0, <1>1, <1>2, <1>4 DEF ActorsTypeOK
<1>9. ActorsInv'
  BY <1>1, <1>4, <1>5 DEF ActorsInv
<1> QED
  BY <1>5, <1>7, <1>8, <1>9

-----------------------------------------------------------------------------
(* The statements of the queue that look at the status of the row.         *)
GuardedStep(r) ==
  \/ Submit(r) \/ ClaimNext(r) \/ ClaimUserResume(r) \/ ClaimRecovery(r)
  \/ MarkRunning(r) \/ MarkCancelling(r)
  \/ \E status \in Waiting : MarkWaiting(r, status)
  \/ \E status \in Terminal : MarkTerminal(r, status)

GuardedNext ==
  \/ \E r \in Requests : GuardedStep(r)
  \/ \E S \in SUBSET Requests : CancelAfterRestart(S)
  \/ Recycle
  \/ Restore

(* Every step but one uses the queue through one of these, on a request, or *)
(* leaves it alone.                                                        *)
LEMMA StepIsGuarded ==
  ASSUME TypeOK, ActorsInv, [Next]_vars, ~RecoveryFail
  PROVE  [GuardedNext]_queueVars
<1>0. DurableTypeOK /\ exec \in Execution /\ ActorsTypeOK
  BY TypeParts
<1>1. CASE \E r \in Requests : SubmitMessage(r) \/ Steer(r) \/ StopRead(r)
  BY <1>1 DEF SubmitMessage, Steer, StopRead, GuardedNext, GuardedStep
<1>2. CASE RecycleConversation \/ RestoreConversation
  BY <1>2 DEF RecycleConversation, RestoreConversation, GuardedNext
<1>3. CASE OrchestratorStep
  <2>1. CASE Drain
    BY <2>1 DEF Drain, GuardedNext, GuardedStep, queueVars
  <2>2. CASE \E r \in resuming : WakeClaim(r)
    BY <1>0, <2>2 DEF WakeClaim, ActorsTypeOK, GuardedNext, GuardedStep, queueVars
  <2>3. CASE WakeCheck \/ \E c \in claims : Begin(c)
    BY <2>3 DEF WakeCheck, Begin
  <2> QED
    BY <1>3, <2>1, <2>2, <2>3 DEF OrchestratorStep
<1>4. CASE ExecutorStep
  <2>1. CASE Announce
    <3>1. Req \in Requests
      BY <2>1 DEF Announce, At, ActorsInv, Req
    <3> QED
      BY <2>1, <3>1 DEF Announce, GuardedNext, GuardedStep, queueVars
  <2>2. CASE ReportWaiting
    <3>1. Req \in Requests /\ "WAITING_USER" \in Waiting
      BY <2>2 DEF ReportWaiting, At, ActorsInv, Req, Waiting
    <3> QED
      BY <2>2, <3>1 DEF ReportWaiting, GuardedNext, GuardedStep, queueVars
  <2>3. CASE Report
    <3>1. Req \in Requests /\ StatusOf(exec.outcome) \in Terminal
      BY <2>3 DEF Report, At, ActorsInv, Req, StatusOf, Terminal
    <3> QED
      BY <2>3, <3>1 DEF Report, GuardedNext, GuardedStep, queueVars
  <2>4. CASE ~Announce /\ ~ReportWaiting /\ ~Report
    BY <1>4, <2>4 DEF ExecutorStep, CreateUserMessage, CreateAssistantShell, AnchorTurn, EnterRunner,
       StartTurn, RestoreTrajectory, Iterate, ModelAnswers, ModelCallsTools, DispatchTools,
       ObserveTools, ModelAsksUser, LoopStops, LoopThrows, CommitResult, CompleteTurn,
       FinalizeMessage, CompletePause, CommitPause, AgentCatch, TurnCatch, RequestCatch, Finish
  <2> QED
    BY <2>1, <2>2, <2>3, <2>4
<1>5. CASE StopStep
  <2>1. stop.req \in Requests /\ "CANCELLED" \in Terminal
    BY <1>5 DEF StopStep, StopMark, StopSignal, StopCancelTurn, StopCommit, StopEnd, ActorsInv,
       Terminal
  <2> QED
    BY <1>5, <2>1 DEF StopStep, StopMark, StopSignal, StopCancelTurn, StopCommit, StopEnd,
       GuardedNext, GuardedStep, queueVars
<1>6. CASE Crash
  BY <1>6 DEF Crash
<1>7. CASE RecoveryStep
  <2>1. CASE RecoveryClaim
    <3>1. recovery.req \in Requests
      BY <2>1 DEF RecoveryClaim, ActorsInv
    <3> QED
      BY <2>1, <3>1 DEF RecoveryClaim, GuardedNext, GuardedStep, queueVars
  <2>2. CASE RecoveryCancel
    <3>1. recovery.cancelling \in SUBSET Requests
      BY <1>0 DEF ActorsTypeOK, RecoveryType
    <3> QED
      BY <2>2, <3>1 DEF RecoveryCancel, GuardedNext
  <2>3. CASE ~RecoveryClaim /\ ~RecoveryCancel
    BY <1>7, <2>3 DEF RecoveryStep, RecoverySnapshot, RecoveryLaunch, RecoveryFindCancelling,
       RecoveryWake, RecoveryDrain, RecoveryInspect
  <2> QED
    BY <2>1, <2>2, <2>3
<1>8. CASE UNCHANGED vars
  BY <1>8 DEF vars
<1> QED
  BY <1>1, <1>2, <1>3, <1>4, <1>5, <1>6, <1>7, <1>8 DEF Next

(* With the bulk failure of the recovery, every step uses the queue.       *)
LEMMA StepUsesQueue ==
  ASSUME TypeOK, ActorsInv, [Next]_vars
  PROVE  [QueueNext]_queueVars
<1>1. CASE RecoveryFail
  <2>1. recovery.req \in Requests
    BY <1>1 DEF RecoveryFail, ActorsInv
  <2> QED
    BY <1>1, <2>1 DEF RecoveryFail, QueueNext, QueueStep
<1>2. CASE ~RecoveryFail
  <2>1. GuardedNext => QueueNext
    BY DEF GuardedNext, GuardedStep, QueueNext, QueueStep
  <2> QED
    BY <1>2, <2>1, StepIsGuarded
<1> QED
  BY <1>1, <1>2

-----------------------------------------------------------------------------
Inv == TypeOK /\ QueueInv /\ ActorsInv

LEMMA InitInv == Init => Inv
<1> SUFFICES ASSUME Init PROVE Inv
  OBVIOUS
<1>1. QueueInv
  BY InitEstablishesInv DEF Init
<1>2. DurableTypeOK
  BY DEF Init, DurableTypeOK, TurnStatus, Phase, MessageState
<1>3. exec \in Execution /\ ActorsTypeOK
  BY ExecutionType, RestType DEF Init, ActorsTypeOK, Bounds
<1>4. ActorsInv
  BY ExecutionType, RestType DEF Init, ActorsInv
<1> QED
  BY <1>1, <1>2, <1>3, <1>4, TypeParts DEF Inv, QueueInv

(* The types, the queue and who works on what, together.                   *)
LEMMA NextInv == Inv /\ [Next]_vars => Inv'
<1> SUFFICES ASSUME Inv, [Next]_vars PROVE Inv'
  OBVIOUS
<1>1. TypeOK /\ QueueInv /\ ActorsInv
  BY DEF Inv
<1>2. QueueInv'
  BY <1>1, StepUsesQueue, NextKeepsInv
<1>3. DurableTypeOK' /\ exec' \in Execution /\ ActorsTypeOK' /\ ActorsInv'
  <2>1. CASE UNCHANGED vars
    <3>1. DurableTypeOK /\ exec \in Execution /\ ActorsTypeOK
      BY <1>1, TypeParts
    <3> QED
      BY <1>1, <2>1, <3>1 DEF vars, durable, volatile, DurableTypeOK, ActorsTypeOK, ActorsInv
  <2>2. CASE Next
    BY <1>1, <2>2, ClientTypes, ExecutorTypes, StopTypes, RecoveryTypes DEF Next
  <2> QED
    BY <2>1, <2>2
<1>4. QueueTypeOK'
  BY <1>2 DEF QueueInv
<1>5. TypeOK'
  BY <1>3, <1>4 DEF TypeOK, DurableTypeOK, ActorsTypeOK, StopType, RecoveryType
<1> QED
  BY <1>2, <1>3, <1>5 DEF Inv

(* Types: every variable of the conversation keeps its type.               *)
THEOREM ChatTurnTypeCorrect == Spec => []TypeOK
<1>1. Inv => TypeOK
  BY DEF Inv
<1> QED
  BY <1>1, InitInv, NextInv, PTL DEF Spec

(* The orchestrator, the executor, the stop handler and the recovery       *)
(* together implement the queue, so what holds of the queue holds of them. *)
THEOREM ImplementsQueue == Spec => QueueSpec
<1>1. Init => QueueInit
  BY DEF Init
<1>2. Inv /\ [Next]_vars => [QueueNext]_queueVars
  BY StepUsesQueue DEF Inv
<1> QED
  BY <1>1, <1>2, InitInv, NextInv, PTL DEF Spec, QueueSpec

-----------------------------------------------------------------------------
(* A checkpoint that restore accepts has every batch that was let go, and  *)
(* so has the loop while it may let go another.                            *)
ReplayInv ==
  /\ \A r \in Requests :
       phase[r] \in {"none", "ready", "waiting_user"} => dispatched[r] = observed[r]
  /\ exec.at \in {"iterate", "model", "dispatch"} => dispatched[Req] = observed[Req]
  /\ exec.at \in {"dispatch", "observe"} => phase[Req] = "executing_tools"

(* Only the executor's steps touch a checkpoint or let a batch go.         *)
LEMMA OthersLetNothingGo ==
  ASSUME Inv, [Next]_vars, ~ExecutorStep
  PROVE  /\ UNCHANGED <<phase, dispatched, observed>>
         /\ \/ exec'.at = exec.at /\ exec'.req = exec.req
            \/ exec'.at \in {"idle", "user"}
<1>1. CASE UNCHANGED vars
  BY <1>1 DEF vars, durable, volatile
<1>2. CASE \/ \E r \in Requests : SubmitMessage(r) \/ Steer(r) \/ StopRead(r)
           \/ RecycleConversation \/ RestoreConversation
  BY <1>2 DEF SubmitMessage, Steer, StopRead, RecycleConversation, RestoreConversation, durable,
     volatile
<1>3. CASE OrchestratorStep
  <2>1. UNCHANGED durable /\ (exec' = exec \/ \E r, resume : exec' = NewExecution(r, resume))
    BY <1>3 DEF OrchestratorStep, Drain, WakeCheck, WakeClaim, Begin
  <2> QED
    BY <2>1 DEF durable, NewExecution
<1>4. CASE StopStep
  <2>1. UNCHANGED <<phase, dispatched, observed>>
        /\ (exec' = exec \/ exec' = [exec EXCEPT !.aborted = TRUE])
    BY <1>4 DEF StopStep, StopMark, StopSignal, StopCancelTurn, StopCommit, StopEnd, durable
  <2>2. exec \in Execution
    BY DEF Inv, TypeOK
  <2> QED
    BY <2>1, <2>2 DEF Execution
<1>5. CASE Crash
  BY <1>5, ExecutionType DEF Crash, durable
<1>6. CASE RecoveryStep
  <2>1. UNCHANGED <<phase, dispatched, observed>>
        /\ (exec' = exec \/ exec' = NewExecution(recovery.req, recovery.resume))
    BY <1>6 DEF RecoveryStep, RecoverySnapshot, RecoveryClaim, RecoveryLaunch, RecoveryFail,
       RecoveryFindCancelling, RecoveryCancel, RecoveryWake, RecoveryDrain, RecoveryInspect, durable
  <2> QED
    BY <2>1 DEF NewExecution
<1> QED
  BY <1>1, <1>2, <1>3, <1>4, <1>5, <1>6 DEF Next

(* What is let go is in the checkpoint before the turn can be restored.    *)
LEMMA NextKeepsReplay ==
  Inv /\ ReplayInv /\ [Next]_vars => ReplayInv'
<1> SUFFICES ASSUME Inv, ReplayInv, [Next]_vars PROVE ReplayInv'
  OBVIOUS
<1>0. /\ exec \in Execution /\ phase \in [Requests -> Phase]
      /\ dispatched \in [Requests -> Nat] /\ observed \in [Requests -> Nat]
      /\ exec.at # "idle" => Req \in Requests
  BY DEF Inv, TypeOK, ActorsInv, Req
<1>1. CASE ~ExecutorStep
  BY <1>1, OthersLetNothingGo DEF ReplayInv, Req
<1>2. CASE \/ CreateUserMessage \/ CreateAssistantShell \/ AnchorTurn \/ Announce \/ EnterRunner
           \/ StartTurn \/ LoopStops \/ LoopThrows \/ CompleteTurn \/ FinalizeMessage
           \/ CompletePause \/ CommitPause \/ ReportWaiting \/ AgentCatch \/ TurnCatch
           \/ RequestCatch \/ Report \/ Finish
  <2>1. UNCHANGED <<phase, dispatched, observed>>
    BY <1>2 DEF CreateUserMessage, CreateAssistantShell, AnchorTurn, Announce, EnterRunner,
       StartTurn, LoopStops, LoopThrows, CompleteTurn, FinalizeMessage, CompletePause, CommitPause,
       ReportWaiting, AgentCatch, TurnCatch, RequestCatch, Report, Finish, durable
  <2>2. exec'.at \notin {"iterate", "model", "dispatch", "observe"}
    <3>1. CASE CreateUserMessage \/ CreateAssistantShell \/ AnchorTurn \/ Announce \/ EnterRunner
               \/ StartTurn
      BY <1>0, <3>1 DEF CreateUserMessage, CreateAssistantShell, AnchorTurn, Announce, EnterRunner,
         StartTurn, Go, Execution
    <3>2. CASE LoopStops \/ LoopThrows \/ CompleteTurn \/ FinalizeMessage \/ CompletePause
               \/ CommitPause
      BY <1>0, <3>2 DEF LoopStops, LoopThrows, CompleteTurn, FinalizeMessage, CompletePause,
         CommitPause, Go, GoWith, Execution
    <3>3. CASE ReportWaiting \/ AgentCatch \/ TurnCatch \/ RequestCatch
      BY <1>0, <3>3 DEF ReportWaiting, AgentCatch, TurnCatch, RequestCatch, Go, GoWith, Execution
    <3>4. CASE Report
      <4>1. \/ exec' = [exec EXCEPT !.at = "finish", !.settled = TRUE]
            \/ exec' = [exec EXCEPT !.at = "finish"]
        BY <3>4 DEF Report, Go
      <4> QED
        BY <1>0, <4>1 DEF Execution
    <3>5. CASE Finish
      BY <3>5, ExecutionType DEF Finish
    <3> QED
      BY <1>2, <3>1, <3>2, <3>3, <3>4, <3>5
  <2> QED
    BY <2>1, <2>2 DEF ReplayInv
<1>3. CASE RestoreTrajectory
  <2>1. /\ UNCHANGED <<phase, dispatched, observed>> /\ exec.at = "restore"
        /\ exec'.req = exec.req /\ exec'.at \in {"iterate", "agentCatch"}
        /\ exec'.at = "iterate" => phase[Req] \in {"none", "ready", "waiting_user"}
    BY <1>0, <1>3 DEF RestoreTrajectory, At, Go, Execution, durable
  <2> QED
    BY <1>0, <2>1 DEF ReplayInv, Req
<1>4. CASE Iterate
  <2>1. /\ UNCHANGED <<dispatched, observed>> /\ exec.at = "iterate"
        /\ exec'.req = exec.req /\ exec'.at \in {"model", "result"}
        /\ phase' = phase \/ phase' = [phase EXCEPT ![Req] = "ready"]
    BY <1>0, <1>4 DEF Iterate, At, Go, GoWith, Execution
  <2> QED
    BY <1>0, <2>1 DEF ReplayInv, Req
<1>5. CASE ModelAnswers
  <2>1. /\ UNCHANGED <<phase, dispatched, observed>> /\ exec.at = "model"
        /\ exec'.req = exec.req /\ exec'.at \in {"iterate", "result"}
    BY <1>0, <1>5 DEF ModelAnswers, At, Go, GoWith, Execution
  <2> QED
    BY <1>0, <2>1 DEF ReplayInv, Req
<1>6. CASE ModelCallsTools
  <2>1. /\ UNCHANGED <<dispatched, observed>> /\ exec.at = "model"
        /\ exec'.req = exec.req /\ exec'.at = "dispatch"
        /\ phase' = [phase EXCEPT ![Req] = "executing_tools"]
    BY <1>0, <1>6 DEF ModelCallsTools, At, Go, Execution
  <2> QED
    BY <1>0, <2>1 DEF ReplayInv, Req
<1>7. CASE DispatchTools
  <2>1. /\ UNCHANGED <<phase, observed>> /\ exec.at = "dispatch"
        /\ exec'.req = exec.req /\ exec'.at = "observe"
        /\ dispatched' = [dispatched EXCEPT ![Req] = dispatched[Req] + 1]
    BY <1>0, <1>7 DEF DispatchTools, At, Go, Execution
  <2> QED
    BY <1>0, <2>1 DEF ReplayInv, Req
<1>8. CASE ObserveTools
  <2>1. /\ UNCHANGED dispatched /\ exec.at = "observe"
        /\ exec'.req = exec.req /\ exec'.at \in {"iterate", "result"}
        /\ phase' = [phase EXCEPT ![Req] = "ready"]
        /\ observed' = [observed EXCEPT ![Req] = dispatched[Req]]
    BY <1>0, <1>8 DEF ObserveTools, At, Go, GoWith, Execution
  <2> QED
    BY <1>0, <2>1 DEF ReplayInv, Req
<1>9. CASE ModelAsksUser \/ CommitResult
  <2>1. /\ UNCHANGED <<dispatched, observed>> /\ exec.at \in {"model", "result"}
        /\ exec'.at \in {"ask", "complete"}
        /\ \/ exec.at = "model" /\ phase' = [phase EXCEPT ![Req] = "waiting_user"]
           \/ phase' = [phase EXCEPT ![Req] = "terminal"]
    BY <1>0, <1>9 DEF ModelAsksUser, CommitResult, At, Go, GoWith, Execution
  <2> QED
    BY <1>0, <2>1 DEF ReplayInv, Req
<1> QED
  BY <1>1, <1>2, <1>3, <1>4, <1>5, <1>6, <1>7, <1>8, <1>9 DEF ExecutorStep

(* No blind replay: a batch is let go only when everything let go before   *)
(* is observed, over any number of crashes, resumptions and retries.       *)
THEOREM NothingIsReplayed == Spec => NoReplay
<1> DEFINE Seen == \A r \in Requests :
             dispatched'[r] > dispatched[r] => dispatched[r] = observed[r]
<1>1. Init => ReplayInv
  BY ExecutionType DEF Init, ReplayInv
<1>2. Inv /\ ReplayInv /\ [Next]_vars => Seen
  <2> SUFFICES ASSUME Inv, ReplayInv, [Next]_vars, NEW r \in Requests,
                      dispatched'[r] > dispatched[r]
               PROVE  dispatched[r] = observed[r]
    OBVIOUS
  <2>1. dispatched \in [Requests -> Nat]
    BY DEF Inv, TypeOK
  <2>2. DispatchTools
    <3>1. dispatched' # dispatched
      BY <2>1
    <3>2. ExecutorStep
      BY <3>1, OthersLetNothingGo
    <3> QED
      BY <3>1, <3>2 DEF ExecutorStep, CreateUserMessage, CreateAssistantShell, AnchorTurn, Announce,
         EnterRunner, StartTurn, RestoreTrajectory, Iterate, ModelAnswers, ModelCallsTools,
         ObserveTools, ModelAsksUser, LoopStops, LoopThrows, CommitResult, CompleteTurn,
         FinalizeMessage, CompletePause, CommitPause, ReportWaiting, AgentCatch, TurnCatch,
         RequestCatch, Report, Finish, durable
  <2>3. exec.at = "dispatch" /\ dispatched' = [dispatched EXCEPT ![Req] = dispatched[Req] + 1]
    BY <2>2 DEF DispatchTools, At
  <2>4. r = Req
    BY <2>1, <2>3
  <2> QED
    BY <2>3, <2>4 DEF ReplayInv
<1>3. Inv /\ ReplayInv /\ [Next]_vars => [Seen]_vars
  BY <1>2
<1> QED
  BY <1>1, <1>3, InitInv, NextInv, NextKeepsReplay, PTL DEF Spec, NoReplay

-----------------------------------------------------------------------------
(* What the recovery still knows of the rows it read: those it resumes or  *)
(* fails have been claimed, those it cancels are being cancelled or are    *)
(* cancelled.  Nothing in its two bulk updates checks either.              *)
RecoveryKnows ==
  /\ \A i \in recovery.list : row[i.req].started
  /\ recovery.at \in {"claim", "launch", "fail"} => row[recovery.req].started
  /\ recovery.at = "cancel" =>
       \A r \in recovery.cancelling : row[r].status \in {"CANCELLING", "CANCELLED"}

(* A request that was claimed stays claimed.                               *)
LEMMA StartedStays ==
  ASSUME QueueTypeOK, [QueueNext]_queueVars, NEW r \in Requests, row[r].started
  PROVE  row'[r].started
<1>0. row \in [Requests -> Row]
  BY DEF QueueTypeOK
<1>1. ASSUME NEW q \in Requests, QueueStep(q) PROVE row'[r].started
  <2>1. \/ \E n : row' = [row EXCEPT ![q].status = "QUEUED", ![q].sequence = n]
        \/ row' = [row EXCEPT ![q].status = "STARTING", ![q].started = TRUE]
        \/ row' = [row EXCEPT ![q].status = "RUNNING", ![q].anchored = TRUE]
        \/ \E status : row' = [row EXCEPT ![q].status = status]
    BY <1>1 DEF QueueStep, Submit, ClaimNext, ClaimUserResume, ClaimRecovery, MarkRunning,
       MarkCancelling, MarkWaiting, MarkTerminal, FailInterrupted, Move
  <2> QED
    BY <1>0, <2>1 DEF Row
<1>2. CASE \E S \in SUBSET Requests : CancelAfterRestart(S)
  BY <1>0, <1>2 DEF CancelAfterRestart, Row
<1>3. CASE Recycle
  <2>1. \/ row'[r] = [row[r] EXCEPT !.status = "BLOCKED"]
        \/ row'[r] = [row[r] EXCEPT !.status = "CANCELLING"]
        \/ row'[r] = row[r]
    BY <1>3 DEF Recycle
  <2> QED
    BY <1>0, <2>1 DEF Row
<1>4. CASE Restore \/ UNCHANGED queueVars
  BY <1>4 DEF Restore, queueVars
<1> QED
  BY <1>1, <1>2, <1>3, <1>4 DEF QueueNext

(* A request that is being cancelled can only become cancelled.            *)
LEMMA CancellingStays ==
  ASSUME QueueTypeOK, [GuardedNext]_queueVars, NEW r \in Requests,
         row[r].status \in {"CANCELLING", "CANCELLED"}
  PROVE  row'[r].status \in {"CANCELLING", "CANCELLED"}
<1>0. row \in [Requests -> Row]
  BY DEF QueueTypeOK
<1>1. ASSUME NEW q \in Requests, GuardedStep(q)
      PROVE  row'[r].status \in {"CANCELLING", "CANCELLED"}
  <2>1. CASE \E status \in Terminal : MarkTerminal(q, status)
    <3>1. PICK status \in Terminal : MarkTerminal(q, status)
      BY <2>1
    <3>2. row[q].status \in MayEndFrom(status) /\ row' = [row EXCEPT ![q].status = status]
      BY <3>1 DEF MarkTerminal, Move
    <3>3. CASE q = r
      <4>1. status = "CANCELLED"
        BY <3>2, <3>3 DEF MayEndFrom, Active, Waiting
      <4> QED
        BY <1>0, <3>2, <3>3, <4>1 DEF Row
    <3> QED
      BY <1>0, <3>2, <3>3
  <2>2. CASE ~ \E status \in Terminal : MarkTerminal(q, status)
    <3>1. row[q].status \in {"NONE", "QUEUED", "STARTING", "RUNNING"} \cup Waiting
      BY <1>1, <2>2 DEF GuardedStep, Submit, ClaimNext, IsFirstQueued, ClaimUserResume,
         ClaimRecovery, MarkRunning, MarkCancelling, MarkWaiting, Move, Waiting
    <3>2. q # r
      BY <3>1 DEF Waiting
    <3>3. \/ \E n : row' = [row EXCEPT ![q].status = "QUEUED", ![q].sequence = n]
          \/ row' = [row EXCEPT ![q].status = "STARTING", ![q].started = TRUE]
          \/ row' = [row EXCEPT ![q].status = "RUNNING", ![q].anchored = TRUE]
          \/ \E status : row' = [row EXCEPT ![q].status = status]
      BY <1>1, <2>2 DEF GuardedStep, Submit, ClaimNext, ClaimUserResume, ClaimRecovery, MarkRunning,
         MarkCancelling, MarkWaiting, Move
    <3> QED
      BY <1>0, <3>2, <3>3
  <2> QED
    BY <2>1, <2>2
<1>2. CASE \E S \in SUBSET Requests : CancelAfterRestart(S)
  BY <1>0, <1>2 DEF CancelAfterRestart, Row
<1>3. CASE Recycle
  BY <1>3 DEF Recycle
<1>4. CASE Restore \/ UNCHANGED queueVars
  BY <1>4 DEF Restore, queueVars
<1> QED
  BY <1>1, <1>2, <1>3, <1>4 DEF GuardedNext

(* The recovery's earlier reads stay good enough for what it does later.   *)
LEMMA NextKeepsKnowledge ==
  Inv /\ RecoveryKnows /\ [Next]_vars => RecoveryKnows'
<1> SUFFICES ASSUME Inv, RecoveryKnows, [Next]_vars PROVE RecoveryKnows'
  OBVIOUS
<1>0. /\ TypeOK /\ ActorsInv /\ QueueInv /\ QueueTypeOK /\ recovery \in RecoveryType
      /\ [QueueNext]_queueVars
  BY TypeParts, StepUsesQueue DEF Inv, ActorsTypeOK, QueueInv
<1>1. \A r \in Requests : row[r].started => row'[r].started
  BY <1>0, StartedStays
<1>2. \A i \in recovery.list : i.req \in Requests
  BY <1>0 DEF RecoveryType, Item
<1>3. CASE ~RecoveryStep /\ ~Crash
  <2>1. recovery' = recovery
    <3>1. CASE \/ \E r \in Requests : SubmitMessage(r) \/ Steer(r) \/ StopRead(r)
               \/ RecycleConversation \/ RestoreConversation \/ UNCHANGED vars
      BY <3>1 DEF SubmitMessage, Steer, StopRead, RecycleConversation, RestoreConversation, volatile,
         vars
    <3>2. CASE OrchestratorStep \/ StopStep
      BY <3>2 DEF OrchestratorStep, Drain, WakeCheck, WakeClaim, Begin, StopStep, StopMark,
         StopSignal, StopCancelTurn, StopCommit, StopEnd
    <3>3. CASE ExecutorStep
      BY <3>3 DEF ExecutorStep, CreateUserMessage, CreateAssistantShell, AnchorTurn, Announce,
         EnterRunner, StartTurn, RestoreTrajectory, Iterate, ModelAnswers, ModelCallsTools,
         DispatchTools, ObserveTools, ModelAsksUser, LoopStops, LoopThrows, CommitResult,
         CompleteTurn, FinalizeMessage, CompletePause, CommitPause, ReportWaiting, AgentCatch,
         TurnCatch, RequestCatch, Report, Finish, OthersKept
    <3> QED
      BY <1>3, <3>1, <3>2, <3>3 DEF Next
  <2>2. [GuardedNext]_queueVars
    BY <1>0, <1>3, StepIsGuarded DEF RecoveryStep
  <2>3. recovery.cancelling \subseteq Requests
    BY <1>0 DEF RecoveryType
  <2>4. recovery.at = "cancel" =>
          \A r \in recovery.cancelling : row'[r].status \in {"CANCELLING", "CANCELLED"}
    BY <1>0, <2>2, <2>3, CancellingStays DEF RecoveryKnows
  <2> QED
    BY <1>0, <1>1, <1>2, <2>1, <2>4 DEF RecoveryKnows, ActorsInv
<1>4. CASE Crash
  <2>1. recovery' = [NoRecovery EXCEPT !.at = "snapshot"]
    BY <1>4 DEF Crash
  <2>2. recovery'.at = "snapshot" /\ recovery'.list = {}
    BY <2>1 DEF NoRecovery
  <2> QED
    BY <2>2 DEF RecoveryKnows
<1>5. CASE RecoverySnapshot
  <2> DEFINE rows == {[req |-> r, status |-> row[r].status, anchored |-> row[r].anchored] :
                        r \in InStatus({"STARTING", "RUNNING"})}
  <2>1. recovery' = [recovery EXCEPT !.at = "each", !.list = rows] /\ row' = row
    BY <1>5 DEF RecoverySnapshot, queueVars
  <2>2. \A i \in rows : row[i.req].started
    BY <1>0 DEF InStatus, QueueInv, RowsAreCoherent, Active
  <2> HIDE DEF rows
  <2>3. recovery'.at = "each" /\ recovery'.list = rows
    BY <1>0, <2>1 DEF RecoveryType
  <2> QED
    BY <2>1, <2>2, <2>3 DEF RecoveryKnows
<1>6. ASSUME NEW i \in recovery.list, RecoveryInspect(i) PROVE RecoveryKnows'
  <2>1. /\ recovery'.at \in {"claim", "fail"} /\ recovery'.req = i.req
        /\ recovery'.list \subseteq recovery.list /\ row' = row
    BY <1>0, <1>6 DEF RecoveryInspect, RecoveryType, queueVars
  <2> QED
    BY <2>1 DEF RecoveryKnows
<1>7. CASE RecoveryClaim \/ RecoveryLaunch \/ RecoveryFail
  <2>1. NextItem.at = "each" /\ NextItem.list = recovery.list
    BY DEF NextItem, NoRecovery
  <2>2. /\ recovery.at \in {"claim", "launch", "fail"}
        /\ \/ recovery' = NextItem
           \/ \E next \in {"launch", "fail"} : recovery' = [recovery EXCEPT !.at = next]
    BY <1>7 DEF RecoveryClaim, RecoveryLaunch, RecoveryFail
  <2>3. /\ recovery'.list = recovery.list
        /\ \/ recovery'.at = "each"
           \/ recovery'.at \in {"launch", "fail"} /\ recovery'.req = recovery.req
    BY <1>0, <2>1, <2>2 DEF RecoveryType
  <2> QED
    BY <1>0, <1>1, <1>2, <2>2, <2>3 DEF RecoveryKnows, ActorsInv
<1>8. CASE RecoveryFindCancelling
  <2>1. /\ recovery.list = {} /\ recovery'.list = {} /\ recovery'.at = "cancel"
        /\ recovery'.cancelling = InStatus({"CANCELLING"}) /\ row' = row
    BY <1>0, <1>8 DEF RecoveryFindCancelling, RecoveryType, queueVars
  <2> QED
    BY <2>1 DEF RecoveryKnows, InStatus
<1>9. CASE RecoveryCancel \/ RecoveryWake \/ RecoveryDrain
  <2>1. /\ recovery'.list \subseteq recovery.list
        /\ recovery'.at \in {"wake", "drain", "done"}
    <3>1. \/ recovery' = [NoRecovery EXCEPT !.at = "wake"]
          \/ recovery' = [recovery EXCEPT !.at = "drain"]
          \/ recovery' = NoRecovery
      BY <1>9 DEF RecoveryCancel, RecoveryWake, RecoveryDrain
    <3> QED
      BY <1>0, <3>1 DEF RecoveryType, NoRecovery
  <2> QED
    BY <1>1, <1>2, <2>1 DEF RecoveryKnows
<1> QED
  BY <1>3, <1>4, <1>5, <1>6, <1>7, <1>8, <1>9 DEF RecoveryStep

(* The two bulk updates of the recovery meet only rows they are meant for, *)
(* whatever clients and executors did since it read them: their guards in  *)
(* the model never hold a step back.                                       *)
THEOREM RecoveryActsOnWhatItRead == Spec => []RecoveryKnows
<1>1. Init => RecoveryKnows
  BY DEF Init, NoRecovery, RecoveryKnows
<1> QED
  BY <1>1, InitInv, NextInv, NextKeepsKnowledge, PTL DEF Spec

-----------------------------------------------------------------------------
(* How turns end.  A request that is being cancelled, is cancelled or has  *)
(* failed never gets out of that: it is doomed, and whoever stops a turn   *)
(* from outside (the stop handler, the recovery) dooms its request before  *)
(* it touches the turn or the messages.  So as long as its request is not  *)
(* doomed, the executor may rely on what it wrote itself.                  *)
Doomed(r) == row[r].status \in {"CANCELLING", "CANCELLED", "FAILED"}

(* The stages in which the executor works on the turn, and those of them   *)
(* that belong to the loop.                                                *)
Working == {"open", "execute", "restore", "iterate", "model", "dispatch", "observe", "ask",
            "commitPause", "markWaiting", "result", "complete", "finalize",
            "agentCatch", "turnCatch"}
Looping == {"restore", "iterate", "model", "dispatch", "observe"}

(* Nothing is cancelled but what is doomed.                                *)
CancelsTheDoomed ==
  /\ stop.at \in {"signal", "cancelTurn", "commit", "end"} => Doomed(stop.req)
  /\ exec.aborted => Req \in Requests /\ Doomed(Req)
  /\ exec.at \in {"result", "complete", "finalize"} /\ exec.outcome = "cancelled" => exec.aborted
  /\ recovery.anchors \subseteq recovery.cancelling
  /\ \A r \in Requests : message[r] = "cancelled" => Doomed(r)

(* Nobody works on a turn whose request has succeeded or waits.            *)
WorksOnItsOwn ==
  (exec.at \in Working \/ (exec.at = "shell" /\ ~exec.resume)) =>
    row[Req].status \notin {"SUCCEEDED", "WAITING_USER"}

(* What the executor has written by the time it reports.                   *)
HasWritten ==
  (exec.at # "idle" /\ ~Doomed(Req)) =>
    /\ exec.at \in Looping => turn[Req] \notin TurnTerminal
    /\ exec.at \in {"ask", "commitPause", "markWaiting"} =>
         phase[Req] = "waiting_user" /\ turn[Req] = "waiting_user_input"
    /\ exec.at = "markWaiting" => message[Req] = "unfinished"
    /\ exec.at \in {"complete", "finalize", "report"} /\ exec.outcome = "succeeded" =>
         /\ phase[Req] = "terminal" /\ Req \notin pending
         /\ turn[Req] = IF exec.at = "complete" THEN "completing" ELSE "succeeded"
    /\ exec.at = "report" /\ exec.outcome = "succeeded" => message[Req] \in {"finished", "failed"}

(* A request that succeeded keeps what it was reported with.               *)
Committed ==
  \A r \in Requests : row[r].status = "SUCCEEDED" =>
    /\ turn[r] = "succeeded" /\ phase[r] = "terminal" /\ r \notin pending
    /\ message[r] \in {"finished", "failed"}

OutcomeInv ==
  CancelsTheDoomed /\ WorksOnItsOwn /\ HasWritten /\ Committed /\ ParkedIsResumable

(* Once doomed, a request stays doomed, whatever is called on the queue.   *)
LEMMA DoomedStays ==
  ASSUME QueueTypeOK, [QueueNext]_queueVars, NEW r \in Requests, Doomed(r)
  PROVE  Doomed(r)'
<1>0. row \in [Requests -> Row]
  BY DEF QueueTypeOK
<1>1. CASE \E q \in Requests : FailInterrupted(q)
  <2>1. PICK q \in Requests : row' = [row EXCEPT ![q].status = "FAILED"]
    BY <1>1 DEF FailInterrupted
  <2> QED
    BY <1>0, <2>1 DEF Doomed, Row
<1>2. ASSUME NEW q \in Requests, GuardedStep(q) PROVE Doomed(r)'
  <2>1. CASE \E status \in Terminal : MarkTerminal(q, status)
    <3>1. PICK status \in Terminal : MarkTerminal(q, status)
      BY <2>1
    <3>2. row[q].status \in MayEndFrom(status) /\ row' = [row EXCEPT ![q].status = status]
      BY <3>1 DEF MarkTerminal, Move
    <3>3. q = r => status = "CANCELLED"
      BY <3>2 DEF MayEndFrom, Active, Waiting, Doomed
    <3> QED
      BY <1>0, <3>2, <3>3 DEF Row, Doomed
  <2>2. CASE ~ \E status \in Terminal : MarkTerminal(q, status)
    <3>1. row[q].status \in {"NONE", "QUEUED", "STARTING", "RUNNING"} \cup Waiting
      BY <1>2, <2>2 DEF GuardedStep, Submit, ClaimNext, IsFirstQueued, ClaimUserResume,
         ClaimRecovery, MarkRunning, MarkCancelling, MarkWaiting, Move, Waiting
    <3>2. q # r
      BY <3>1 DEF Waiting, Doomed
    <3>3. \/ \E n : row' = [row EXCEPT ![q].status = "QUEUED", ![q].sequence = n]
          \/ row' = [row EXCEPT ![q].status = "STARTING", ![q].started = TRUE]
          \/ row' = [row EXCEPT ![q].status = "RUNNING", ![q].anchored = TRUE]
          \/ \E status : row' = [row EXCEPT ![q].status = status]
      BY <1>2, <2>2 DEF GuardedStep, Submit, ClaimNext, ClaimUserResume, ClaimRecovery, MarkRunning,
         MarkCancelling, MarkWaiting, Move
    <3> QED
      BY <1>0, <3>2, <3>3 DEF Doomed
  <2> QED
    BY <2>1, <2>2
<1>3. CASE \E S \in SUBSET Requests : CancelAfterRestart(S)
  BY <1>0, <1>3 DEF CancelAfterRestart, Row, Doomed
<1>4. CASE Recycle
  BY <1>4 DEF Recycle, Doomed
<1>5. CASE Restore \/ UNCHANGED queueVars
  BY <1>5 DEF Restore, queueVars, Doomed
<1> QED
  BY <1>1, <1>2, <1>3, <1>4, <1>5 DEF QueueNext, QueueStep, GuardedStep

(* Clients, orchestrator, stop handler and recovery: what they write of a  *)
(* request that is not doomed.                                             *)
LEMMA OthersLeaveTheTurn ==
  ASSUME Inv, RecoveryKnows, CancelsTheDoomed, [Next]_vars, ~ExecutorStep, NEW r \in Requests
  PROVE  /\ row'[r].status \in {"SUCCEEDED"} \cup Waiting => row'[r].status = row[r].status
         /\ ~Doomed(r)' => turn'[r] = turn[r] /\ message'[r] = message[r]
         /\ phase'[r] = phase[r]
         /\ r \in pending' => r \in pending \/ turn[r] \in {"running", "waiting_user_input"}
<1>0. /\ row \in [Requests -> Row] /\ DurableTypeOK /\ QueueTypeOK /\ ActorsInv
      /\ stop \in StopType /\ recovery \in RecoveryType
      /\ [QueueNext]_queueVars
  BY TypeParts, StepUsesQueue DEF Inv, QueueTypeOK, ActorsTypeOK, QueueInv
<1>1. Doomed(r) => Doomed(r)'
  BY <1>0, DoomedStays
<1>2. CASE \E q \in Requests : SubmitMessage(q) \/ Steer(q) \/ StopRead(q)
  <2>1. UNCHANGED <<turn, phase, message>>
    BY <1>2 DEF SubmitMessage, Steer, StopRead, durable
  <2>2. r \in pending' => r \in pending \/ turn[r] \in {"running", "waiting_user_input"}
    BY <1>2 DEF SubmitMessage, Steer, StopRead, durable
  <2>3. \/ row' = row
        \/ \E q \in Requests : \E n : row' = [row EXCEPT ![q].status = "QUEUED", ![q].sequence = n]
    BY <1>2 DEF SubmitMessage, Steer, StopRead, Submit, queueVars
  <2>4. row'[r].status = row[r].status \/ row'[r].status = "QUEUED"
    BY <1>0, <2>3 DEF Row
  <2> QED
    BY <2>1, <2>2, <2>4 DEF Waiting
<1>3. CASE RecycleConversation \/ RestoreConversation
  <2>1. UNCHANGED durable /\ (Recycle \/ Restore)
    BY <1>3 DEF RecycleConversation, RestoreConversation
  <2>2. row'[r].status = row[r].status \/ row'[r].status \in {"BLOCKED", "CANCELLING"}
    BY <1>0, <2>1 DEF Recycle, Restore, Row
  <2> QED
    BY <2>1, <2>2 DEF durable, Waiting
<1>4. CASE OrchestratorStep
  <2>1. /\ UNCHANGED durable
        /\ \/ row' = row
           \/ \E q \in Requests : row' = [row EXCEPT ![q].status = "STARTING"]
           \/ \E q \in Requests : row' = [row EXCEPT ![q].status = "STARTING", ![q].started = TRUE]
    <3>1. resuming \subseteq Requests
      BY DEF Inv, TypeOK
    <3> QED
      BY <1>4, <3>1 DEF OrchestratorStep, Drain, WakeCheck, WakeClaim, Begin, ClaimNext,
         ClaimUserResume, Move, queueVars
  <2>2. row'[r].status = row[r].status \/ row'[r].status = "STARTING"
    BY <1>0, <2>1 DEF Row
  <2> QED
    BY <2>1, <2>2 DEF durable, Waiting
<1>5. CASE StopStep
  <2>0. stop.req \in Requests
    BY <1>5 DEF StopStep, StopMark, StopSignal, StopCancelTurn, StopCommit, StopEnd, Inv, ActorsInv
  <2>1. /\ UNCHANGED <<phase, pending>>
        /\ \/ row' = row
           \/ row' = [row EXCEPT ![stop.req].status = "CANCELLING"]
           \/ row' = [row EXCEPT ![stop.req].status = "CANCELLED"]
    BY <1>5 DEF StopStep, StopMark, StopSignal, StopCancelTurn, StopCommit, StopEnd, MarkCancelling,
       MarkTerminal, Move, queueVars, durable
  <2>2. row'[r].status = row[r].status \/ row'[r].status \in {"CANCELLING", "CANCELLED"}
    BY <1>0, <2>0, <2>1 DEF Row
  <2>3. CASE turn' = turn /\ message' = message
    BY <2>1, <2>2, <2>3 DEF Waiting
  <2>4. CASE StopCancelTurn \/ StopCommit
    <3>1. Doomed(stop.req)
      BY <2>4 DEF StopCancelTurn, StopCommit, CancelsTheDoomed
    <3>2. r # stop.req => turn'[r] = turn[r] /\ message'[r] = message[r]
      BY <1>0, <2>4 DEF StopCancelTurn, StopCommit, EndTurn, SettleMessage, DurableTypeOK
    <3> QED
      BY <1>1, <2>1, <2>2, <3>1, <3>2 DEF Waiting
  <2> QED
    BY <1>5, <2>3, <2>4 DEF StopStep, StopMark, StopSignal, StopEnd, durable
<1>6. CASE Crash \/ UNCHANGED vars
  BY <1>6 DEF Crash, vars, queueVars, durable
<1>7. CASE RecoveryStep
  <2>1. UNCHANGED <<phase, pending>>
    BY <1>7 DEF RecoveryStep, RecoverySnapshot, RecoveryClaim, RecoveryLaunch, RecoveryFail,
       RecoveryFindCancelling, RecoveryCancel, RecoveryWake, RecoveryDrain, RecoveryInspect, durable
  <2>2. CASE RecoveryFail
    <3>1. /\ recovery.req \in Requests
          /\ row' = [row EXCEPT ![recovery.req].status = "FAILED"]
          /\ EndTurn(recovery.req, "failed")
          /\ message' = message \/ message' = [message EXCEPT ![recovery.req] = "failed"]
      BY <2>2 DEF RecoveryFail, FailInterrupted, Inv, ActorsInv
    <3>2. IF r = recovery.req THEN row'[r].status = "FAILED" ELSE row'[r] = row[r]
      BY <1>0, <3>1 DEF Row
    <3>3. r # recovery.req => turn'[r] = turn[r] /\ message'[r] = message[r]
      BY <1>0, <3>1 DEF EndTurn, DurableTypeOK
    <3> QED
      BY <2>1, <3>2, <3>3 DEF Doomed, Waiting
  <2>3. CASE RecoveryCancel
    <3>1. IF r \in recovery.cancelling THEN row'[r].status = "CANCELLED" ELSE row'[r] = row[r]
      BY <1>0, <2>3 DEF RecoveryCancel, CancelAfterRestart, Row
    <3>2. r \notin recovery.cancelling => turn'[r] = turn[r] /\ message'[r] = message[r]
      BY <2>3 DEF RecoveryCancel, CancelsTheDoomed
    <3> QED
      BY <2>1, <3>1, <3>2 DEF Doomed, Waiting
  <2>4. CASE ~RecoveryFail /\ ~RecoveryCancel
    <3>1. /\ UNCHANGED <<turn, message>>
          /\ row' = row \/ row' = [row EXCEPT ![recovery.req].status = "STARTING"]
      BY <1>7, <2>4 DEF RecoveryStep, RecoverySnapshot, RecoveryClaim, RecoveryLaunch,
         RecoveryFindCancelling, RecoveryWake, RecoveryDrain, RecoveryInspect, ClaimRecovery, Move,
         queueVars, durable
    <3>2. row'[r].status = row[r].status \/ row'[r].status = "STARTING"
      BY <1>0, <3>1 DEF Row
    <3> QED
      BY <2>1, <3>1, <3>2 DEF Waiting
  <2> QED
    BY <2>2, <2>3, <2>4
<1> QED
  BY <1>2, <1>3, <1>4, <1>5, <1>6, <1>7 DEF Next

(* What they do to the executor: a stop signals it, a crash ends it, a     *)
(* claim starts it.                                                        *)
LEMMA OthersOnTheExecutor ==
  ASSUME Inv, CancelsTheDoomed, [Next]_vars, ~ExecutorStep
  PROVE  \/ exec' = exec
         \/ /\ exec' = [exec EXCEPT !.aborted = TRUE]
            /\ exec.req = stop.req /\ Doomed(Req) /\ StopSignal
         \/ exec' = IdleExecution /\ Crash
         \/ \E q \in Requests, resume \in BOOLEAN : exec' = NewExecution(q, resume)
<1>1. CASE \/ \E r \in Requests : SubmitMessage(r) \/ Steer(r) \/ StopRead(r)
           \/ RecycleConversation \/ RestoreConversation \/ Crash \/ UNCHANGED vars
  BY <1>1 DEF SubmitMessage, Steer, StopRead, RecycleConversation, RestoreConversation, Crash,
     volatile, vars
<1>2. CASE OrchestratorStep
  <2>1. \A c \in claims : c.req \in Requests /\ c.resume \in BOOLEAN
    BY DEF Inv, TypeOK, Claim
  <2>2. exec' = exec \/ \E c \in claims : exec' = NewExecution(c.req, c.resume)
    BY <1>2 DEF OrchestratorStep, Drain, WakeCheck, WakeClaim, Begin
  <2> QED
    BY <2>1, <2>2
<1>3. CASE StopStep
  BY <1>3 DEF StopStep, StopMark, StopSignal, StopCancelTurn, StopCommit, StopEnd,
     CancelsTheDoomed, Req
<1>4. CASE RecoveryStep
  <2>1. exec' = exec \/ (RecoveryLaunch /\ exec' = NewExecution(recovery.req, recovery.resume))
    BY <1>4 DEF RecoveryStep, RecoverySnapshot, RecoveryClaim, RecoveryLaunch, RecoveryFail,
       RecoveryFindCancelling, RecoveryCancel, RecoveryWake, RecoveryDrain, RecoveryInspect
  <2>2. RecoveryLaunch => recovery.req \in Requests /\ recovery.resume \in BOOLEAN
    BY TypeParts DEF RecoveryLaunch, Inv, ActorsInv, ActorsTypeOK, RecoveryType
  <2> QED
    BY <2>1, <2>2
<1> QED
  BY <1>1, <1>2, <1>3, <1>4 DEF Next

(* Whoever stops a turn from outside has doomed its request before.        *)
LEMMA OthersCancelTheDoomed ==
  ASSUME Inv, RecoveryKnows, CancelsTheDoomed, [Next]_vars, ~ExecutorStep
  PROVE  CancelsTheDoomed'
<1>0. /\ row \in [Requests -> Row] /\ QueueTypeOK /\ ActorsInv /\ exec \in Execution
      /\ stop \in StopType /\ recovery \in RecoveryType
      /\ [QueueNext]_queueVars
  BY TypeParts, StepUsesQueue DEF Inv, QueueTypeOK, ActorsTypeOK, QueueInv
<1>1. \A r \in Requests : Doomed(r) => Doomed(r)'
  BY <1>0, DoomedStays
<1>2. stop'.at \in {"signal", "cancelTurn", "commit", "end"} => Doomed(stop.req)' /\ stop'.req = stop.req
  <2>1. CASE StopStep
    <3>0. stop.req \in Requests
      BY <2>1, <1>0 DEF StopStep, StopMark, StopSignal, StopCancelTurn, StopCommit, StopEnd, ActorsInv
    <3>1. CASE StopMark
      <4>1. CASE MarkCancelling(stop.req) /\ stop' = [stop EXCEPT !.at = "signal"]
        <5>1. row'[stop.req].status = "CANCELLING"
          BY <1>0, <3>0, <4>1 DEF MarkCancelling, Move, Row
        <5> QED
          BY <1>0, <4>1, <5>1 DEF StopType, Doomed
      <4> QED
        BY <3>1, <4>1, RestType DEF StopMark
    <3>2. CASE ~StopMark
      <4>1. /\ stop.at \in {"signal", "cancelTurn", "commit", "end"}
            /\ \/ stop' = IdleStop
               \/ \E next \in {"cancelTurn", "commit", "end"} : stop' = [stop EXCEPT !.at = next]
        BY <2>1, <3>2 DEF StopStep, StopSignal, StopCancelTurn, StopCommit, StopEnd
      <4> QED
        BY <1>0, <1>1, <3>0, <4>1, RestType DEF StopType, CancelsTheDoomed
    <3> QED
      BY <3>1, <3>2
  <2>2. CASE ~StopStep
    <3>1. \/ stop' = stop \/ stop' = IdleStop
          \/ \E r \in Requests : stop' = [at |-> "mark", req |-> r, anchored |-> row[r].anchored]
      <4>1. CASE \/ \E r \in Requests : SubmitMessage(r) \/ Steer(r) \/ StopRead(r)
                 \/ RecycleConversation \/ RestoreConversation \/ Crash \/ UNCHANGED vars
        BY <4>1 DEF SubmitMessage, Steer, StopRead, RecycleConversation, RestoreConversation, Crash,
           volatile, vars
      <4>2. CASE OrchestratorStep \/ RecoveryStep
        BY <4>2 DEF OrchestratorStep, Drain, WakeCheck, WakeClaim, Begin, RecoveryStep,
           RecoverySnapshot, RecoveryClaim, RecoveryLaunch, RecoveryFail, RecoveryFindCancelling,
           RecoveryCancel, RecoveryWake, RecoveryDrain, RecoveryInspect, RecoveryKeeps
      <4> QED
        BY <2>2, <4>1, <4>2 DEF Next
    <3> QED
      BY <1>0, <1>1, <3>1, RestType DEF CancelsTheDoomed, ActorsInv
  <2> QED
    BY <2>1, <2>2
<1>3. /\ exec'.aborted => Req' \in Requests /\ Doomed(Req)'
      /\ exec'.at \in {"result", "complete", "finalize"} /\ exec'.outcome = "cancelled"
           => exec'.aborted
  <2>1. CASE exec' = exec
    BY <1>0, <1>1, <2>1 DEF CancelsTheDoomed, Req, Doomed, ActorsInv
  <2>2. CASE /\ exec' = [exec EXCEPT !.aborted = TRUE]
             /\ exec.req = stop.req /\ Doomed(Req) /\ StopSignal
    <3>1. /\ exec'.aborted /\ exec'.req = exec.req /\ row' = row
          /\ exec.req = stop.req /\ stop.req \in Requests
      BY <1>0, <2>2 DEF Execution, StopSignal, queueVars, ActorsInv
    <3> QED
      BY <2>2, <3>1 DEF Doomed, Req
  <2>3. CASE \/ exec' = IdleExecution
             \/ \E q \in Requests, resume \in BOOLEAN : exec' = NewExecution(q, resume)
    BY <2>3 DEF IdleExecution, NewExecution
  <2> QED
    BY <2>1, <2>2, <2>3, OthersOnTheExecutor
<1>4. recovery'.anchors \subseteq recovery'.cancelling
  <2>1. CASE RecoveryFindCancelling
    <3>1. /\ recovery'.cancelling = InStatus({"CANCELLING"})
          /\ recovery'.anchors = {r \in InStatus({"CANCELLING"}) : row[r].anchored}
      BY <1>0, <2>1 DEF RecoveryFindCancelling, RecoveryType
    <3> QED
      BY <3>1
  <2>2. CASE ~RecoveryFindCancelling
    <3>1. \/ recovery'.anchors = recovery.anchors /\ recovery'.cancelling = recovery.cancelling
          \/ recovery'.anchors = {}
      <4>1. CASE \/ \E r \in Requests : SubmitMessage(r) \/ Steer(r) \/ StopRead(r)
                 \/ RecycleConversation \/ RestoreConversation \/ UNCHANGED vars
        BY <4>1 DEF SubmitMessage, Steer, StopRead, RecycleConversation, RestoreConversation,
           volatile, vars
      <4>2. CASE OrchestratorStep \/ StopStep
        BY <4>2 DEF OrchestratorStep, Drain, WakeCheck, WakeClaim, Begin, StopStep, StopMark,
           StopSignal, StopCancelTurn, StopCommit, StopEnd
      <4>3. CASE Crash
        BY <4>3 DEF Crash, NoRecovery
      <4>4. CASE RecoveryStep
        <5>1. CASE RecoveryLaunch \/ RecoveryFail
          BY <1>0, <5>1 DEF RecoveryLaunch, RecoveryFail, NextItem, NoRecovery, RecoveryType
        <5>2. CASE RecoveryCancel \/ RecoveryDrain
          BY <5>2 DEF RecoveryCancel, RecoveryDrain, NoRecovery
        <5>3. CASE RecoverySnapshot \/ RecoveryClaim \/ RecoveryWake
          BY <1>0, <5>3 DEF RecoverySnapshot, RecoveryClaim, RecoveryWake, RecoveryType
        <5>4. ASSUME NEW i \in recovery.list, RecoveryInspect(i)
              PROVE  /\ recovery'.anchors = recovery.anchors
                     /\ recovery'.cancelling = recovery.cancelling
          BY <1>0, <5>4 DEF RecoveryInspect, RecoveryType
        <5> QED
          BY <2>2, <4>4, <5>1, <5>2, <5>3, <5>4 DEF RecoveryStep
      <4> QED
        BY <4>1, <4>2, <4>3, <4>4 DEF Next
    <3> QED
      BY <3>1 DEF CancelsTheDoomed
  <2> QED
    BY <2>1, <2>2
<1>5. \A r \in Requests : message'[r] = "cancelled" => Doomed(r)'
  BY <1>1, OthersLeaveTheTurn DEF CancelsTheDoomed
<1> QED
  BY <1>2, <1>3, <1>4, <1>5 DEF CancelsTheDoomed, Req, Doomed

(* What the executor has written stays, and so does what was reported.     *)
LEMMA OthersKeepOutcome ==
  ASSUME Inv, RecoveryKnows, OutcomeInv, [Next]_vars, ~ExecutorStep
  PROVE  OutcomeInv'
<1>0. /\ QueueTypeOK /\ ActorsInv /\ exec \in Execution /\ DurableTypeOK
      /\ [QueueNext]_queueVars /\ CancelsTheDoomed
  BY TypeParts, StepUsesQueue DEF Inv, QueueInv, OutcomeInv
<1>1. \A r \in Requests : Doomed(r) => Doomed(r)'
  BY <1>0, DoomedStays
<1>2. /\ exec'.req = exec.req /\ exec'.at = exec.at /\ exec'.resume = exec.resume
      /\ exec'.outcome = exec.outcome
      \/ exec'.at \in {"idle", "user"}
  <2>1. CASE exec' = exec \/ exec' = [exec EXCEPT !.aborted = TRUE]
    BY <1>0, <2>1 DEF Execution
  <2>2. CASE \/ exec' = IdleExecution
             \/ \E q \in Requests, resume \in BOOLEAN : exec' = NewExecution(q, resume)
    BY <2>2 DEF IdleExecution, NewExecution
  <2> QED
    BY <1>0, <2>1, <2>2, OthersOnTheExecutor
<1>3. CancelsTheDoomed'
  BY <1>0, OthersCancelTheDoomed
<1>4. WorksOnItsOwn'
  <2>1. CASE exec'.at \in {"idle", "user"}
    BY <2>1 DEF WorksOnItsOwn, Working
  <2>2. CASE exec'.at \notin {"idle", "user"}
    <3>1. Req' = Req /\ exec'.at = exec.at /\ exec'.resume = exec.resume /\ Req \in Requests
      BY <1>0, <1>2, <2>2 DEF Req, ActorsInv
    <3>2. row'[Req].status \in {"SUCCEEDED"} \cup Waiting => row'[Req].status = row[Req].status
      BY <1>0, <3>1, OthersLeaveTheTurn
    <3> QED
      BY <3>1, <3>2 DEF WorksOnItsOwn, OutcomeInv, Waiting
  <2> QED
    BY <2>1, <2>2
<1>5. HasWritten'
  <2>1. CASE exec'.at \in {"idle", "user"}
    BY <2>1 DEF HasWritten, Looping
  <2>2. CASE exec'.at \notin {"idle", "user"}
    <3>1. /\ Req' = Req /\ exec'.at = exec.at /\ exec'.outcome = exec.outcome /\ Req \in Requests
          /\ exec.at # "idle"
      BY <1>0, <1>2, <2>2 DEF Req, ActorsInv
    <3>2. CASE ~Doomed(Req)'
      <4>1. /\ turn'[Req] = turn[Req] /\ message'[Req] = message[Req] /\ phase'[Req] = phase[Req]
            /\ Req \in pending' => Req \in pending \/ turn[Req] \in {"running", "waiting_user_input"}
            /\ ~Doomed(Req)
        BY <1>0, <1>1, <3>1, <3>2, OthersLeaveTheTurn
      <4> QED
        BY <3>1, <4>1 DEF HasWritten, OutcomeInv
    <3>3. CASE Doomed(Req)'
      BY <3>1, <3>3 DEF HasWritten, Doomed
    <3> QED
      BY <3>2, <3>3
  <2> QED
    BY <2>1, <2>2
<1>6. Committed' /\ ParkedIsResumable'
  <2>1. ASSUME NEW r \in Requests, row'[r].status \in {"SUCCEEDED", "WAITING_USER"}
        PROVE  /\ row'[r].status = row[r].status
               /\ turn'[r] = turn[r] /\ message'[r] = message[r] /\ phase'[r] = phase[r]
               /\ r \in pending' => r \in pending \/ turn[r] \in {"running", "waiting_user_input"}
    BY <1>0, <2>1, OthersLeaveTheTurn DEF Doomed, Waiting
  <2> QED
    BY <2>1 DEF OutcomeInv, Committed, ParkedIsResumable
<1> QED
  BY <1>3, <1>4, <1>5, <1>6 DEF OutcomeInv

(* The executor works on one request and on nothing else.                  *)
LEMMA ExecutorFrame ==
  ASSUME Inv, ExecutorStep
  PROVE  /\ exec.at # "idle" /\ Req \in Requests
         /\ UNCHANGED <<claims, stop, recovery, resuming, spent>>
         /\ \A r \in Requests \ {Req} :
              /\ row'[r] = row[r] /\ turn'[r] = turn[r]
              /\ phase'[r] = phase[r] /\ message'[r] = message[r]
         /\ pending' \subseteq pending
         /\ \/ exec' = IdleExecution
            \/ exec'.req = exec.req /\ exec'.resume = exec.resume /\ exec'.aborted = exec.aborted
         /\ row' = row \/ Announce \/ ReportWaiting \/ Report
<1>0. /\ row \in [Requests -> Row] /\ DurableTypeOK /\ exec \in Execution
  BY TypeParts DEF Inv, TypeOK, QueueTypeOK
<1>1. exec.at # "idle"
  BY DEF ExecutorStep, CreateUserMessage, CreateAssistantShell, AnchorTurn, Announce, EnterRunner,
     StartTurn, RestoreTrajectory, Iterate, ModelAnswers, ModelCallsTools, DispatchTools,
     ObserveTools, ModelAsksUser, LoopStops, LoopThrows, CommitResult, CompleteTurn,
     FinalizeMessage, CompletePause, CommitPause, ReportWaiting, AgentCatch, TurnCatch,
     RequestCatch, Report, Finish, At
<1>2. Req \in Requests
  BY <1>1 DEF Inv, ActorsInv, Req
<1>3. UNCHANGED <<claims, stop, recovery, resuming, spent>>
  BY DEF ExecutorStep, CreateUserMessage, CreateAssistantShell, AnchorTurn, Announce, EnterRunner,
     StartTurn, RestoreTrajectory, Iterate, ModelAnswers, ModelCallsTools, DispatchTools,
     ObserveTools, ModelAsksUser, LoopStops, LoopThrows, CommitResult, CompleteTurn,
     FinalizeMessage, CompletePause, CommitPause, ReportWaiting, AgentCatch, TurnCatch,
     RequestCatch, Report, Finish, OthersKept
<1>4. row' = row \/ Announce \/ ReportWaiting \/ Report
  BY DEF ExecutorStep, CreateUserMessage, CreateAssistantShell, AnchorTurn, EnterRunner,
     StartTurn, RestoreTrajectory, Iterate, ModelAnswers, ModelCallsTools, DispatchTools,
     ObserveTools, ModelAsksUser, LoopStops, LoopThrows, CommitResult, CompleteTurn,
     FinalizeMessage, CompletePause, CommitPause, AgentCatch, TurnCatch,
     RequestCatch, Finish, queueVars
<1>5. \A r \in Requests \ {Req} : row'[r] = row[r]
  <2>1. Announce \/ ReportWaiting \/ Report =>
          \/ row' = row
          \/ row' = [row EXCEPT ![Req].status = "RUNNING", ![Req].anchored = TRUE]
          \/ \E status : row' = [row EXCEPT ![Req].status = status]
    BY DEF Announce, ReportWaiting, Report, MarkRunning, MarkWaiting, MarkTerminal, Move, queueVars
  <2> QED
    BY <1>0, <1>2, <1>4, <2>1
<1>6. \A r \in Requests \ {Req} : turn'[r] = turn[r]
  <2>1. turn' = turn \/ \E status : turn' = [turn EXCEPT ![Req] = status]
    BY DEF ExecutorStep, CreateUserMessage, CreateAssistantShell, AnchorTurn, Announce, EnterRunner,
       StartTurn, RestoreTrajectory, Iterate, ModelAnswers, ModelCallsTools, DispatchTools,
       ObserveTools, ModelAsksUser, LoopStops, LoopThrows, CommitResult, CompleteTurn, EndTurn,
       FinalizeMessage, CompletePause, CommitPause, ReportWaiting, AgentCatch, TurnCatch,
       RequestCatch, Report, Finish, durable
  <2> QED
    BY <1>0, <1>2, <2>1 DEF DurableTypeOK
<1>7. \A r \in Requests \ {Req} : phase'[r] = phase[r]
  <2>1. phase' = phase \/ \E p : phase' = [phase EXCEPT ![Req] = p]
    BY DEF ExecutorStep, CreateUserMessage, CreateAssistantShell, AnchorTurn, Announce, EnterRunner,
       StartTurn, RestoreTrajectory, Iterate, ModelAnswers, ModelCallsTools, DispatchTools,
       ObserveTools, ModelAsksUser, LoopStops, LoopThrows, CommitResult, CompleteTurn,
       FinalizeMessage, CompletePause, CommitPause, ReportWaiting, AgentCatch, TurnCatch,
       RequestCatch, Report, Finish, durable
  <2> QED
    BY <1>0, <1>2, <2>1 DEF DurableTypeOK
<1>8. \A r \in Requests \ {Req} : message'[r] = message[r]
  <2>1. message' = message \/ \E m : message' = [message EXCEPT ![Req] = m]
    BY DEF ExecutorStep, CreateUserMessage, CreateAssistantShell, AnchorTurn, Announce, EnterRunner,
       StartTurn, RestoreTrajectory, Iterate, ModelAnswers, ModelCallsTools, DispatchTools,
       ObserveTools, ModelAsksUser, LoopStops, LoopThrows, CommitResult, CompleteTurn,
       FinalizeMessage, CompletePause, CommitPause, ReportWaiting, AgentCatch, TurnCatch,
       SettleMessage, RequestCatch, Report, Finish, durable
  <2> QED
    BY <1>0, <1>2, <2>1 DEF DurableTypeOK
<1>9. pending' \subseteq pending
  BY DEF ExecutorStep, CreateUserMessage, CreateAssistantShell, AnchorTurn, Announce, EnterRunner,
     StartTurn, RestoreTrajectory, Iterate, ModelAnswers, ModelCallsTools, DispatchTools,
     ObserveTools, ModelAsksUser, LoopStops, LoopThrows, CommitResult, CompleteTurn,
     FinalizeMessage, CompletePause, CommitPause, ReportWaiting, AgentCatch, TurnCatch,
     RequestCatch, Report, Finish, durable
<1>10. \/ exec' = IdleExecution
       \/ exec'.req = exec.req /\ exec'.resume = exec.resume /\ exec'.aborted = exec.aborted
  <2>1. CASE Finish
    BY <2>1 DEF Finish
  <2>2. CASE ~Finish
    <3>1. \/ \E at : exec' = [exec EXCEPT !.at = at]
          \/ \E at, o : exec' = [exec EXCEPT !.at = at, !.outcome = o]
          \/ \E at, settled : exec' = [exec EXCEPT !.at = at, !.settled = settled]
      BY <2>2 DEF ExecutorStep, CreateUserMessage, CreateAssistantShell, AnchorTurn, Announce,
         EnterRunner, StartTurn, RestoreTrajectory, Iterate, ModelAnswers, ModelCallsTools,
         DispatchTools, ObserveTools, ModelAsksUser, LoopStops, LoopThrows, CommitResult,
         CompleteTurn, FinalizeMessage, CompletePause, CommitPause, ReportWaiting, AgentCatch,
         TurnCatch, RequestCatch, Report, Go, GoWith
    <3> QED
      BY <1>0, <3>1 DEF Execution
  <2> QED
    BY <2>1, <2>2
<1> QED
  BY <1>1, <1>2, <1>3, <1>4, <1>5, <1>6, <1>7, <1>8, <1>9, <1>10

(* The executor cancels only when it was told to.                          *)
LEMMA ExecutorCancelsTheDoomed ==
  ASSUME Inv, CancelsTheDoomed, ExecutorStep
  PROVE  CancelsTheDoomed'
<1>0. /\ QueueTypeOK /\ exec \in Execution /\ DurableTypeOK /\ [QueueNext]_queueVars
  <2>1. [Next]_vars
    BY DEF Next
  <2> QED
    BY <2>1, TypeParts, StepUsesQueue DEF Inv, QueueInv
<1>1. \A r \in Requests : Doomed(r) => Doomed(r)'
  BY <1>0, DoomedStays
<1>2. stop' = stop /\ recovery' = recovery /\ Req \in Requests
  BY ExecutorFrame
<1>3. stop'.at \in {"signal", "cancelTurn", "commit", "end"} => Doomed(stop.req)'
  BY <1>1, <1>2 DEF CancelsTheDoomed, Inv, ActorsInv
<1>4. exec'.aborted => Req' \in Requests /\ Doomed(Req)'
  <2>1. CASE exec' = IdleExecution
    BY <2>1 DEF IdleExecution, NewExecution
  <2>2. CASE exec'.req = exec.req /\ exec'.aborted = exec.aborted
    BY <1>1, <2>2 DEF CancelsTheDoomed, Req, Doomed
  <2> QED
    BY <2>1, <2>2, ExecutorFrame
<1>5. exec'.at \in {"result", "complete", "finalize"} /\ exec'.outcome = "cancelled"
        => exec'.aborted
  <2>1. CASE Iterate \/ ModelAnswers \/ ObserveTools \/ LoopStops
    <3>1. \/ exec'.at \notin {"result", "complete", "finalize"}
          \/ exec'.outcome \in {"succeeded", "partial", "failed"}
          \/ exec'.aborted
      BY <1>0, <2>1 DEF Iterate, ModelAnswers, ObserveTools, LoopStops, Go, GoWith, Execution
    <3> QED
      BY <3>1
  <2>2. CASE CommitResult \/ CompleteTurn
    <3>1. /\ exec.at \in {"result", "complete"} /\ exec'.aborted = exec.aborted
          /\ exec'.outcome = exec.outcome \/ exec'.outcome = "partial"
      BY <1>0, <2>2 DEF CommitResult, CompleteTurn, At, Go, GoWith, Execution
    <3> QED
      BY <3>1 DEF CancelsTheDoomed
  <2>3. CASE Finish \/ Report
    <3>1. \/ exec' = IdleExecution \/ exec' = [exec EXCEPT !.at = "finish"]
          \/ exec' = [exec EXCEPT !.at = "finish", !.settled = TRUE]
      BY <2>3 DEF Finish, Report, Go
    <3>2. exec'.at \in {"idle", "finish"}
      BY <1>0, <3>1, ExecutionType DEF Execution
    <3> QED
      BY <3>2
  <2>4. CASE \/ CreateUserMessage \/ CreateAssistantShell \/ AnchorTurn \/ Announce \/ EnterRunner
             \/ StartTurn \/ RestoreTrajectory
    BY <1>0, <2>4 DEF CreateUserMessage, CreateAssistantShell, AnchorTurn, Announce, EnterRunner,
       StartTurn, RestoreTrajectory, Go, Execution
  <2>5. CASE \/ ModelCallsTools \/ DispatchTools \/ ModelAsksUser \/ LoopThrows
    BY <1>0, <2>5 DEF ModelCallsTools, DispatchTools, ModelAsksUser, LoopThrows, Go, Execution
  <2>6. CASE \/ FinalizeMessage \/ CompletePause \/ CommitPause \/ ReportWaiting \/ AgentCatch
             \/ TurnCatch \/ RequestCatch
    BY <1>0, <2>6 DEF FinalizeMessage, CompletePause, CommitPause, ReportWaiting, AgentCatch,
       TurnCatch, RequestCatch, Go, GoWith, Execution
  <2> QED
    BY <2>1, <2>2, <2>3, <2>4, <2>5, <2>6 DEF ExecutorStep
<1>6. ASSUME NEW r \in Requests, message'[r] = "cancelled" PROVE Doomed(r)'
  <2>1. CASE message'[r] = message[r]
    BY <1>1, <1>6, <2>1 DEF CancelsTheDoomed
  <2>2. CASE message'[r] # message[r]
    <3>1. r = Req
      BY <2>2, ExecutorFrame
    <3>2. CASE CreateUserMessage \/ CreateAssistantShell \/ CommitPause
      BY <1>0, <1>6, <2>2, <3>1, <3>2 DEF CreateUserMessage, CreateAssistantShell, CommitPause,
         DurableTypeOK
    <3>3. CASE FinalizeMessage
      <4>1. MessageOf(exec.outcome) = "cancelled" /\ exec.at = "finalize" /\ ~exec.aborted
        BY <1>0, <1>6, <2>2, <3>1, <3>3 DEF FinalizeMessage, SettleMessage, At, DurableTypeOK
      <4>2. exec.outcome = "cancelled"
        BY <4>1 DEF MessageOf
      <4> QED
        BY <4>1, <4>2 DEF CancelsTheDoomed
    <3>4. CASE TurnCatch
      <4>1. MessageOf("failed") # "cancelled"
        BY DEF MessageOf
      <4>2. exec.aborted
        BY <1>0, <1>6, <2>2, <3>1, <3>4, <4>1 DEF TurnCatch, SettleMessage, DurableTypeOK
      <4> QED
        BY <1>1, <3>1, <4>2 DEF CancelsTheDoomed
    <3> QED
      BY <2>2, <3>2, <3>3, <3>4 DEF ExecutorStep, AnchorTurn, Announce, EnterRunner, StartTurn,
         RestoreTrajectory, Iterate, ModelAnswers, ModelCallsTools, DispatchTools, ObserveTools,
         ModelAsksUser, LoopStops, LoopThrows, CommitResult, CompleteTurn, CompletePause,
         ReportWaiting, AgentCatch, RequestCatch, Report, Finish, durable
  <2> QED
    BY <2>1, <2>2
<1> QED
  BY <1>2, <1>3, <1>4, <1>5, <1>6 DEF CancelsTheDoomed, Req, Doomed

(* The executor starts work only on a request that runs under it.          *)
LEMMA ExecutorWorksOnItsOwn ==
  ASSUME Inv, OutcomeInv, ExecutorStep
  PROVE  WorksOnItsOwn'
<1>0. row \in [Requests -> Row] /\ exec \in Execution /\ Req \in Requests
  BY ExecutorFrame DEF Inv, TypeOK, QueueTypeOK
<1>1. CASE CreateUserMessage
  <2>1. /\ exec.at = "user" /\ exec'.at \in {"shell", "requestCatch"} /\ row' = row
        /\ exec'.req = exec.req /\ exec'.resume = exec.resume
        /\ exec'.at = "shell" => message[Req] = "none" \/ exec.resume
    BY <1>0, <1>1 DEF CreateUserMessage, At, Go, Execution, queueVars
  <2>2. message[Req] = "none" => row[Req].status \notin {"SUCCEEDED", "WAITING_USER"}
    BY <1>0 DEF OutcomeInv, Committed, ParkedIsResumable
  <2> QED
    BY <2>1, <2>2 DEF WorksOnItsOwn, Working, Req
<1>2. CASE CreateAssistantShell \/ AnchorTurn \/ RequestCatch
  <2>1. exec'.at \in {"anchor", "announce", "report", "requestCatch"}
    BY <1>0, <1>2 DEF CreateAssistantShell, AnchorTurn, RequestCatch, Go, GoWith, Execution
  <2> QED
    BY <2>1 DEF WorksOnItsOwn, Working
<1>3. CASE Announce
  <2>1. \/ exec'.at = "requestCatch"
        \/ exec'.req = exec.req /\ row'[Req].status = "RUNNING"
    BY <1>0, <1>3 DEF Announce, MarkRunning, Go, Execution, Row
  <2> QED
    BY <2>1 DEF WorksOnItsOwn, Working, Req
<1>4. CASE ReportWaiting \/ Report \/ Finish
  <2>1. \/ exec' = IdleExecution \/ exec' = [exec EXCEPT !.at = "finish"]
        \/ exec' = [exec EXCEPT !.at = "finish", !.settled = TRUE]
    BY <1>4 DEF ReportWaiting, Finish, Report, Go
  <2>2. exec'.at \in {"idle", "finish"}
    BY <1>0, <2>1, ExecutionType DEF Execution
  <2> QED
    BY <2>2 DEF WorksOnItsOwn, Working
<1>5. CASE \/ EnterRunner \/ StartTurn \/ RestoreTrajectory \/ Iterate \/ ModelAnswers
           \/ ModelCallsTools \/ DispatchTools \/ ObserveTools \/ ModelAsksUser \/ LoopStops
           \/ LoopThrows \/ CommitResult \/ CompleteTurn \/ FinalizeMessage \/ CompletePause
           \/ CommitPause \/ AgentCatch \/ TurnCatch
  <2>1. exec.at \in Working /\ row' = row
    BY <1>5 DEF EnterRunner, StartTurn, RestoreTrajectory, Iterate, ModelAnswers, ModelCallsTools,
       DispatchTools, ObserveTools, ModelAsksUser, LoopStops, LoopThrows, CommitResult,
       CompleteTurn, FinalizeMessage, CompletePause, CommitPause, AgentCatch, TurnCatch, At,
       Working, queueVars
  <2>2. exec'.req = exec.req \/ exec'.at = "idle"
    BY ExecutorFrame, ExecutionType
  <2>3. exec'.at = "idle" => exec'.at \notin Working \cup {"shell"}
    BY DEF Working
  <2> QED
    BY <2>1, <2>2, <2>3 DEF WorksOnItsOwn, OutcomeInv, Req
<1> QED
  BY <1>1, <1>2, <1>3, <1>4, <1>5 DEF ExecutorStep

(* Step by step, the executor writes what it is going to report.           *)
LEMMA ExecutorHasWritten ==
  ASSUME Inv, OutcomeInv, ExecutorStep
  PROVE  HasWritten'
<1>0. /\ exec \in Execution /\ DurableTypeOK /\ QueueTypeOK /\ Req \in Requests
      /\ [QueueNext]_queueVars
  <2>1. [Next]_vars
    BY DEF Next
  <2> QED
    BY <2>1, TypeParts, StepUsesQueue, ExecutorFrame DEF Inv, QueueInv
<1>1. CASE exec' = IdleExecution
  BY <1>1, ExecutionType DEF HasWritten
<1> SUFFICES ASSUME exec' # IdleExecution, exec'.at # "idle", ~Doomed(Req)'
             PROVE  HasWritten'
  BY <1>1 DEF HasWritten
<1>2. exec'.req = exec.req /\ Req' = Req /\ exec'.aborted = exec.aborted
  BY ExecutorFrame DEF Req
<1>3. ~Doomed(Req) /\ ~exec.aborted /\ message[Req] # "cancelled"
  <2>1. ~Doomed(Req)
    BY <1>0, <1>2, DoomedStays DEF Doomed
  <2> QED
    BY <1>0, <2>1 DEF OutcomeInv, CancelsTheDoomed
<1>4. exec.at # "idle"
  BY ExecutorFrame
<1>5. /\ exec.at \in Looping => turn[Req] \notin TurnTerminal
      /\ exec.at \in {"ask", "commitPause", "markWaiting"} =>
           phase[Req] = "waiting_user" /\ turn[Req] = "waiting_user_input"
      /\ exec.at = "markWaiting" => message[Req] = "unfinished"
      /\ exec.at \in {"complete", "finalize", "report"} /\ exec.outcome = "succeeded" =>
           /\ phase[Req] = "terminal" /\ Req \notin pending
           /\ turn[Req] = IF exec.at = "complete" THEN "completing" ELSE "succeeded"
  BY <1>3, <1>4 DEF OutcomeInv, HasWritten
<1>6. CASE \/ CreateUserMessage \/ CreateAssistantShell \/ AnchorTurn \/ Announce \/ EnterRunner
           \/ AgentCatch \/ LoopThrows \/ LoopStops
  <2>1. exec'.at \in {"shell", "anchor", "announce", "open", "execute", "turnCatch", "agentCatch",
                      "requestCatch", "result"}
    BY <1>0, <1>6 DEF CreateUserMessage, CreateAssistantShell, AnchorTurn, Announce, EnterRunner,
       AgentCatch, LoopThrows, LoopStops, Go, GoWith, Execution
  <2> QED
    BY <2>1 DEF HasWritten, Looping
<1>7. CASE ReportWaiting \/ Report \/ Finish
  <2>1. \/ exec' = IdleExecution \/ exec' = [exec EXCEPT !.at = "finish"]
        \/ exec' = [exec EXCEPT !.at = "finish", !.settled = TRUE]
    BY <1>7 DEF ReportWaiting, Finish, Report, Go
  <2>2. exec'.at \in {"idle", "finish"}
    BY <1>0, <2>1, ExecutionType DEF Execution
  <2> QED
    BY <2>2 DEF HasWritten, Looping
<1>8. CASE TurnCatch \/ RequestCatch
  <2>1. exec'.at \in {"report", "requestCatch"}
        /\ (exec'.at = "report" => exec'.outcome \in {"cancelled", "failed"})
    BY <1>0, <1>8 DEF TurnCatch, RequestCatch, Go, GoWith, Execution
  <2> QED
    BY <2>1 DEF HasWritten, Looping
<1>9. CASE StartTurn
  <2>1. exec'.at = "agentCatch" \/ (exec'.at = "restore" /\ turn'[Req] = "running")
    BY <1>0, <1>9 DEF StartTurn, Go, Execution, DurableTypeOK
  <2> QED
    BY <1>2, <2>1 DEF HasWritten, Looping, TurnTerminal
<1>10. CASE RestoreTrajectory \/ Iterate \/ ModelCallsTools \/ DispatchTools
  <2>1. turn' = turn /\ exec.at \in Looping
        /\ exec'.at \in {"iterate", "agentCatch", "result", "model", "dispatch", "observe"}
    BY <1>0, <1>10 DEF RestoreTrajectory, Iterate, ModelCallsTools, DispatchTools, At, Go, GoWith,
       Execution, Looping, durable
  <2> QED
    BY <1>2, <1>5, <2>1 DEF HasWritten, Looping
<1>11. CASE ModelAnswers \/ ObserveTools
  <2>1. /\ exec.at \in Looping /\ exec'.at \in {"iterate", "result"}
        /\ exec'.at = "iterate" => turn' = turn
    BY <1>0, <1>11 DEF ModelAnswers, ObserveTools, At, Go, GoWith, Execution, Looping
  <2> QED
    BY <1>2, <1>5, <2>1 DEF HasWritten, Looping
<1>12. CASE ModelAsksUser
  <2>1. exec'.at = "ask" /\ phase'[Req] = "waiting_user" /\ turn'[Req] = "waiting_user_input"
    BY <1>0, <1>5, <1>12 DEF ModelAsksUser, At, Go, Execution, Looping, DurableTypeOK
  <2> QED
    BY <1>2, <2>1 DEF HasWritten, Looping
<1>13. CASE CompletePause
  <2>1. /\ exec'.at = "commitPause" /\ phase' = phase /\ exec.at = "ask"
        /\ turn'[Req] = "waiting_user_input"
    BY <1>0, <1>5, <1>13 DEF CompletePause, At, Go, Execution, DurableTypeOK
  <2> QED
    BY <1>2, <1>5, <2>1 DEF HasWritten, Looping
<1>14. CASE CommitPause
  <2>1. /\ exec'.at = "markWaiting" /\ UNCHANGED <<turn, phase>> /\ exec.at = "commitPause"
        /\ message'[Req] = "unfinished"
    BY <1>0, <1>3, <1>14 DEF CommitPause, At, Go, Execution, DurableTypeOK
  <2> QED
    BY <1>2, <1>5, <2>1 DEF HasWritten, Looping
<1>15. CASE CommitResult
  <2>1. /\ exec'.at = "complete" /\ phase'[Req] = "terminal" /\ pending' = pending
        /\ exec'.outcome = "succeeded" => Sealable /\ turn'[Req] = "completing"
    BY <1>0, <1>15 DEF CommitResult, GoWith, Execution, DurableTypeOK
  <2> QED
    BY <1>2, <2>1 DEF HasWritten, Looping, Sealable
<1>16. CASE CompleteTurn
  <2>1. /\ exec.at = "complete" /\ exec'.at = "finalize" /\ exec'.outcome = exec.outcome
        /\ UNCHANGED <<phase, pending>> /\ EndTurn(Req, exec.outcome)
    BY <1>0, <1>16 DEF CompleteTurn, At, Go, Execution
  <2>2. exec.outcome = "succeeded" => turn'[Req] = "succeeded"
    BY <1>0, <1>5, <2>1 DEF EndTurn, TurnTerminal, DurableTypeOK
  <2> QED
    BY <1>2, <1>5, <2>1, <2>2 DEF HasWritten, Looping
<1>17. CASE FinalizeMessage
  <2>1. /\ exec.at = "finalize" /\ exec'.at = "report" /\ exec'.outcome = exec.outcome
        /\ UNCHANGED <<turn, phase, pending>> /\ SettleMessage(Req, exec.outcome)
    BY <1>0, <1>3, <1>17 DEF FinalizeMessage, At, Go, Execution
  <2>2. exec.outcome = "succeeded" => message'[Req] \in {"finished", "failed"}
    <3>1. MessageOf("succeeded") = "finished"
      BY DEF MessageOf
    <3> QED
      BY <1>0, <1>3, <2>1, <3>1 DEF SettleMessage, Settled, DurableTypeOK
  <2> QED
    BY <1>2, <1>5, <2>1, <2>2 DEF HasWritten, Looping
<1> QED
  BY <1>6, <1>7, <1>8, <1>9, <1>10, <1>11, <1>12, <1>13, <1>14, <1>15, <1>16, <1>17
     DEF ExecutorStep

(* What was reported is not written over, and what is reported was written.*)
LEMMA ExecutorKeepsReported ==
  ASSUME Inv, OutcomeInv, ExecutorStep
  PROVE  Committed' /\ ParkedIsResumable'
<1>0. /\ exec \in Execution /\ DurableTypeOK /\ row \in [Requests -> Row] /\ Req \in Requests
  BY TypeParts, ExecutorFrame DEF Inv, TypeOK, QueueTypeOK
<1> DEFINE Reported(r) == row[r].status \in {"SUCCEEDED", "WAITING_USER"}
           Kept(r)     == /\ turn'[r] = turn[r] /\ phase'[r] = phase[r]
                          /\ message'[r] = message[r] /\ (r \in pending' => r \in pending)
<1>1. ASSUME NEW r \in Requests, Reported(r) PROVE Kept(r)
  <2>1. CASE r # Req
    BY <2>1, ExecutorFrame
  <2>2. CASE r = Req
    <3>1. message[Req] \notin {"none", "user"} /\ turn[Req] # "none"
      BY <1>1, <2>2 DEF OutcomeInv, Committed, ParkedIsResumable
    <3>2. exec.at \notin Working /\ (exec.at = "shell" => exec.resume)
      BY <1>0, <1>1, <2>2 DEF OutcomeInv, WorksOnItsOwn, Execution
    <3>3. \/ CreateUserMessage \/ CreateAssistantShell \/ AnchorTurn \/ Announce
          \/ RequestCatch \/ Report \/ Finish
      BY <3>2 DEF ExecutorStep, EnterRunner, StartTurn, RestoreTrajectory, Iterate, ModelAnswers,
         ModelCallsTools, DispatchTools, ObserveTools, ModelAsksUser, LoopStops, LoopThrows,
         CommitResult, CompleteTurn, FinalizeMessage, CompletePause, CommitPause, ReportWaiting,
         AgentCatch, TurnCatch, At, Working
    <3>4. UNCHANGED <<turn, phase, message, pending>>
      BY <3>1, <3>2, <3>3 DEF CreateUserMessage, CreateAssistantShell, AnchorTurn, Announce,
         RequestCatch, Report, Finish, At, durable
    <3> QED
      BY <3>4
  <2> QED
    BY <2>1, <2>2
<1>2. ASSUME NEW r \in Requests, Reported(r)', row'[r].status # row[r].status
      PROVE  r = Req /\ (Report \/ ReportWaiting)
  <2>1. r = Req
    BY <1>2, ExecutorFrame
  <2>2. Announce => row' = row \/ row'[Req].status = "RUNNING"
    BY <1>0 DEF Announce, MarkRunning, Row, queueVars
  <2> QED
    BY <1>2, <2>1, <2>2, ExecutorFrame
<1>3. CASE Report /\ row'[Req].status # row[Req].status
  <2>1. /\ exec.at = "report" /\ UNCHANGED <<turn, phase, message, pending>>
        /\ MarkTerminal(Req, StatusOf(exec.outcome))
    BY <1>3 DEF Report, At, durable, queueVars
  <2>2. /\ row[Req].status \in MayEndFrom(StatusOf(exec.outcome))
        /\ row'[Req].status = StatusOf(exec.outcome)
    BY <1>0, <2>1 DEF MarkTerminal, Move, Row
  <2>3. StatusOf(exec.outcome) # "WAITING_USER"
    BY DEF StatusOf
  <2>4. ASSUME StatusOf(exec.outcome) = "SUCCEEDED"
        PROVE  /\ turn[Req] = "succeeded" /\ phase[Req] = "terminal" /\ Req \notin pending
               /\ message[Req] \in {"finished", "failed"}
    <3>1. exec.outcome = "succeeded"
      BY <2>4 DEF StatusOf
    <3>2. ~Doomed(Req)
      BY <2>2, <2>4 DEF MayEndFrom, Waiting, Doomed
    <3> QED
      BY <2>1, <3>1, <3>2 DEF OutcomeInv, HasWritten
  <2> QED
    BY <1>1, <1>2, <2>1, <2>2, <2>3, <2>4 DEF OutcomeInv, Committed, ParkedIsResumable
<1>4. CASE ReportWaiting /\ row'[Req].status # row[Req].status
  <2>1. /\ exec.at = "markWaiting" /\ UNCHANGED <<turn, phase, message, pending>>
        /\ row[Req].status = "RUNNING" /\ row'[Req].status = "WAITING_USER"
    BY <1>0, <1>4 DEF ReportWaiting, At, durable, queueVars, MarkWaiting, Move, Row
  <2>2. ~Doomed(Req)
    BY <2>1 DEF Doomed
  <2>3. /\ phase[Req] = "waiting_user" /\ turn[Req] = "waiting_user_input"
        /\ message[Req] = "unfinished"
    BY <2>1, <2>2 DEF OutcomeInv, HasWritten
  <2> QED
    BY <1>1, <1>2, <2>1, <2>3 DEF OutcomeInv, Committed, ParkedIsResumable
<1>5. CASE row'[Req].status = row[Req].status
  BY <1>1, <1>2, <1>5 DEF OutcomeInv, Committed, ParkedIsResumable
<1> QED
  BY <1>2, <1>3, <1>4, <1>5, <1>1 DEF OutcomeInv, Committed, ParkedIsResumable

LEMMA NextKeepsOutcome ==
  Inv /\ RecoveryKnows /\ OutcomeInv /\ [Next]_vars => OutcomeInv'
<1> SUFFICES ASSUME Inv, RecoveryKnows, OutcomeInv, [Next]_vars PROVE OutcomeInv'
  OBVIOUS
<1>1. CASE ExecutorStep
  BY <1>1, ExecutorCancelsTheDoomed, ExecutorWorksOnItsOwn, ExecutorHasWritten,
     ExecutorKeepsReported DEF OutcomeInv
<1>2. CASE ~ExecutorStep
  BY <1>2, OthersKeepOutcome
<1> QED
  BY <1>1, <1>2

LEMMA InitOutcome == Init => RecoveryKnows /\ OutcomeInv
<1> SUFFICES ASSUME Init PROVE RecoveryKnows /\ OutcomeInv
  OBVIOUS
<1>1. /\ exec.at = "idle" /\ exec.aborted = FALSE /\ stop.at = "idle"
      /\ recovery.at = "done" /\ recovery.list = {} /\ recovery.anchors = {}
  BY DEF Init, IdleExecution, NewExecution, IdleStop, NoRecovery
<1>2. \A r \in Requests : row[r].status = "NONE" /\ message[r] = "none"
  BY DEF Init, QueueInit
<1> QED
  BY <1>1, <1>2 DEF RecoveryKnows, OutcomeInv, CancelsTheDoomed, WorksOnItsOwn, HasWritten,
     Committed, ParkedIsResumable, Working, Looping

(* A request shown as waiting for the user can be continued, whatever      *)
(* stops, crashes, recoveries and late claims did before.                  *)
THEOREM ParkedIsResumableHolds == Spec => []ParkedIsResumable
<1>1. OutcomeInv => ParkedIsResumable
  BY DEF OutcomeInv
<1> QED
  BY <1>1, InitInv, NextInv, InitOutcome, NextKeepsKnowledge, NextKeepsOutcome, PTL DEF Spec


-----------------------------------------------------------------------------
(* Until the process stops for the first time nothing is recovered, and a  *)
(* request is claimed once for each time it is started: the executor finds *)
(* it as the claim left it, or doomed.                                     *)
Arriving == {"user", "shell", "anchor", "announce"}

ClaimedOnce ==
  \A c \in claims :
    /\ Doomed(c.req) \/ row[c.req].status = "STARTING"
    /\ exec.req = c.req /\ exec.at \notin {"idle", "finish"} => Doomed(c.req)
    /\ \A d \in claims : d.req = c.req => d = c \/ Doomed(c.req)

HoldsTheRequest ==
  /\ exec.at \in Arriving => Doomed(Req) \/ row[Req].status = "STARTING"
  /\ exec.at \in Working =>
       /\ row[Req].status \in {"RUNNING", "CANCELLING"}
       /\ stop.at \in {"cancelTurn", "commit", "end"} => stop.req # Req
  /\ exec.at \in {"requestCatch", "report"} =>
       Doomed(Req) \/ row[Req].status \in {"STARTING", "RUNNING"}

(* The executor is about to report the failure its message shows.          *)
ReportsFailure(r) ==
  /\ exec.req = r
  /\ \/ exec.at = "requestCatch"
     \/ exec.at = "report" /\ exec.outcome \in {"failed", "cancelled"}

FailureIsReported ==
  \A r \in Requests : message[r] = "failed" => Doomed(r) \/ ReportsFailure(r)

FirstLife ==
  spent.crashes = 0 =>
    recovery.at = "done" /\ ClaimedOnce /\ HoldsTheRequest /\ FailureIsReported

(* The executor in a first life.                                           *)
LEMMA ExecutorKeepsFirstLife ==
  ASSUME Inv, OutcomeInv, ExecutorStep, ClaimedOnce, HoldsTheRequest, FailureIsReported
  PROVE  ClaimedOnce' /\ HoldsTheRequest' /\ FailureIsReported'
<1>0. /\ exec \in Execution /\ DurableTypeOK /\ QueueTypeOK /\ Req \in Requests
      /\ row \in [Requests -> Row] /\ [QueueNext]_queueVars /\ claims \in SUBSET Claim
  <2>1. [Next]_vars
    BY DEF Next
  <2> QED
    BY <2>1, TypeParts, StepUsesQueue, ExecutorFrame DEF Inv, QueueInv, QueueTypeOK, ActorsTypeOK
<1>1. \A r \in Requests : Doomed(r) => Doomed(r)'
  BY <1>0, DoomedStays
<1>2. /\ claims' = claims /\ stop' = stop /\ exec.at # "idle"
      /\ \A r \in Requests \ {Req} : row'[r] = row[r] /\ message'[r] = message[r]
      /\ exec'.at = "idle" \/ (exec'.req = exec.req /\ Req' = Req)
      /\ exec'.at = "idle" => exec.at = "finish"
  <2>1. exec' = IdleExecution => exec'.at = "idle"
    BY ExecutionType
  <2>2. exec'.at = "idle" => exec.at = "finish"
    <3>1. CASE Finish
      BY <3>1 DEF Finish, At
    <3>2. CASE Report
      <4>1. \/ exec' = [exec EXCEPT !.at = "finish"]
            \/ exec' = [exec EXCEPT !.at = "finish", !.settled = TRUE]
        BY <3>2 DEF Report, Go
      <4> QED
        BY <1>0, <4>1 DEF Execution
    <3>3. CASE \/ CreateUserMessage \/ CreateAssistantShell \/ AnchorTurn \/ Announce
               \/ EnterRunner \/ StartTurn \/ RestoreTrajectory \/ Iterate \/ ModelAnswers
               \/ ModelCallsTools \/ DispatchTools \/ ObserveTools
      BY <1>0, <3>3 DEF CreateUserMessage, CreateAssistantShell, AnchorTurn, Announce, EnterRunner,
         StartTurn, RestoreTrajectory, Iterate, ModelAnswers, ModelCallsTools, DispatchTools,
         ObserveTools, Go, GoWith, Execution
    <3>4. CASE \/ ModelAsksUser \/ LoopStops \/ LoopThrows \/ CommitResult \/ CompleteTurn
               \/ FinalizeMessage \/ CompletePause \/ CommitPause \/ ReportWaiting \/ AgentCatch
               \/ TurnCatch \/ RequestCatch
      BY <1>0, <3>4 DEF ModelAsksUser, LoopStops, LoopThrows, CommitResult, CompleteTurn,
         FinalizeMessage, CompletePause, CommitPause, ReportWaiting, AgentCatch, TurnCatch,
         RequestCatch, Go, GoWith, Execution
    <3> QED
      BY <3>1, <3>2, <3>3, <3>4 DEF ExecutorStep
  <2> QED
    BY <2>1, <2>2, ExecutorFrame DEF Req
<1>3. ClaimedOnce'
  <2>1. ASSUME NEW c \in claims
        PROVE  /\ Doomed(c.req)' \/ row'[c.req].status = "STARTING"
               /\ exec'.req = c.req /\ exec'.at \notin {"idle", "finish"} => Doomed(c.req)'
               /\ \A d \in claims : d.req = c.req => d = c \/ Doomed(c.req)'
    <3>1. c.req \in Requests
      BY <1>0 DEF Claim
    <3>2. Doomed(c.req) => Doomed(c.req)'
      BY <1>1, <3>1
    <3>3. row'[c.req] = row[c.req] \/ Doomed(c.req) \/ exec.at = "finish"
      BY <1>2, <3>1 DEF ClaimedOnce, Req
    <3>4. exec.at = "finish" => row' = row /\ exec'.at = "idle"
      <4>1. exec.at = "finish" => Finish
        BY DEF ExecutorStep, CreateUserMessage, CreateAssistantShell, AnchorTurn, Announce,
           EnterRunner, StartTurn, RestoreTrajectory, Iterate, ModelAnswers, ModelCallsTools,
           DispatchTools, ObserveTools, ModelAsksUser, LoopStops, LoopThrows, CommitResult,
           CompleteTurn, FinalizeMessage, CompletePause, CommitPause, ReportWaiting, AgentCatch,
           TurnCatch, RequestCatch, Report, At
      <4> QED
        BY <4>1, ExecutionType DEF Finish, queueVars
    <3> QED
      BY <1>2, <3>2, <3>3, <3>4 DEF ClaimedOnce
  <2> QED
    BY <1>2, <2>1 DEF ClaimedOnce, Doomed
<1>4. HoldsTheRequest'
  <2>1. CASE CreateUserMessage \/ CreateAssistantShell \/ AnchorTurn
    <3>1. /\ exec.at \in Arriving /\ exec'.at \in Arriving \cup {"requestCatch"} /\ row' = row
          /\ exec'.req = exec.req
      BY <1>0, <2>1 DEF CreateUserMessage, CreateAssistantShell, AnchorTurn, At, Go, Execution,
         Arriving, queueVars
    <3> QED
      BY <3>1 DEF HoldsTheRequest, Arriving, Working, Req, Doomed
  <2>2. CASE Announce
    <3>1. /\ exec.at \in Arriving /\ exec'.req = exec.req
          /\ \/ exec'.at = "open" /\ row[Req].status = "STARTING" /\ row'[Req].status = "RUNNING"
             \/ exec'.at = "requestCatch" /\ row[Req].status # "STARTING" /\ row' = row
      BY <1>0, <2>2 DEF Announce, MarkRunning, At, Go, Execution, Arriving, Row, queueVars
    <3>2. row[Req].status = "STARTING" /\ stop.at \in {"cancelTurn", "commit", "end"}
            => stop.req # Req
      BY DEF OutcomeInv, CancelsTheDoomed, Doomed
    <3> QED
      BY <1>2, <3>1, <3>2 DEF HoldsTheRequest, Arriving, Working, Req, Doomed
  <2>3. CASE \/ EnterRunner \/ StartTurn \/ RestoreTrajectory \/ Iterate \/ ModelAnswers
             \/ ModelCallsTools \/ DispatchTools \/ ObserveTools \/ ModelAsksUser \/ LoopStops
             \/ LoopThrows \/ CommitResult \/ CompleteTurn \/ FinalizeMessage \/ CompletePause
             \/ CommitPause \/ AgentCatch \/ TurnCatch
    <3>1. exec.at \in Working /\ row' = row
      BY <2>3 DEF EnterRunner, StartTurn, RestoreTrajectory, Iterate, ModelAnswers,
         ModelCallsTools, DispatchTools, ObserveTools, ModelAsksUser, LoopStops, LoopThrows,
         CommitResult, CompleteTurn, FinalizeMessage, CompletePause, CommitPause, AgentCatch,
         TurnCatch, At, Working, queueVars
    <3>2. exec'.at \notin Arriving
      <4>1. CASE \/ EnterRunner \/ StartTurn \/ RestoreTrajectory \/ Iterate \/ ModelAnswers
                 \/ ModelCallsTools \/ DispatchTools \/ ObserveTools
        BY <1>0, <4>1 DEF EnterRunner, StartTurn, RestoreTrajectory, Iterate, ModelAnswers,
           ModelCallsTools, DispatchTools, ObserveTools, Go, GoWith, Execution, Arriving
      <4>2. CASE \/ ModelAsksUser \/ LoopStops \/ LoopThrows \/ CommitResult \/ CompleteTurn
                 \/ FinalizeMessage \/ CompletePause \/ CommitPause \/ AgentCatch \/ TurnCatch
        BY <1>0, <4>2 DEF ModelAsksUser, LoopStops, LoopThrows, CommitResult, CompleteTurn,
           FinalizeMessage, CompletePause, CommitPause, AgentCatch, TurnCatch, Go, GoWith,
           Execution, Arriving
      <4> QED
        BY <2>3, <4>1, <4>2
    <3>3. exec'.req = exec.req
      BY <1>2, <3>1 DEF Working
    <3> QED
      BY <1>2, <3>1, <3>2, <3>3 DEF HoldsTheRequest, Req, Doomed
  <2>4. CASE RequestCatch
    <3>1. exec.at = "requestCatch" /\ exec'.at = "report" /\ exec'.req = exec.req /\ row' = row
      BY <1>0, <2>4 DEF RequestCatch, At, GoWith, Execution, queueVars
    <3> QED
      BY <3>1 DEF HoldsTheRequest, Arriving, Working, Req, Doomed
  <2>5. CASE ReportWaiting \/ Report \/ Finish
    <3>1. \/ exec' = IdleExecution \/ exec' = [exec EXCEPT !.at = "finish"]
          \/ exec' = [exec EXCEPT !.at = "finish", !.settled = TRUE]
      BY <2>5 DEF ReportWaiting, Finish, Report, Go
    <3>2. exec'.at \in {"idle", "finish"}
      BY <1>0, <3>1, ExecutionType DEF Execution
    <3> QED
      BY <3>2 DEF HoldsTheRequest, Arriving, Working
  <2> QED
    BY <2>1, <2>2, <2>3, <2>4, <2>5 DEF ExecutorStep
<1>5. ASSUME NEW r \in Requests, message'[r] = "failed" PROVE Doomed(r)' \/ ReportsFailure(r)'
  <2>1. CASE r # Req
    BY <1>1, <1>2, <1>5, <2>1 DEF FailureIsReported, ReportsFailure, Req
  <2>2. CASE r = Req /\ message'[r] # message[r]
    <3>1. CASE CreateUserMessage \/ CreateAssistantShell \/ CommitPause
      BY <1>0, <1>5, <2>2, <3>1 DEF CreateUserMessage, CreateAssistantShell, CommitPause,
         DurableTypeOK
    <3>2. CASE FinalizeMessage
      <4>1. /\ MessageOf(exec.outcome) = "failed" /\ exec'.at = "report"
            /\ exec'.outcome = exec.outcome /\ exec'.req = exec.req
        BY <1>0, <1>5, <2>2, <3>2 DEF FinalizeMessage, SettleMessage, Go, Execution, DurableTypeOK
      <4>2. exec.outcome = "failed"
        BY <4>1 DEF MessageOf
      <4> QED
        BY <2>2, <4>1, <4>2 DEF ReportsFailure, Req
    <3>3. CASE TurnCatch
      <4>1. MessageOf("cancelled") # "failed"
        BY DEF MessageOf
      <4>2. exec'.at = "requestCatch" /\ exec'.req = exec.req
        BY <1>0, <1>5, <2>2, <3>3, <4>1 DEF TurnCatch, SettleMessage, Go, Execution, DurableTypeOK
      <4> QED
        BY <2>2, <4>2 DEF ReportsFailure, Req
    <3> QED
      BY <2>2, <3>1, <3>2, <3>3 DEF ExecutorStep, AnchorTurn, Announce, EnterRunner, StartTurn,
         RestoreTrajectory, Iterate, ModelAnswers, ModelCallsTools, DispatchTools, ObserveTools,
         ModelAsksUser, LoopStops, LoopThrows, CommitResult, CompleteTurn, CompletePause,
         ReportWaiting, AgentCatch, RequestCatch, Report, Finish, durable
  <2>3. CASE r = Req /\ message'[r] = message[r] /\ ~Doomed(r)
    <3>1. \/ exec.at = "requestCatch"
          \/ exec.at = "report" /\ exec.outcome \in {"failed", "cancelled"}
      BY <1>5, <2>3 DEF FailureIsReported, ReportsFailure
    <3>2. RequestCatch \/ Report
      BY <3>1 DEF ExecutorStep, CreateUserMessage, CreateAssistantShell, AnchorTurn, Announce,
         EnterRunner, StartTurn, RestoreTrajectory, Iterate, ModelAnswers, ModelCallsTools,
         DispatchTools, ObserveTools, ModelAsksUser, LoopStops, LoopThrows, CommitResult,
         CompleteTurn, FinalizeMessage, CompletePause, CommitPause, ReportWaiting, AgentCatch,
         TurnCatch, Finish, At
    <3>3. CASE RequestCatch
      <4>1. /\ exec'.at = "report" /\ exec'.outcome \in {"failed", "cancelled"}
            /\ exec'.req = exec.req
        BY <1>0, <3>3 DEF RequestCatch, GoWith, Execution
      <4> QED
        BY <2>3, <4>1 DEF ReportsFailure, Req
    <3>4. CASE Report
      <4>1. exec.outcome \in {"failed", "cancelled"} /\ row[Req].status \in {"STARTING", "RUNNING"}
        BY <2>3, <3>1, <3>4 DEF Report, At, HoldsTheRequest
      <4>2. StatusOf(exec.outcome) \in {"FAILED", "CANCELLED"}
        BY <4>1 DEF StatusOf
      <4>3. row[Req].status \in MayEndFrom(StatusOf(exec.outcome))
        BY <4>1, <4>2 DEF MayEndFrom, Active
      <4>4. row' = [row EXCEPT ![Req].status = StatusOf(exec.outcome)]
        BY <3>4, <4>3 DEF Report, MarkTerminal, Move
      <4> QED
        BY <1>0, <2>3, <4>2, <4>4 DEF Doomed, Row
    <3> QED
      BY <3>2, <3>3, <3>4
  <2> QED
    BY <1>1, <2>1, <2>2, <2>3
<1>6. FailureIsReported'
  BY <1>5 DEF FailureIsReported, Doomed, ReportsFailure
<1> QED
  BY <1>3, <1>4, <1>6

(* Clients and the stop handler in a first life: they doom a request, or   *)
(* leave alone whoever claimed it or works on it.                          *)
LEMMA ClientsKeepFirstLife ==
  ASSUME Inv, RecoveryKnows, OutcomeInv, ClaimedOnce, HoldsTheRequest, FailureIsReported,
         \/ \E r \in Requests : SubmitMessage(r) \/ Steer(r) \/ StopRead(r)
         \/ RecycleConversation \/ RestoreConversation \/ WakeCheck \/ StopStep
         \/ UNCHANGED vars
  PROVE  ClaimedOnce' /\ HoldsTheRequest' /\ FailureIsReported'
<1>0. /\ exec \in Execution /\ DurableTypeOK /\ QueueTypeOK /\ ActorsInv /\ stop \in StopType
      /\ row \in [Requests -> Row] /\ [QueueNext]_queueVars /\ claims \in SUBSET Claim
      /\ (exec.at # "idle" => Req \in Requests)
  <2>1. [Next]_vars
    BY DEF Next, OrchestratorStep
  <2> QED
    BY <2>1, TypeParts, StepUsesQueue
       DEF Inv, ActorsInv, QueueInv, QueueTypeOK, ActorsTypeOK, Req
<1>1. \A r \in Requests : Doomed(r) => Doomed(r)'
  BY <1>0, DoomedStays
<1>2. /\ claims' = claims
      /\ exec'.req = exec.req /\ Req' = Req /\ exec'.at = exec.at /\ exec'.outcome = exec.outcome
  <2>1. claims' = claims /\ (exec' = exec \/ exec' = [exec EXCEPT !.aborted = TRUE])
    BY DEF SubmitMessage, Steer, StopRead, RecycleConversation, RestoreConversation, WakeCheck,
       StopStep, StopMark, StopSignal, StopCancelTurn, StopCommit, StopEnd, vars, volatile
  <2> QED
    BY <1>0, <2>1 DEF Execution, Req
<1>3. \A r \in Requests :
        \/ row'[r].status = row[r].status \/ row'[r].status = "CANCELLING"
        \/ row[r].status \in {"NONE", "QUEUED"}
        \/ row'[r].status = "CANCELLED" /\ stop.at = "end" /\ r = stop.req
  <2> SUFFICES ASSUME NEW r \in Requests
               PROVE  \/ row'[r].status = row[r].status \/ row'[r].status = "CANCELLING"
                      \/ row[r].status \in {"NONE", "QUEUED"}
                      \/ row'[r].status = "CANCELLED" /\ stop.at = "end" /\ r = stop.req
    OBVIOUS
  <2>1. CASE \E q \in Requests : SubmitMessage(q) \/ Steer(q) \/ StopRead(q)
    <3>1. \/ row' = row
          \/ \E q \in Requests : \E n :
               /\ row[q].status = "NONE"
               /\ row' = [row EXCEPT ![q].status = "QUEUED", ![q].sequence = n]
      BY <2>1 DEF SubmitMessage, Steer, StopRead, Submit, queueVars
    <3> QED
      BY <1>0, <3>1
  <2>2. CASE RecycleConversation \/ RestoreConversation
    BY <1>0, <2>2 DEF RecycleConversation, RestoreConversation, Recycle, Restore, Row
  <2>3. CASE StopStep
    <3>1. stop.req \in Requests
      BY <1>0, <2>3 DEF StopStep, StopMark, StopSignal, StopCancelTurn, StopCommit, StopEnd, ActorsInv
    <3>2. \/ row' = row
          \/ row' = [row EXCEPT ![stop.req].status = "CANCELLING"]
          \/ stop.at = "end" /\ row' = [row EXCEPT ![stop.req].status = "CANCELLED"]
      BY <2>3 DEF StopStep, StopMark, StopSignal, StopCancelTurn, StopCommit, StopEnd,
         MarkCancelling, MarkTerminal, Move, queueVars
    <3> QED
      BY <1>0, <3>1, <3>2 DEF Row
  <2> QED
    BY <2>1, <2>2, <2>3 DEF WakeCheck, vars, queueVars
<1>4. ClaimedOnce'
  <2>1. ASSUME NEW c \in claims
        PROVE  Doomed(c.req)' \/ (~Doomed(c.req) /\ row'[c.req].status = "STARTING")
    <3>1. c.req \in Requests
      BY <1>0 DEF Claim
    <3>2. Doomed(c.req) \/ row[c.req].status = "STARTING"
      BY DEF ClaimedOnce
    <3> QED
      BY <1>1, <1>3, <3>1, <3>2 DEF Doomed
  <2>2. \A c \in claims : Doomed(c.req) => Doomed(c.req)'
    BY <1>0, <1>1 DEF Claim
  <2> QED
    BY <1>2, <2>1, <2>2 DEF ClaimedOnce, Doomed
<1>5. HoldsTheRequest'
  <2>1. CASE exec.at = "idle"
    BY <1>2, <2>1 DEF HoldsTheRequest, Arriving, Working
  <2>2. CASE exec.at # "idle"
    <3>1. Req \in Requests /\ (Doomed(Req) => Doomed(Req)')
      BY <1>0, <1>1, <1>2, <2>2 DEF Doomed
    <3>2. exec.at \in Arriving => Doomed(Req)' \/ row'[Req].status = "STARTING"
      BY <1>2, <1>3, <3>1 DEF HoldsTheRequest, Doomed
    <3>3. exec.at \in {"requestCatch", "report"} =>
            Doomed(Req)' \/ row'[Req].status \in {"STARTING", "RUNNING"}
      BY <1>2, <1>3, <3>1 DEF HoldsTheRequest, Doomed
    <3>4. exec.at \in Working => row'[Req].status \in {"RUNNING", "CANCELLING"}
      BY <1>3, <3>1 DEF HoldsTheRequest
    <3>5. exec.at \in Working /\ stop'.at \in {"cancelTurn", "commit", "end"} => stop'.req # Req
      <4>1. CASE StopStep
        <5>1. \/ stop' = IdleStop
              \/ stop' = [stop EXCEPT !.at = "signal"]
              \/ stop.at = "signal" /\ exec.req # stop.req /\ stop' = [stop EXCEPT !.at = "cancelTurn"]
              \/ stop.at = "cancelTurn" /\ stop' = [stop EXCEPT !.at = "commit"]
              \/ stop.at = "commit" /\ stop' = [stop EXCEPT !.at = "end"]
          BY <4>1 DEF StopStep, StopMark, StopSignal, StopCancelTurn, StopCommit, StopEnd
        <5> QED
          BY <1>0, <5>1, RestType DEF StopType, HoldsTheRequest, Req
      <4>2. CASE ~StopStep
        <5>1. stop' = stop \/ \E r \in Requests :
                stop' = [at |-> "mark", req |-> r, anchored |-> row[r].anchored]
          BY <4>2 DEF SubmitMessage, Steer, StopRead, RecycleConversation, RestoreConversation,
             WakeCheck, vars, volatile
        <5> QED
          BY <5>1 DEF HoldsTheRequest
      <4> QED
        BY <4>1, <4>2
    <3> QED
      BY <1>2, <3>2, <3>3, <3>4, <3>5 DEF HoldsTheRequest, Doomed
  <2> QED
    BY <2>1, <2>2
<1>6. FailureIsReported'
  <2>1. ASSUME NEW r \in Requests, message'[r] = "failed" PROVE message[r] = "failed"
    <3>1. message' = message \/ message' = [message EXCEPT ![stop.req] = MessageOf("cancelled")]
      BY DEF SubmitMessage, Steer, StopRead, RecycleConversation, RestoreConversation, WakeCheck,
         StopStep, StopMark, StopSignal, StopCancelTurn, StopCommit, StopEnd, SettleMessage,
         vars, durable
    <3> QED
      BY <1>0, <2>1, <3>1 DEF MessageOf, DurableTypeOK
  <2>2. \A r \in Requests : ReportsFailure(r) => ReportsFailure(r)'
    BY <1>2 DEF ReportsFailure
  <2> QED
    BY <1>1, <2>1, <2>2 DEF FailureIsReported, ReportsFailure, Doomed
<1> QED
  BY <1>4, <1>5, <1>6

(* The orchestrator in a first life: a request it claims is claimed and    *)
(* executed by nobody yet.                                                 *)
LEMMA OrchestratorKeepsFirstLife ==
  ASSUME Inv, ClaimedOnce, HoldsTheRequest, FailureIsReported,
         Drain \/ (\E r \in resuming : WakeClaim(r)) \/ (\E c \in claims : Begin(c))
  PROVE  ClaimedOnce' /\ HoldsTheRequest' /\ FailureIsReported'
<1>0. /\ exec \in Execution /\ row \in [Requests -> Row] /\ claims \in SUBSET Claim
      /\ (exec.at # "idle" => Req \in Requests) /\ resuming \subseteq Requests
  BY DEF Inv, ActorsInv, TypeOK, QueueTypeOK, Req
<1>1. CASE \E c \in claims : Begin(c)
  <2>1. PICK c \in claims : Begin(c)
    BY <1>1
  <2>2. c.req \in Requests /\ claims' = claims \ {c} /\ UNCHANGED <<row, message, stop>>
    BY <1>0, <2>1 DEF Begin, Claim, queueVars, durable
  <2>3. CASE exec' = exec
    BY <2>2, <2>3 DEF ClaimedOnce, HoldsTheRequest, FailureIsReported, ReportsFailure, Doomed, Req
  <2>4. CASE exec.req = Nobody /\ exec' = NewExecution(c.req, c.resume)
    <3>1. exec'.at = "user" /\ exec'.req = c.req
      BY <2>4 DEF NewExecution
    <3>2. ClaimedOnce'
      BY <2>2, <3>1 DEF ClaimedOnce, Doomed
    <3>3. HoldsTheRequest'
      BY <2>2, <3>1 DEF ClaimedOnce, HoldsTheRequest, Arriving, Working, Req, Doomed
    <3>4. FailureIsReported'
      BY <2>2, <2>4, NobodyAssumption DEF FailureIsReported, ReportsFailure, Doomed
    <3> QED
      BY <3>2, <3>3, <3>4
  <2> QED
    BY <2>1, <2>3, <2>4 DEF Begin
<1>2. CASE UNCHANGED <<row, claims>> /\ ~(\E c \in claims : Begin(c))
  <2>1. UNCHANGED <<row, claims, exec, stop, message>>
    BY <1>2 DEF Drain, WakeClaim, durable
  <2> QED
    BY <2>1 DEF ClaimedOnce, HoldsTheRequest, FailureIsReported, ReportsFailure, Doomed, Req
<1>3. CASE ~UNCHANGED <<row, claims>> /\ ~(\E c \in claims : Begin(c))
  <2>1. /\ UNCHANGED <<exec, stop, message>>
        /\ \E r \in Requests, resume \in BOOLEAN :
             /\ row[r].status \in {"QUEUED", "WAITING_USER"}
             /\ \/ row' = [row EXCEPT ![r].status = "STARTING"]
                \/ row' = [row EXCEPT ![r].status = "STARTING", ![r].started = TRUE]
             /\ claims' = claims \cup {[req |-> r, resume |-> resume]}
    <3>1. CASE Drain
      BY <1>3, <3>1 DEF Drain, ClaimNext, IsFirstQueued, durable, queueVars
    <3>2. CASE \E r \in resuming : WakeClaim(r)
      BY <1>0, <1>3, <3>2 DEF WakeClaim, ClaimUserResume, Move, durable, queueVars
    <3> QED
      BY <1>3, <3>1, <3>2
  <2>2. PICK r \in Requests, resume \in BOOLEAN :
             /\ row[r].status \in {"QUEUED", "WAITING_USER"}
             /\ \/ row' = [row EXCEPT ![r].status = "STARTING"]
                \/ row' = [row EXCEPT ![r].status = "STARTING", ![r].started = TRUE]
             /\ claims' = claims \cup {[req |-> r, resume |-> resume]}
    BY <2>1
  <2>3. /\ row'[r].status = "STARTING" /\ ~Doomed(r)
        /\ \A q \in Requests \ {r} : row'[q] = row[q]
    BY <1>0, <2>2 DEF Row, Doomed
  <2>4. \A q \in Requests : Doomed(q) => Doomed(q)'
    BY <2>3 DEF Doomed
  <2>5. \A c \in claims : c.req # r /\ c.req \in Requests
    BY <1>0, <2>2, <2>3 DEF ClaimedOnce, Claim
  <2>6. exec.at \notin {"idle", "finish"} => exec.req # r
    <3>1. exec.at \in {"idle", "finish", "requestCatch", "report"} \cup Arriving \cup Working
      BY <1>0 DEF Execution, Stage, Arriving, Working
    <3> QED
      BY <2>2, <2>3, <3>1 DEF HoldsTheRequest, Req
  <2>7. ClaimedOnce'
    <3> DEFINE new == [req |-> r, resume |-> resume]
    <3>1. ASSUME NEW c \in claims'
          PROVE  /\ Doomed(c.req)' \/ row'[c.req].status = "STARTING"
                 /\ exec.req = c.req /\ exec.at \notin {"idle", "finish"} => Doomed(c.req)'
                 /\ \A d \in claims' : d.req = c.req => d = c \/ Doomed(c.req)'
      <4>1. CASE c \in claims
        <5>1. /\ row'[c.req] = row[c.req] /\ c.req # r
              /\ \A d \in claims' : d.req = c.req => d \in claims
          BY <2>2, <2>3, <2>5, <4>1
        <5> QED
          BY <4>1, <5>1 DEF ClaimedOnce, Doomed
      <4>2. CASE c = new
        <5>1. c.req = r /\ \A d \in claims' : d.req = r => d = c
          BY <2>2, <2>5, <4>2
        <5> QED
          BY <2>3, <2>6, <5>1
      <4> QED
        BY <2>2, <4>1, <4>2
    <3> QED
      BY <2>1, <3>1 DEF ClaimedOnce, Doomed
  <2>8. HoldsTheRequest'
    <3>1. exec.at \in {"requestCatch", "report"} \cup Arriving \cup Working
            => row'[Req] = row[Req]
      BY <1>0, <2>3, <2>6 DEF Req, Arriving, Working
    <3> QED
      BY <2>1, <3>1 DEF HoldsTheRequest, Req, Doomed
  <2>9. FailureIsReported'
    BY <2>1, <2>4 DEF FailureIsReported, ReportsFailure, Doomed
  <2> QED
    BY <2>7, <2>8, <2>9
<1> QED
  BY <1>1, <1>2, <1>3

LEMMA NextKeepsFirstLife ==
  Inv /\ RecoveryKnows /\ OutcomeInv /\ FirstLife /\ [Next]_vars => FirstLife'
<1> SUFFICES ASSUME Inv, RecoveryKnows, OutcomeInv, FirstLife, [Next]_vars,
                    spent'.crashes = 0
             PROVE  recovery'.at = "done" /\ ClaimedOnce' /\ HoldsTheRequest' /\ FailureIsReported'
  BY DEF FirstLife
<1>0. spent \in Bounds
  BY DEF Inv, TypeOK
<1>1. ~Crash
  BY <1>0 DEF Crash, Bounds
<1>2. spent.crashes = 0
  <2>1. \/ spent' = spent \/ spent' = [spent EXCEPT !.steers = @ + 1]
        \/ spent' = [spent EXCEPT !.stops = @ + 1] \/ spent' = [spent EXCEPT !.recycles = @ + 1]
    <3>1. CASE ExecutorStep
      BY <3>1, ExecutorFrame
    <3>2. CASE RecoveryStep
      BY <3>2 DEF RecoveryStep, RecoverySnapshot, RecoveryClaim, RecoveryLaunch, RecoveryFail,
         RecoveryFindCancelling, RecoveryCancel, RecoveryWake, RecoveryDrain, RecoveryInspect,
         RecoveryKeeps
    <3>3. CASE ~ExecutorStep /\ ~RecoveryStep
      BY <1>1, <3>3 DEF Next, SubmitMessage, Steer, StopRead, RecycleConversation,
         RestoreConversation, OrchestratorStep, Drain, WakeCheck, WakeClaim, Begin, StopStep,
         StopMark, StopSignal, StopCancelTurn, StopCommit, StopEnd, vars
    <3> QED
      BY <3>1, <3>2, <3>3
  <2> QED
    BY <1>0, <2>1 DEF Bounds
<1>3. recovery.at = "done" /\ ClaimedOnce /\ HoldsTheRequest /\ FailureIsReported
  BY <1>2 DEF FirstLife
<1>4. ~RecoveryStep
  BY <1>3 DEF RecoveryStep, RecoverySnapshot, RecoveryClaim, RecoveryLaunch, RecoveryFail,
     RecoveryFindCancelling, RecoveryCancel, RecoveryWake, RecoveryDrain, RecoveryInspect
<1>5. recovery' = recovery
  <2>1. CASE ExecutorStep
    BY <2>1, ExecutorFrame
  <2>2. CASE ~ExecutorStep
    BY <1>1, <1>4, <2>2 DEF Next, SubmitMessage, Steer, StopRead, RecycleConversation,
       RestoreConversation, OrchestratorStep, Drain, WakeCheck, WakeClaim, Begin, StopStep,
       StopMark, StopSignal, StopCancelTurn, StopCommit, StopEnd, vars, volatile
  <2> QED
    BY <2>1, <2>2
<1> QED
  BY <1>1, <1>3, <1>4, <1>5, ExecutorKeepsFirstLife, ClientsKeepFirstLife,
     OrchestratorKeepsFirstLife DEF Next, OrchestratorStep

LEMMA InitFirstLife == Init => FirstLife
<1> SUFFICES ASSUME Init PROVE FirstLife
  OBVIOUS
<1>1. exec.at = "idle" /\ recovery.at = "done" /\ claims = {}
  BY DEF Init, IdleExecution, NewExecution, NoRecovery
<1>2. \A r \in Requests : message[r] = "none"
  BY DEF Init
<1> QED
  BY <1>1, <1>2 DEF FirstLife, ClaimedOnce, HoldsTheRequest, FailureIsReported, Arriving, Working

(* A request shown as succeeded has its answer, its terminal checkpoint    *)
(* and no input left unread, however the turn was started and whatever     *)
(* stops, crashes and late claims came over it; until a first crash the    *)
(* message is the finished answer.                                         *)
THEOREM SucceededIsCommittedHolds == Spec => []SucceededIsCommitted
<1>1. OutcomeInv /\ FirstLife => SucceededIsCommitted
  <2> SUFFICES ASSUME OutcomeInv, FirstLife, NEW r \in Requests, row[r].status = "SUCCEEDED"
               PROVE  /\ turn[r] = "succeeded" /\ phase[r] = "terminal" /\ r \notin pending
                      /\ message[r] \in {"finished"} \cup
                           (IF spent.crashes = 0 THEN {} ELSE {"failed"})
    BY DEF SucceededIsCommitted
  <2>1. spent.crashes = 0 => message[r] # "failed"
    <3> SUFFICES ASSUME spent.crashes = 0, message[r] = "failed" PROVE FALSE
      OBVIOUS
    <3>1. exec.req = r /\ exec.at \in {"requestCatch", "report"}
      BY DEF FirstLife, FailureIsReported, ReportsFailure, Doomed
    <3> QED
      BY <3>1 DEF FirstLife, HoldsTheRequest, Doomed, Req
  <2> QED
    BY <2>1 DEF OutcomeInv, Committed
<1> QED
  BY <1>1, InitInv, NextInv, InitOutcome, NextKeepsKnowledge, NextKeepsOutcome, InitFirstLife,
     NextKeepsFirstLife, PTL DEF Spec

(* Between restarts, side effects happen under a request that runs or is   *)
(* being cancelled: for every run without a crash, and every run with one  *)
(* up to it.                                                               *)
THEOREM DispatchesUnderRequest == Spec => [](spent.crashes = 0 => DispatchUnderRequest)
<1>1. FirstLife => (spent.crashes = 0 => DispatchUnderRequest)
  BY DEF FirstLife, HoldsTheRequest, Working, DispatchUnderRequest, At
<1> QED
  BY <1>1, InitInv, NextInv, InitOutcome, NextKeepsKnowledge, NextKeepsOutcome, InitFirstLife,
     NextKeepsFirstLife, PTL DEF Spec
=============================================================================
