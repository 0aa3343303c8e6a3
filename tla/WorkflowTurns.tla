--------------------------- MODULE WorkflowTurns ---------------------------
(***************************************************************************)
(* How a workflow run gets its turns.  A turn that made progress appends a *)
(* request to the workflow's journal and to the outbox, in one transaction *)
(* with a check of the run.  The outbox dispatcher and the recovery hand   *)
(* requests to an in-memory scheduler, which calls dispatchRequest; that   *)
(* takes the run's lease and runs an automatic turn, unless the user has a *)
(* turn of his own.                                                        *)
(*                                                                         *)
(* A run's phases are worked off in order here (WorkflowBoard has the      *)
(* graph); BLOCKED stands with WAITING.  The code compares the createdAt of *)
(* the newest turn link with a request's: here a request is overtaken when *)
(* a turn is bound after it.  A request's source turn has ended when it is *)
(* appended, so the branch that defers is never taken.                     *)
(***************************************************************************)
EXTENDS Naturals, Sequences

CONSTANTS
  Slots,          \* dispatches in flight at once, a bound of a run
  LastPhase,      \* the run has the phases 1..LastPhase
  MaxVersion,     \* bounds of a run
  MaxUserTurns,
  MaxFaults       \* crashes, failing turns and lapsed leases in all

ASSUME WorkflowAssumption ==
  /\ LastPhase \in Nat \ {0}
  /\ {MaxVersion, MaxUserTurns, MaxFaults} \subseteq Nat

VARIABLES
  run,          \* the workflowRun row
  lease,        \* the lease columns of the row
  requests,     \* workflow.turn.requested events and their outbox rows
  dispatches,   \* slot -> a dispatchRequest and the automatic turn it runs
  user,         \* the user's turn of the conversation, and whether its request is open
  acting,       \* who holds the conversation lock: "none", "user" or a slot
  used          \* the bounded faults that have happened

vars == <<run, lease, requests, dispatches, user, acting, used>>

Terminal == {"COMPLETED", "CANCELLED"}
Actions  == {"UPDATE", "COMPLETE", "BLOCK", "RESUME", "PAUSE", "CANCEL", "SET_CONTINUATION"}
Protocol == {"none", "UPDATE", "COMPLETE", "BLOCK", "RESUME", "CONTROL"}   \* of a turn's last action
Decision == {"none", "pause", "auto_continue", "user_resume"}
Turn     == [linked : BOOLEAN, phase : Nat, protocol : Protocol, decision : Decision]
NoTurn   == [linked |-> FALSE, phase |-> 0, protocol |-> "none", decision |-> "none"]
Idle     == [at |-> "idle", request |-> 0, aborted |-> FALSE, of |-> NoTurn]
Places   == {"idle", "new", "fresh", "leased", "rechecked",
             "created", "bound", "acting", "post", "decided", "closed", "ended"}
NoUser   == [at |-> "idle", of |-> NoTurn, active |-> FALSE]
None     == "none"      \* nobody

TypeOK ==
  /\ run \in [status : {"RUNNING", "WAITING"} \cup Terminal, phase : 0..LastPhase,
              mode : {"AUTO", "MANUAL"}, version : Nat]
  /\ lease \in [owner : Slots \cup {None}, expired : BOOLEAN]
  /\ requests \in Seq([phase : 1..LastPhase, version : Nat,
                       reason : {"auto_continue", "user_resume"},
                       outbox : {"pending", "delivered"},
                       overtaken : BOOLEAN, closed : BOOLEAN])
  /\ dispatches \in [Slots -> [at : Places, request : Nat, aborted : BOOLEAN, of : Turn]]
  /\ user \in [at : {"idle", "queued", "bound", "acting", "post", "decided"}, of : Turn,
               active : BOOLEAN]
  /\ acting \in Slots \cup {None, "user"}
  /\ used \in [faults : 0..MaxFaults, submits : 0..MaxUserTurns]

NewRequest(reason) ==
  [phase |-> run.phase, version |-> run.version, reason |-> reason, outbox |-> "pending",
   overtaken |-> FALSE, closed |-> FALSE]

(* A turn has just asked for a continuation, at some phase of the run; a    *)
(* run of the model may have used up its faults.                           *)
Init ==
  /\ run \in [status : {"RUNNING"}, phase : 1..LastPhase, mode : {"AUTO"}, version : {1}]
  /\ lease = [owner |-> None, expired |-> FALSE]
  /\ requests = <<NewRequest("auto_continue")>>
  /\ dispatches = [s \in Slots |-> Idle]
  /\ user = NoUser
  /\ acting = None
  /\ used \in [faults : 0..MaxFaults, submits : {0}]

-----------------------------------------------------------------------------
Open == run.status \notin Terminal
UserTurnActivity == user.active

(* What makes a request one to run: the run stands where it stood.         *)
Matches(r) ==
  /\ run.status = "RUNNING" /\ run.phase = r.phase
  /\ r.reason = "user_resume" \/ run.mode = "AUTO"
(* Mutant: the version the request was made for is not compared. *)
MatchesAlone(r) == Matches(r)
Current(r) == Matches(r) /\ run.version = r.version

(* bindTurn creates a link newer than every request there is.              *)
BindTurn == requests' = [i \in DOMAIN requests |-> [requests[i] EXCEPT !.overtaken = TRUE]]

(* The scheduler's enqueue: its listener runs in a microtask.              *)
Enqueue(i) ==
  \E s \in Slots :
    /\ dispatches[s].at = "idle"
    /\ dispatches' = [dispatches EXCEPT ![s] = [Idle EXCEPT !.at = "new", !.request = i]]

-----------------------------------------------------------------------------
(* The outbox dispatcher claims a pending row and delivers it; a failed     *)
(* delivery, or one whose claim runs out, leaves the row to the next tick. *)
Deliver(i) ==
  /\ requests[i].outbox = "pending"
  /\ requests' = [requests EXCEPT ![i].outbox = "delivered"]
  /\ IF Matches(requests[i]) THEN Enqueue(i) ELSE UNCHANGED dispatches
  /\ UNCHANGED <<run, lease, user, acting, used>>

(* Mutant: a request that was delivered is left alone. *)
RecoverUndelivered(i) ==
  /\ Current(requests[i]) /\ ~UserTurnActivity /\ ~requests[i].overtaken
  /\ requests[i].outbox # "delivered"
  /\ Enqueue(i)
  /\ UNCHANGED <<run, lease, requests, user, acting, used>>

(* recoverExplicitRequest, for each recent request at every tick           *)
Recover(i) ==
  /\ Current(requests[i]) /\ ~UserTurnActivity /\ ~requests[i].overtaken
  /\ Enqueue(i)
  /\ UNCHANGED <<run, lease, requests, user, acting, used>>

-----------------------------------------------------------------------------
(* dispatchRequest and the automatic turn, one awaited read or write each. *)
Move(s, d) == dispatches' = [dispatches EXCEPT ![s] = d]
Goto(s, place) == Move(s, [dispatches[s] EXCEPT !.at = place])
Request(s) == requests[dispatches[s].request]

CheckLink(s) ==
  /\ dispatches[s].at = "new"
  /\ IF Request(s).overtaken THEN Move(s, Idle) ELSE Goto(s, "fresh")
  /\ UNCHANGED <<run, lease, requests, user, acting, used>>

(* The run and the user's turns are read, here with the update that takes  *)
(* the lease: they are read again under it.                                *)
AcquireLease(s) ==
  /\ dispatches[s].at = "fresh"
  /\ IF ~UserTurnActivity /\ Current(Request(s)) /\ (lease.owner = None \/ lease.expired)
     THEN lease' = [owner |-> s, expired |-> FALSE] /\ Goto(s, "leased")
     ELSE Move(s, Idle) /\ UNCHANGED lease
  /\ UNCHANGED <<run, requests, user, acting, used>>

(* Under the lease the run is read anew, and the user's turns once more.   *)
Recheck(s) ==
  /\ dispatches[s].at = "leased"
  /\ IF Current(Request(s)) /\ ~UserTurnActivity THEN Goto(s, "rechecked") ELSE Goto(s, "ended")
  /\ UNCHANGED <<run, lease, requests, user, acting, used>>

(* The messages of the turn are made; a user's turn still supersedes it.   *)
CreateInternalTurn(s) ==
  /\ dispatches[s].at = "rechecked"
  /\ IF UserTurnActivity THEN Goto(s, "ended") ELSE Goto(s, "created")
  /\ UNCHANGED <<run, lease, requests, user, acting, used>>

(* prepareTurn binds the turn to the phase the run is at by now, if it is  *)
(* still open; watchForUserTurn has been polling since the turn exists.    *)
PrepareTurn(s) ==
  /\ dispatches[s].at = "created"
  /\ IF Open
     THEN /\ Move(s, [dispatches[s] EXCEPT !.at = "bound", !.of.linked = TRUE, !.of.phase = run.phase])
          /\ BindTurn
     ELSE Goto(s, "bound") /\ UNCHANGED requests
  /\ UNCHANGED <<run, lease, user, acting, used>>

Watch(s) ==
  /\ dispatches[s].at \in {"created", "bound", "acting"}
  /\ UserTurnActivity /\ ~dispatches[s].aborted
  /\ Move(s, [dispatches[s] EXCEPT !.aborted = TRUE])
  /\ UNCHANGED <<run, lease, requests, user, acting, used>>

(* runChatTurn takes the conversation lock; superseded, it does not begin. *)
EnterTurn(s) ==
  /\ dispatches[s].at = "bound"
  /\ acting = None
  /\ IF dispatches[s].aborted
     THEN Goto(s, "ended") /\ UNCHANGED acting
     ELSE Goto(s, "acting") /\ acting' = s
  /\ UNCHANGED <<run, lease, requests, user, used>>

-----------------------------------------------------------------------------
(* The workflow tools, as WorkflowBoard's operations show in a sequence of *)
(* phases: what an action makes of the run and of the turn t that called.  *)
(* Mutant: the last phase is followed by another. *)
CompletedPastLast == [run EXCEPT !.status = "RUNNING", !.phase = @ + 1, !.version = @ + 1]

Completed == IF run.phase = LastPhase
             THEN [run EXCEPT !.status = "COMPLETED", !.phase = 0, !.version = @ + 1]
             ELSE [run EXCEPT !.status = "RUNNING", !.phase = @ + 1, !.version = @ + 1]

ToolResult(t, action, mode) ==
  CASE action = "UPDATE"           -> [run EXCEPT !.status = "RUNNING", !.version = @ + 1]
    [] action = "COMPLETE"         -> Completed
    [] action \in {"BLOCK", "PAUSE"} -> [run EXCEPT !.status = "WAITING", !.version = @ + 1]
    [] action = "RESUME"           -> [run EXCEPT !.status = "RUNNING", !.version = @ + 1]
    [] action = "CANCEL"           -> [run EXCEPT !.status = "CANCELLED", !.phase = 0, !.version = @ + 1]
    [] action = "SET_CONTINUATION" -> [run EXCEPT !.mode = mode, !.version = @ + 1]

Tool(t, action, mode) ==
  /\ t.linked /\ Open /\ run.version < MaxVersion
  /\ t.protocol \in {"none", "UPDATE"}                 \* the others end the turn
  /\ action \in {"COMPLETE", "BLOCK"} => t.phase = run.phase
  /\ run' = ToolResult(t, action, mode)

Called(t, action) ==
  [t EXCEPT !.protocol = IF action \in Protocol THEN action ELSE "CONTROL",
            !.phase    = IF action = "UPDATE" THEN run.phase ELSE @]

CallTool(s) ==
  /\ acting = s
  /\ \E action \in Actions, mode \in {"AUTO", "MANUAL"} :
       /\ action # "SET_CONTINUATION" => mode = run.mode
       /\ Tool(dispatches[s].of, action, mode)
       /\ Move(s, [dispatches[s] EXCEPT !.of = Called(@, action)])
  /\ UNCHANGED <<lease, requests, user, acting, used>>

UserCallsTool ==
  /\ acting = "user"
  /\ \E action \in Actions, mode \in {"AUTO", "MANUAL"} :
       /\ action # "SET_CONTINUATION" => mode = run.mode
       /\ Tool(user.of, action, mode)
       /\ user' = [user EXCEPT !.of = Called(@, action)]
  /\ UNCHANGED <<lease, requests, dispatches, acting, used>>

(* The turn is over and its message committed; or it was superseded, or    *)
(* threw, and then nothing follows it.                                     *)
EndTurn(s) ==
  /\ acting = s /\ acting' = None
  /\ \E place \in {"post"} \cup (IF dispatches[s].aborted THEN {"ended"} ELSE {}) :
       Move(s, [dispatches[s] EXCEPT !.at = place, !.aborted = FALSE, !.of.phase = 0])
  /\ UNCHANGED <<run, lease, requests, user, used>>

FailTurn(s) ==
  /\ dispatches[s].at \in {"rechecked", "created", "bound", "acting"}
  /\ used.faults < MaxFaults
  /\ used' = [used EXCEPT !.faults = @ + 1]
  /\ Goto(s, "ended")
  /\ acting' = IF acting = s THEN None ELSE acting
  /\ UNCHANGED <<run, lease, requests, user>>

(* WorkflowPostTurnService.afterTurn, what it decides on the run it reads. *)
Decisions(t, byUser) ==
  IF ~t.linked \/ ~Open THEN {"none"}
  ELSE {IF byUser THEN "none" ELSE "pause"}            \* not successful
       \cup {"pause"}                                  \* paused by the agent
       \cup {CASE t.protocol = "none" -> IF ~byUser /\ run.status = "RUNNING" THEN "pause" ELSE "none"
               [] t.protocol = "BLOCK" -> "none"
               [] t.protocol = "RESUME" -> IF run.status = "RUNNING" THEN "user_resume" ELSE "none"
               [] t.protocol = "CONTROL" ->
                    IF run.status = "RUNNING" THEN "pause" ELSE "none"
               [] t.protocol \in {"UPDATE", "COMPLETE"} ->
                    CASE run.status # "RUNNING" -> "none"
                      [] run.status = "RUNNING" /\ run.mode = "AUTO" -> "auto_continue"
                      [] run.status = "RUNNING" /\ run.mode = "MANUAL" -> "pause"}

(* What the manager makes of it, on the run as it is by then.              *)
Apply(decision) ==
  CASE decision = "none" -> UNCHANGED <<run, requests>>
    [] decision = "pause" ->
         /\ run' = IF Open THEN [run EXCEPT !.status = "WAITING", !.version = @ + 1] ELSE run
         /\ UNCHANGED requests
    [] decision \in {"auto_continue", "user_resume"} ->
         /\ requests' = IF run.status = "RUNNING" /\ (decision = "user_resume" \/ run.mode = "AUTO")
                        THEN Append(requests, NewRequest(decision)) ELSE requests
         /\ UNCHANGED run

AfterTurn(s) ==
  /\ dispatches[s].at = "post"
  /\ \E d \in Decisions(dispatches[s].of, FALSE) :
       Move(s, [dispatches[s] EXCEPT !.at = "decided", !.of.decision = d])
  /\ UNCHANGED <<run, lease, requests, user, acting, used>>

CloseTurn(s) ==
  /\ dispatches[s].at = "decided"
  /\ Apply(dispatches[s].of.decision)
  /\ Move(s, [dispatches[s] EXCEPT !.at = "closed", !.of = NoTurn])
  /\ UNCHANGED <<lease, user, acting, used>>

(* The finally block of withLease.  closed is a history variable: the turn *)
(* of the request has run to its end.                                      *)
ReleaseLease(s) ==
  /\ dispatches[s].at \in {"closed", "ended"}
  /\ lease' = IF lease.owner = s THEN [owner |-> None, expired |-> FALSE] ELSE lease
  /\ requests' = IF dispatches[s].at = "closed"
                 THEN [requests EXCEPT ![dispatches[s].request].closed = TRUE] ELSE requests
  /\ Move(s, Idle)
  /\ UNCHANGED <<run, user, acting, used>>

-----------------------------------------------------------------------------
(* The user's turn, from its request in the queue to its terminal status   *)
(* and the work after the turn, whichever comes last.                      *)
UserSubmits ==
  /\ user = NoUser /\ used.submits < MaxUserTurns
  /\ user' = [at |-> "queued", of |-> NoTurn, active |-> TRUE]
  /\ used' = [used EXCEPT !.submits = @ + 1]
  /\ UNCHANGED <<run, lease, requests, dispatches, acting>>

UserPrepares ==
  /\ user.at = "queued"
  /\ IF Open
     THEN /\ user' = [user EXCEPT !.at = "bound", !.of.linked = TRUE, !.of.phase = run.phase]
          /\ BindTurn
     ELSE user' = [user EXCEPT !.at = "bound"] /\ UNCHANGED requests
  /\ UNCHANGED <<run, lease, dispatches, acting, used>>

UserEnters ==
  /\ user.at = "bound" /\ acting = None
  /\ acting' = "user" /\ user' = [user EXCEPT !.at = "acting"]
  /\ UNCHANGED <<run, lease, requests, dispatches, used>>

UserEnds ==
  /\ acting = "user"
  /\ acting' = None /\ user' = [user EXCEPT !.at = "post", !.of.phase = 0]
  /\ UNCHANGED <<run, lease, requests, dispatches, used>>

UserAfterTurn ==
  /\ user.at = "post"
  /\ \E d \in Decisions(user.of, TRUE) : user' = [user EXCEPT !.at = "decided", !.of.decision = d]
  /\ UNCHANGED <<run, lease, requests, dispatches, acting, used>>

UserCloses ==
  /\ user.at = "decided"
  /\ Apply(user.of.decision)
  /\ user' = [user EXCEPT !.at = "idle", !.of = NoTurn]
  /\ UNCHANGED <<lease, dispatches, acting, used>>

(* The chat does not await what follows the turn: its request becomes      *)
(* terminal before, during or after it.                                    *)
UserReports ==
  /\ user.at \in {"post", "decided", "idle"} /\ user.active
  /\ user' = [user EXCEPT !.active = FALSE]
  /\ UNCHANGED <<run, lease, requests, dispatches, acting, used>>

-----------------------------------------------------------------------------
(* The process is lost; the user's request is failed by the chat's own     *)
(* recovery.                                                               *)
Crash ==
  /\ used.faults < MaxFaults
  /\ used' = [used EXCEPT !.faults = @ + 1]
  /\ dispatches' = [s \in Slots |-> Idle] /\ acting' = None
  /\ user' = NoUser
  /\ UNCHANGED <<run, lease, requests>>

Holds(s) == dispatches[s].at \notin {"idle", "new", "fresh"}

(* The lease of a process that is gone runs out.                           *)
LeaseExpires ==
  /\ lease.owner # None /\ ~lease.expired /\ ~Holds(lease.owner)
  /\ lease' = [lease EXCEPT !.expired = TRUE]
  /\ UNCHANGED <<run, requests, dispatches, user, acting, used>>

(* A heartbeat that fails is ignored, and the work goes on without a lease; *)
(* the next one that succeeds extends it, unless somebody took it.         *)
LeaseLapses ==
  /\ lease.owner # None /\ ~lease.expired /\ Holds(lease.owner) /\ used.faults < MaxFaults
  /\ lease' = [lease EXCEPT !.expired = TRUE]
  /\ used' = [used EXCEPT !.faults = @ + 1]
  /\ UNCHANGED <<run, requests, dispatches, user, acting>>

Heartbeat ==
  /\ lease.owner # None /\ lease.expired /\ Holds(lease.owner)
  /\ lease' = [lease EXCEPT !.expired = FALSE]
  /\ UNCHANGED <<run, requests, dispatches, user, acting, used>>

DispatchStep(s) ==
  \/ CheckLink(s) \/ AcquireLease(s) \/ Recheck(s)
  \/ CreateInternalTurn(s) \/ PrepareTurn(s) \/ EnterTurn(s)
  \/ CallTool(s) \/ EndTurn(s) \/ AfterTurn(s) \/ CloseTurn(s) \/ ReleaseLease(s)

UserStep ==
  \/ UserPrepares \/ UserEnters \/ UserCallsTool \/ UserEnds
  \/ UserAfterTurn \/ UserCloses \/ UserReports

Next ==
  \/ \E i \in DOMAIN requests : Deliver(i) \/ Recover(i)
  \/ \E s \in Slots : DispatchStep(s) \/ Watch(s) \/ FailTurn(s)
  \/ UserSubmits \/ UserStep
  \/ Crash \/ LeaseExpires \/ LeaseLapses \/ Heartbeat

Spec == Init /\ [][Next]_vars

(* Dispatches and turns go on, a lease runs out, and both timers, of the   *)
(* outbox and of the recovery, come to every request they find.            *)
Fairness ==
  /\ \A s \in Slots : WF_vars(DispatchStep(s))
  /\ WF_vars(UserStep) /\ WF_vars(LeaseExpires)
  /\ \A i \in 1..MaxVersion : /\ WF_vars(i \in DOMAIN requests /\ Deliver(i))
                             /\ WF_vars(i \in DOMAIN requests /\ Recover(i))

FairSpec == Spec /\ Fairness

-----------------------------------------------------------------------------
(* A request is worked off once: after the turn it brought about has run   *)
(* to its end, no dispatch that still carries the request passes its check *)
(* under the lease, whoever enqueued it again, when, and with whose lease. *)
NoSecondTurn ==
  [][\A s \in Slots : dispatches[s].at = "leased" /\ dispatches'[s].at = "rechecked"
                        => ~Request(s).closed]_vars

(* No request is lost: one that still stands is dispatched until a turn    *)
(* has been bound to the run after it, or the run has moved on, whatever   *)
(* the outbox delivered, the process forgot or the lease refused.          *)
RequestsHandled ==
  \A i \in 1..MaxVersion :
    (i \in DOMAIN requests /\ Current(requests[i]))
      ~> (i \in DOMAIN requests /\ (Current(requests[i]) => requests[i].overtaken))
=============================================================================
