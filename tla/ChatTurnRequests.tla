-------------------------- MODULE ChatTurnRequests --------------------------
(***************************************************************************)
(* The durable turn queue of one conversation: the ChatTurnRequest rows of *)
(* chat-turn-request.repository.ts and the statements that change them.    *)
(* Every operator below is one transaction or one guarded updateMany, so   *)
(* it is one atomic step; who calls it and when is left to the modules     *)
(* that extend this one (ChatTurn: orchestrator, executor, stop handler,   *)
(* recovery).  Spec lets anybody call anything at any time, which makes it *)
(* the abstract specification the composed system has to implement.        *)
(*                                                                         *)
(* A row keeps its status, its sequence number, whether it was ever        *)
(* claimed (startedAt and traceId are written together by the claim, so    *)
(* the request also stands for its trace) and whether markRunning recorded *)
(* the message anchors.                                                    *)
(***************************************************************************)
EXTENDS Naturals

CONSTANT Requests       \* client messages that may be submitted

Waiting  == {"WAITING_APPROVAL", "WAITING_EXTERNAL", "WAITING_USER"}
Active   == {"STARTING", "RUNNING", "CANCELLING"} \cup Waiting
Terminal == {"CANCELLED", "SUCCEEDED", "PARTIAL", "FAILED", "BLOCKED"}
Status   == {"NONE", "QUEUED"} \cup Active \cup Terminal

Row == [status : Status, sequence : Nat, started : BOOLEAN, anchored : BOOLEAN]

VARIABLES
  row,          \* row[r]: the request of client message r ("NONE": not submitted)
  deleted       \* conversation.deletedAt is set: the conversation is recycled

queueVars == <<row, deleted>>

QueueTypeOK == row \in [Requests -> Row] /\ deleted \in BOOLEAN

QueueInit ==
  /\ row = [r \in Requests |->
       [status |-> "NONE", sequence |-> 0, started |-> FALSE, anchored |-> FALSE]]
  /\ deleted = FALSE

-----------------------------------------------------------------------------
InStatus(S)      == {r \in Requests : row[r].status \in S}
SequencesInUse   == {0} \cup {row[r].sequence : r \in Requests}
IsLastSequence(n) == n \in SequencesInUse /\ \A r \in Requests : row[r].sequence <= n
LastSequence     == CHOOSE n \in SequencesInUse : \A r \in Requests : row[r].sequence <= n

(* updateMany({where: id, status in from}, data: {status: to}) that matched *)
Move(r, from, to) ==
  /\ row[r].status \in from
  /\ row' = [row EXCEPT ![r].status = to]
  /\ UNCHANGED deleted

-----------------------------------------------------------------------------
(* submit(): a retry of the same client message finds the row and changes  *)
(* nothing, a recycled conversation refuses.                               *)
Submit(r) ==
  /\ ~deleted
  /\ row[r].status = "NONE"
  /\ row' = [row EXCEPT ![r].status = "QUEUED", ![r].sequence = LastSequence + 1]
  /\ UNCHANGED deleted

(* Mutant: the queue is read newest first. *)
IsLastQueued(r) ==
  /\ row[r].status = "QUEUED"
  /\ \A q \in InStatus({"QUEUED"}) : row[r].sequence >= row[q].sequence

IsFirstQueued(r) ==
  /\ row[r].status = "QUEUED"
  /\ \A q \in InStatus({"QUEUED"}) : row[r].sequence <= row[q].sequence

(* Mutant: the claim does not look for an active request. *)
ClaimNextUnchecked(r) ==
  /\ ~deleted
  /\ IsFirstQueued(r)
  /\ row' = [row EXCEPT ![r].status = "STARTING", ![r].started = TRUE]
  /\ UNCHANGED deleted

ClaimNext(r) ==
  /\ ~deleted
  /\ InStatus(Active) = {}
  /\ IsFirstQueued(r)
  /\ row' = [row EXCEPT ![r].status = "STARTING", ![r].started = TRUE]
  /\ UNCHANGED deleted

ClaimUserResume(r) == Move(r, {"WAITING_USER"}, "STARTING")
ClaimRecovery(r)   == Move(r, {"STARTING", "RUNNING"}, "STARTING")

MarkRunning(r) ==
  /\ row[r].status = "STARTING"
  /\ row' = [row EXCEPT ![r].status = "RUNNING", ![r].anchored = TRUE]
  /\ UNCHANGED deleted

MarkWaiting(r, status) == status \in Waiting /\ Move(r, {"RUNNING"}, status)
(* Mutant: another spelling of the status. *)
MarkCanceled(r) == Move(r, {"STARTING", "RUNNING"} \cup Waiting, "CANCELED")

MarkCancelling(r)      == Move(r, {"STARTING", "RUNNING"} \cup Waiting, "CANCELLING")

(* What markTerminal accepts for each terminal status.                     *)
MayEndFrom(status) ==
  IF status = "CANCELLED" THEN Active
  ELSE IF status = "FAILED" THEN Active \ {"CANCELLING"}
  ELSE {"RUNNING"} \cup Waiting

(* Mutant: the where clause names the row and no status. *)
MarkTerminalUnguarded(r, status) == status \in Terminal /\ Move(r, Status, status)

MarkTerminal(r, status) == status \in Terminal /\ Move(r, MayEndFrom(status), status)

-----------------------------------------------------------------------------
(* The two bulk updates of the restart recovery.  Neither has a status in  *)
(* its where clause: they act on ids read earlier.  The guards say what is *)
(* left of the earlier reads: a row read as STARTING or RUNNING has been   *)
(* claimed, and one read as CANCELLING is CANCELLING or CANCELLED still    *)
(* (proved of ChatTurn: RecoveryActsOnWhatItRead).                         *)
FailInterrupted(r) ==
  /\ row[r].started
  /\ row' = [row EXCEPT ![r].status = "FAILED"]
  /\ UNCHANGED deleted

CancelAfterRestart(S) ==
  /\ \A r \in S : row[r].status \in {"CANCELLING", "CANCELLED"}
  /\ row' = [r \in Requests |-> IF r \in S THEN [row[r] EXCEPT !.status = "CANCELLED"]
                                           ELSE row[r]]
  /\ UNCHANGED deleted

(* Recycling blocks what is queued and marks what runs; a request waiting  *)
(* for the user is in neither of its two lists.                            *)
Recycle ==
  /\ ~deleted
  /\ deleted' = TRUE
  /\ row' = [r \in Requests |->
       CASE row[r].status = "QUEUED" -> [row[r] EXCEPT !.status = "BLOCKED"]
         [] row[r].status \in {"STARTING", "RUNNING", "WAITING_APPROVAL", "WAITING_EXTERNAL"}
              -> [row[r] EXCEPT !.status = "CANCELLING"]
         [] OTHER -> row[r]]

Restore == deleted /\ deleted' = FALSE /\ UNCHANGED row

-----------------------------------------------------------------------------
QueueStep(r) ==
  \/ Submit(r) \/ ClaimNext(r) \/ ClaimUserResume(r) \/ ClaimRecovery(r)
  \/ MarkRunning(r) \/ MarkCancelling(r) \/ FailInterrupted(r)
  \/ \E status \in Waiting : MarkWaiting(r, status)
  \/ \E status \in Terminal : MarkTerminal(r, status)

QueueNext ==
  \/ \E r \in Requests : QueueStep(r)
  \/ \E S \in SUBSET Requests : CancelAfterRestart(S)
  \/ Recycle
  \/ Restore

QueueSpec == QueueInit /\ [][QueueNext]_queueVars

-----------------------------------------------------------------------------
(* One turn at a time: whatever the callers do, at most one request of the *)
(* conversation is in an active status.                                    *)
SingleActive ==
  \A r, s \in Requests :
    row[r].status \in Active /\ row[s].status \in Active => r = s

(* Turns start in the order they were accepted: nothing still queued is    *)
(* older than a request that was ever claimed, across stops, restarts,     *)
(* recycling and restoring.                                                *)
StartedInOrder ==
  \A r, s \in Requests :
    row[r].started /\ row[s].status = "QUEUED" => row[r].sequence < row[s].sequence

(* A settled request is settled: a terminal status is rewritten only by    *)
(* the restart recovery failing a request from a list it read earlier.     *)
TerminalStays ==
  [][\A r \in Requests :
       row[r].status \in Terminal /\ row'[r].status # row[r].status
         => row[r].started /\ row'[r].status = "FAILED"]_queueVars
=============================================================================
