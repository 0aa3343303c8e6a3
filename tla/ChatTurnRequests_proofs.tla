------------------------ MODULE ChatTurnRequests_proofs ------------------------
(***************************************************************************)
(* What holds of the queue of turns alone, of QueueSpec, in which any      *)
(* caller may run any statement of chat-turn-request.repository.ts at any  *)
(* time, for any set of messages.                                          *)
(*                                                                         *)
(* StartedInOrder is not inductive: a claim makes r a started request, so  *)
(* its sequence must be smaller than every other queued one, not just not  *)
(* larger (DistinctSequences), and a submit must number the new message    *)
(* past every started one, for which the largest sequence has to exist     *)
(* (LastExists).  QueueInv adds these and how a row's status, number and   *)
(* claim go together.                                                      *)
(***************************************************************************)
EXTENDS ChatTurnRequests, TLAPS

LastExists == \E n \in Nat : IsLastSequence(n)

DistinctSequences ==
  \A r, s \in Requests :
    row[r].sequence = row[s].sequence => r = s \/ row[r].status = "NONE"

(* A row is numbered when it is submitted and started when it is claimed.  *)
RowsAreCoherent ==
  \A r \in Requests :
    /\ row[r].status = "NONE" => row[r].sequence = 0
    /\ row[r].status # "NONE" => row[r].sequence > 0
    /\ row[r].status \in {"NONE", "QUEUED"} => ~row[r].started
    /\ row[r].status \in Active => row[r].started

QueueInv ==
  /\ QueueTypeOK /\ LastExists /\ DistinctSequences /\ RowsAreCoherent
  /\ SingleActive /\ StartedInOrder

-----------------------------------------------------------------------------
(* The effect of every statement but the submit and the claim: it numbers  *)
(* and starts nothing, queues nothing and makes nothing active that was    *)
(* not.                                                                    *)
Quiet ==
  /\ QueueTypeOK'
  /\ \A r \in Requests :
       /\ row'[r].sequence = row[r].sequence
       /\ row'[r].started = row[r].started
       /\ row'[r].status = "NONE" <=> row[r].status = "NONE"
       /\ row'[r].status = "QUEUED" => row[r].status = "QUEUED"
       /\ row'[r].status \in Active => row[r].status \in Active

(* A guarded status update from active statuses is quiet: the where clause *)
(* that every mark and claim of a started request carries.                 *)
LEMMA MoveIsQuiet ==
  ASSUME QueueTypeOK, NEW r \in Requests, NEW from, NEW to \in Active \cup Terminal,
         from \subseteq Active, Move(r, from, to)
  PROVE  Quiet
<1>1. row[r].status \in Active
  BY DEF Move
<1>2. QueueTypeOK'
  BY DEF QueueTypeOK, Move, Row, Status
<1>3. \A q \in Requests :
        row'[q] = IF q = r THEN [row[r] EXCEPT !.status = to] ELSE row[q]
  BY DEF QueueTypeOK, Move
<1>4. \A q \in Requests \ {r} : row'[q] = row[q]
  BY <1>3
<1>5. /\ row'[r].sequence = row[r].sequence
      /\ row'[r].started = row[r].started
      /\ row'[r].status = to
  BY <1>3 DEF QueueTypeOK, Row
<1>6. to \notin {"NONE", "QUEUED"} /\ row[r].status \notin {"NONE", "QUEUED"}
  BY <1>1 DEF Active, Waiting, Terminal
<1> QED
  BY <1>1, <1>2, <1>4, <1>5, <1>6 DEF Quiet

(* Nothing quiet disturbs the invariant of the queue.                      *)
LEMMA QuietKeepsInv ==
  ASSUME QueueInv, Quiet
  PROVE  QueueInv'
<1>1. LastExists'
  <2>1. PICK n \in Nat : IsLastSequence(n)
    BY DEF QueueInv, LastExists
  <2>2. SequencesInUse' = SequencesInUse
    BY DEF SequencesInUse, Quiet
  <2>3. IsLastSequence(n)'
    BY <2>1, <2>2 DEF IsLastSequence, Quiet
  <2> QED
    BY <2>3 DEF LastExists
<1>2. DistinctSequences'
  BY DEF QueueInv, Quiet, DistinctSequences
<1>3. RowsAreCoherent'
  BY DEF QueueInv, Quiet, RowsAreCoherent, Active, Waiting
<1>4. SingleActive'
  BY DEF QueueInv, Quiet, SingleActive
<1>5. StartedInOrder'
  BY DEF QueueInv, Quiet, StartedInOrder
<1> QED
  BY <1>1, <1>2, <1>3, <1>4, <1>5 DEF QueueInv, Quiet

-----------------------------------------------------------------------------
(* submit() numbers the new message past everything numbered before.       *)
LEMMA LastSequenceIsLast ==
  ASSUME QueueTypeOK, LastExists
  PROVE  /\ LastSequence \in Nat
         /\ \A r \in Requests : row[r].sequence <= LastSequence
<1>1. PICK n \in Nat : n \in SequencesInUse /\ \A r \in Requests : row[r].sequence <= n
  BY DEF LastExists, IsLastSequence
<1>2. /\ LastSequence \in SequencesInUse
      /\ \A r \in Requests : row[r].sequence <= LastSequence
  BY <1>1, Zenon DEF LastSequence
<1>3. SequencesInUse \subseteq Nat
  BY DEF SequencesInUse, QueueTypeOK, Row
<1> QED
  BY <1>2, <1>3

(* A new message is the youngest, so it cannot be older than a started one. *)
LEMMA SubmitKeepsInv ==
  ASSUME QueueInv, NEW r \in Requests, Submit(r)
  PROVE  QueueInv'
<1> DEFINE last == LastSequence
<1>1. last \in Nat /\ \A q \in Requests : row[q].sequence <= last
  BY LastSequenceIsLast DEF QueueInv
<1> HIDE DEF last
<1>2. row' = [row EXCEPT ![r].status = "QUEUED", ![r].sequence = last + 1]
      /\ UNCHANGED deleted /\ row[r].status = "NONE"
  BY DEF Submit, last
<1>3. QueueTypeOK'
  BY <1>1, <1>2 DEF QueueInv, QueueTypeOK, Row, Status
<1>4. /\ \A q \in Requests \ {r} : row'[q] = row[q]
      /\ row'[r].status = "QUEUED" /\ row'[r].sequence = last + 1
      /\ row'[r].started = row[r].started
  BY <1>2 DEF QueueInv, QueueTypeOK, Row
<1>5. ~row[r].started /\ \A q \in Requests : row[q].sequence \in Nat
  BY <1>2 DEF QueueInv, RowsAreCoherent, QueueTypeOK, Row
<1>6. LastExists'
  <2>1. last + 1 \in SequencesInUse'
    BY <1>4 DEF SequencesInUse
  <2>2. \A q \in Requests : row'[q].sequence <= last + 1
    BY <1>1, <1>4, <1>5
  <2>3. last + 1 \in Nat
    BY <1>1
  <2> QED
    BY <2>1, <2>2, <2>3 DEF LastExists, IsLastSequence
<1>7. DistinctSequences'
  BY <1>1, <1>4, <1>5 DEF QueueInv, DistinctSequences
<1>8. RowsAreCoherent'
  BY <1>1, <1>4, <1>5 DEF QueueInv, RowsAreCoherent, Active, Waiting
<1>9. SingleActive'
  BY <1>4 DEF QueueInv, SingleActive, Active, Waiting
<1>10. StartedInOrder'
  BY <1>1, <1>4, <1>5 DEF QueueInv, StartedInOrder
<1> QED
  BY <1>3, <1>6, <1>7, <1>8, <1>9, <1>10 DEF QueueInv

(* claimNext() starts the oldest queued message while nothing is active.   *)
LEMMA ClaimNextKeepsInv ==
  ASSUME QueueInv, NEW r \in Requests, ClaimNext(r)
  PROVE  QueueInv'
<1>1. /\ row' = [row EXCEPT ![r].status = "STARTING", ![r].started = TRUE]
      /\ UNCHANGED deleted /\ row[r].status = "QUEUED"
  BY DEF ClaimNext, IsFirstQueued
<1>2. QueueTypeOK'
  BY <1>1 DEF QueueInv, QueueTypeOK, Row, Status, Active
<1>3. /\ \A q \in Requests \ {r} : row'[q] = row[q]
      /\ row'[r].status = "STARTING" /\ row'[r].started
      /\ row'[r].sequence = row[r].sequence
  BY <1>1 DEF QueueInv, QueueTypeOK, Row
<1>4. \A q \in Requests : row'[q].sequence = row[q].sequence /\ row[q].sequence \in Nat
  BY <1>3 DEF QueueInv, QueueTypeOK, Row
<1>5. LastExists'
  <2>1. PICK n \in Nat : IsLastSequence(n)
    BY DEF QueueInv, LastExists
  <2>2. SequencesInUse' = SequencesInUse
    BY <1>4 DEF SequencesInUse
  <2>3. IsLastSequence(n)'
    BY <1>4, <2>1, <2>2 DEF IsLastSequence
  <2> QED
    BY <2>3 DEF LastExists
<1>6. DistinctSequences'
  <2>1. \A q \in Requests : row'[q].status = "NONE" <=> row[q].status = "NONE"
    BY <1>1, <1>3
  <2> QED
    BY <1>4, <2>1 DEF QueueInv, DistinctSequences
<1>7. RowsAreCoherent'
  BY <1>1, <1>3, <1>4 DEF QueueInv, RowsAreCoherent
<1>8. SingleActive'
  <2>1. \A q \in Requests : row[q].status \notin Active
    BY DEF ClaimNext, InStatus
  <2> QED
    BY <1>3, <2>1 DEF SingleActive
<1>9. StartedInOrder'
  <2>1. \A q \in Requests : row[q].status = "QUEUED" => row[r].sequence <= row[q].sequence
    BY DEF ClaimNext, IsFirstQueued, InStatus
  <2>2. \A q \in Requests \ {r} :
          row[q].status = "QUEUED" => row[r].sequence < row[q].sequence
    BY <1>1, <1>4, <2>1 DEF QueueInv, DistinctSequences
  <2> QED
    BY <1>3, <1>4, <2>2 DEF QueueInv, StartedInOrder
<1> QED
  BY <1>2, <1>5, <1>6, <1>7, <1>8, <1>9 DEF QueueInv

-----------------------------------------------------------------------------
(* The empty queue satisfies the invariant.                                *)
LEMMA InitEstablishesInv == QueueInit => QueueInv
<1> SUFFICES ASSUME QueueInit PROVE QueueInv
  OBVIOUS
<1>1. \A r \in Requests :
        row[r].status = "NONE" /\ row[r].sequence = 0 /\ row[r].started = FALSE
  BY DEF QueueInit
<1>2. QueueTypeOK
  BY DEF QueueInit, QueueTypeOK, Row, Status
<1>3. LastExists
  BY <1>1 DEF LastExists, IsLastSequence, SequencesInUse
<1>4. SingleActive
  BY <1>1 DEF SingleActive, Active, Waiting
<1> QED
  BY <1>1, <1>2, <1>3, <1>4
  DEF QueueInv, DistinctSequences, RowsAreCoherent, StartedInOrder, Active, Waiting

(* Every statement of the repository keeps it, whoever calls it.           *)
LEMMA NextKeepsInv == QueueInv /\ [QueueNext]_queueVars => QueueInv'
<1> SUFFICES ASSUME QueueInv, [QueueNext]_queueVars PROVE QueueInv'
  OBVIOUS
<1> USE DEF QueueInv
<1>1. ASSUME NEW r \in Requests, QueueStep(r) PROVE QueueInv'
  <2>1. CASE Submit(r)
    BY <2>1, SubmitKeepsInv
  <2>2. CASE ClaimNext(r)
    BY <2>2, ClaimNextKeepsInv
  <2>3. CASE ClaimUserResume(r)
    BY <2>3, MoveIsQuiet, QuietKeepsInv DEF ClaimUserResume, Active, Waiting
  <2>4. CASE ClaimRecovery(r)
    BY <2>4, MoveIsQuiet, QuietKeepsInv DEF ClaimRecovery, Active
  <2>5. CASE MarkRunning(r)
    <3>1. \A q \in Requests :
            /\ row'[q].sequence = row[q].sequence /\ row'[q].started = row[q].started
            /\ q # r => row'[q] = row[q]
      BY <2>5 DEF MarkRunning, QueueTypeOK, Row
    <3>2. row[r].status = "STARTING" /\ row'[r].status = "RUNNING"
      BY <2>5 DEF MarkRunning, QueueTypeOK, Row
    <3>3. QueueTypeOK'
      BY <2>5 DEF MarkRunning, QueueTypeOK, Row, Status, Active
    <3> QED
      BY <3>1, <3>2, <3>3, QuietKeepsInv DEF Quiet, Active
  <2>6. CASE MarkCancelling(r)
    BY <2>6, MoveIsQuiet, QuietKeepsInv DEF MarkCancelling, Active
  <2>7. CASE FailInterrupted(r)
    <3>1. row[r].status \notin {"NONE", "QUEUED"}
      BY <2>7 DEF FailInterrupted, RowsAreCoherent
    <3>2. \A q \in Requests :
            /\ row'[q].sequence = row[q].sequence /\ row'[q].started = row[q].started
            /\ q # r => row'[q] = row[q]
      BY <2>7 DEF FailInterrupted, QueueTypeOK, Row
    <3>3. row'[r].status = "FAILED"
      BY <2>7 DEF FailInterrupted, QueueTypeOK, Row
    <3>4. QueueTypeOK'
      BY <2>7 DEF FailInterrupted, QueueTypeOK, Row, Status, Terminal
    <3> QED
      BY <3>1, <3>2, <3>3, <3>4, QuietKeepsInv DEF Quiet, Active, Waiting
  <2>8. ASSUME NEW status \in Waiting, MarkWaiting(r, status) PROVE QueueInv'
    BY <2>8, MoveIsQuiet, QuietKeepsInv DEF MarkWaiting, Active
  <2>9. ASSUME NEW status \in Terminal, MarkTerminal(r, status) PROVE QueueInv'
    <3>1. MayEndFrom(status) \subseteq Active
      BY DEF MayEndFrom, Active
    <3> QED
      BY <2>9, <3>1, MoveIsQuiet, QuietKeepsInv DEF MarkTerminal
  <2> QED
    BY <1>1, <2>1, <2>2, <2>3, <2>4, <2>5, <2>6, <2>7, <2>8, <2>9 DEF QueueStep
<1>2. ASSUME NEW S \in SUBSET Requests, CancelAfterRestart(S) PROVE QueueInv'
  <2>1. \A q \in Requests :
          /\ row'[q].sequence = row[q].sequence /\ row'[q].started = row[q].started
          /\ q \notin S => row'[q] = row[q]
          /\ q \in S => row'[q].status = "CANCELLED"
    BY <1>2 DEF CancelAfterRestart, QueueTypeOK, Row
  <2>2. \A q \in S : row[q].status \in {"CANCELLING", "CANCELLED"}
    BY <1>2 DEF CancelAfterRestart
  <2>3. QueueTypeOK'
    BY <1>2 DEF CancelAfterRestart, QueueTypeOK, Row, Status, Terminal
  <2> QED
    BY <2>1, <2>2, <2>3, QuietKeepsInv DEF Quiet, Active, Waiting
<1>3. CASE Recycle
  <2>1. \A q \in Requests :
          /\ row'[q].sequence = row[q].sequence /\ row'[q].started = row[q].started
          /\ \/ row'[q].status = row[q].status
             \/ row[q].status = "QUEUED" /\ row'[q].status = "BLOCKED"
             \/ row[q].status \in Active /\ row'[q].status = "CANCELLING"
    BY <1>3 DEF Recycle, QueueTypeOK, Row, Active, Waiting
  <2>2. QueueTypeOK'
    BY <1>3 DEF Recycle, QueueTypeOK, Row, Status, Active, Terminal
  <2> QED
    BY <2>1, <2>2, QuietKeepsInv DEF Quiet, Active, Waiting
<1>4. CASE Restore
  BY <1>4, QuietKeepsInv DEF Restore, Quiet, QueueTypeOK
<1>5. CASE UNCHANGED queueVars
  BY <1>5, QuietKeepsInv DEF queueVars, Quiet, QueueTypeOK
<1> QED
  BY <1>1, <1>2, <1>3, <1>4, <1>5 DEF QueueNext

(* The invariant of the queue holds in every behaviour of the repository.  *)
THEOREM QueueInvariant == QueueSpec => []QueueInv
  BY InitEstablishesInv, NextKeepsInv, PTL DEF QueueSpec

(* Every row stays a row with a known status, a natural number and flags.  *)
THEOREM QueueTypeCorrect == QueueSpec => []QueueTypeOK
<1>1. QueueInv => QueueTypeOK
  BY DEF QueueInv
<1> QED
  BY <1>1, QueueInvariant, PTL

(* One turn at a time, for any number of messages and any callers.         *)
THEOREM OneTurnAtATime == QueueSpec => []SingleActive
<1>1. QueueInv => SingleActive
  BY DEF QueueInv
<1> QED
  BY <1>1, QueueInvariant, PTL

(* Turns start in the order their messages were accepted.                  *)
THEOREM TurnsStartInOrder == QueueSpec => []StartedInOrder
<1>1. QueueInv => StartedInOrder
  BY DEF QueueInv
<1> QED
  BY <1>1, QueueInvariant, PTL

(* A guarded status update starts from an active status, so it leaves a    *)
(* settled request alone.                                                  *)
LEMMA MoveLeavesTerminal ==
  ASSUME QueueTypeOK, NEW r \in Requests, NEW from, NEW to,
         from \subseteq Active, Move(r, from, to)
  PROVE  \A q \in Requests : row[q].status \in Terminal => row'[q] = row[q]
<1>1. row[r].status \notin Terminal
  BY DEF Move, Active, Waiting, Terminal
<1>2. \A q \in Requests \ {r} : row'[q] = row[q]
  BY DEF Move, QueueTypeOK
<1> QED
  BY <1>1, <1>2

(* A settled request is settled, whoever calls: only the restart recovery  *)
(* rewrites a terminal status, and only of a request that had started.     *)
THEOREM SettledStaysSettled == QueueSpec => TerminalStays
<1> DEFINE Stays == \A r \in Requests :
             row[r].status \in Terminal /\ row'[r].status # row[r].status
               => row[r].started /\ row'[r].status = "FAILED"
<1>1. ASSUME QueueTypeOK, [QueueNext]_queueVars PROVE Stays
  <2>1. ASSUME NEW r \in Requests, QueueStep(r) PROVE Stays
    <3>1. CASE FailInterrupted(r)
      BY <1>1, <3>1 DEF FailInterrupted, QueueTypeOK, Row
    <3>2. CASE Submit(r)
      BY <1>1, <3>2 DEF Submit, QueueTypeOK, Terminal
    <3>3. CASE ClaimNext(r)
      BY <1>1, <3>3 DEF ClaimNext, IsFirstQueued, QueueTypeOK, Terminal
    <3>4. CASE MarkRunning(r)
      BY <1>1, <3>4 DEF MarkRunning, QueueTypeOK, Terminal
    <3>5. CASE ClaimUserResume(r)
      BY <1>1, <3>5, MoveLeavesTerminal DEF ClaimUserResume, Active, Waiting
    <3>6. CASE ClaimRecovery(r)
      BY <1>1, <3>6, MoveLeavesTerminal DEF ClaimRecovery, Active
    <3>7. CASE MarkCancelling(r)
      BY <1>1, <3>7, MoveLeavesTerminal DEF MarkCancelling, Active
    <3>8. ASSUME NEW status \in Waiting, MarkWaiting(r, status) PROVE Stays
      BY <1>1, <3>8, MoveLeavesTerminal DEF MarkWaiting, Active
    <3>9. ASSUME NEW status \in Terminal, MarkTerminal(r, status) PROVE Stays
      <4>1. MayEndFrom(status) \subseteq Active
        BY DEF MayEndFrom, Active
      <4> QED
        BY <1>1, <3>9, <4>1, MoveLeavesTerminal DEF MarkTerminal
    <3> QED
      BY <2>1, <3>1, <3>2, <3>3, <3>4, <3>5, <3>6, <3>7, <3>8, <3>9 DEF QueueStep
  <2>2. ASSUME NEW S \in SUBSET Requests, CancelAfterRestart(S) PROVE Stays
    <3>1. \A q \in S : row[q].status \in Terminal => row[q].status = "CANCELLED"
      BY <2>2 DEF CancelAfterRestart, Terminal
    <3>2. \A q \in Requests :
            row'[q].status = IF q \in S THEN "CANCELLED" ELSE row[q].status
      BY <1>1, <2>2 DEF CancelAfterRestart, QueueTypeOK, Row
    <3> QED
      BY <3>1, <3>2
  <2>3. CASE Recycle
    <3>1. \A q \in Requests : row[q].status \in Terminal => row'[q] = row[q]
      BY <2>3 DEF Recycle, Terminal
    <3> QED
      BY <3>1
  <2>4. CASE Restore \/ UNCHANGED queueVars
    BY <2>4 DEF Restore, queueVars
  <2> QED
    BY <1>1, <2>1, <2>2, <2>3, <2>4 DEF QueueNext
<1>2. QueueTypeOK /\ [QueueNext]_queueVars => [Stays]_queueVars
  BY <1>1
<1> QED
  BY <1>2, QueueTypeCorrect, PTL DEF QueueSpec, TerminalStays
=============================================================================
