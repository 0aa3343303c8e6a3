------------------------- MODULE Conversation_proofs -------------------------
(***************************************************************************)
(* Proofs about three parts of a conversation.                             *)
(*                                                                         *)
(* ConversationLock: for any number of calls, aborted or not, the turns of *)
(* a conversation run one at a time in the order of arrival, and the map   *)
(* keeps an entry exactly while there is somebody to wait for.             *)
(*                                                                         *)
(* Approval: for any number of calls, clients and requests, what a call    *)
(* acts on is what its row records for good.                               *)
(*                                                                         *)
(* Retention: for any number of conversations, files, workers and faults,  *)
(* no file is stored that nobody would ever remove.                        *)
(***************************************************************************)
EXTENDS MCConversation, ChatTurnRequests_proofs, SequenceTheorems

-----------------------------------------------------------------------------
(* The lock of a conversation.                                             *)
(***************************************************************************)
(* The first k calls have left, the next one may act, and those after it   *)
(* wait, each for the one before it, on the entry of the map, which counts *)
(* them all.                                                               *)
(***************************************************************************)
FrontAt(k) ==
  /\ \A i \in DOMAIN calls : calls[i].at = "left" <=> i <= k
  /\ \A i \in DOMAIN calls : i > k + 1 => calls[i].at = "waiting" /\ calls[i].previous = i - 1
  /\ \A i \in DOMAIN calls : i > k => calls[i].queue = entry

EntryAt(k) ==
  /\ entry = 0 <=> k = Len(calls)
  /\ entry # 0 => entry \in DOMAIN queues
                  /\ queues[entry] = [tail |-> Len(calls), pending |-> Len(calls) - k]

LockInv == TypeOK /\ \E k \in 0..Len(calls) : FrontAt(k) /\ EntryAt(k)

(* What is left of a line of n calls when k of them have gone.             *)
LEMMA Remaining ==
  ASSUME NEW n \in Nat, NEW k \in Nat
  PROVE  /\ n - k - 1 = n - (k + 1)
         /\ n - k = 1 <=> k + 1 = n
         /\ n + 1 > k + 1 => k # n
         /\ k < n => k # n
  OBVIOUS

LEMMA LockInitially == Init => LockInv
<1> SUFFICES ASSUME Init PROVE LockInv
  OBVIOUS
<1>1. TypeOK
  BY DEF Init, TypeOK
<1>2. Len(calls) = 0 /\ DOMAIN calls = {}
  BY DEF Init
<1>3. FrontAt(0) /\ EntryAt(0)
  BY <1>2 DEF Init, FrontAt, EntryAt
<1> QED
  BY <1>1, <1>2, <1>3 DEF LockInv

(* A call that comes in lines up behind the last one.                      *)
LEMMA RunExclusiveKeeps == ASSUME LockInv, RunExclusive PROVE LockInv'
<1>1. PICK k \in 0..Len(calls) : FrontAt(k) /\ EntryAt(k)
  BY DEF LockInv
<1> DEFINE state == [tail |-> Len(calls) + 1, pending |-> State.pending + 1]
           call  == [at |-> "waiting", previous |-> State.tail,
                     queue |-> Current, aborted |-> FALSE]
<1>2. /\ calls \in Seq(Call) /\ queues \in Seq(QueueState) /\ entry \in Nat
      /\ Len(calls) \in Nat /\ Len(queues) \in Nat /\ k \in Nat /\ k <= Len(calls)
      /\ DOMAIN calls = 1..Len(calls) /\ DOMAIN queues = 1..Len(queues)
  BY DEF LockInv, TypeOK
<1>3. /\ State \in QueueState
      /\ State.pending = Len(calls) - k
      /\ entry # 0 => State.tail = Len(calls)
  <2>1. CASE entry = 0
    <3>1. k = Len(calls) /\ State = [tail |-> 0, pending |-> 0]
      BY <1>1, <2>1 DEF EntryAt, State, NewQueue
    <3> QED
      BY <1>2, <2>1, <3>1 DEF QueueState
  <2>2. CASE entry # 0
    <3>1. State = [tail |-> Len(calls), pending |-> Len(calls) - k]
      BY <1>1, <2>2 DEF EntryAt, State
    <3>2. Len(calls) - k \in Nat
      BY <1>2
    <3> QED
      BY <1>2, <3>1, <3>2 DEF QueueState
  <2> QED
    BY <2>1, <2>2
<1>4. state \in QueueState /\ call \in Call
  BY <1>2, <1>3 DEF QueueState, Call, Current
<1>5. /\ calls' = Append(calls, call)
      /\ queues' = IF entry = 0 THEN Append(queues, state) ELSE [queues EXCEPT ![entry] = state]
      /\ entry' = Current
  BY DEF RunExclusive, Joined
<1> HIDE DEF state, call
<1>6. /\ calls' \in Seq(Call) /\ Len(calls') = Len(calls) + 1
      /\ DOMAIN calls' = 1..Len(calls) + 1
      /\ \A i \in 1..Len(calls) : calls'[i] = calls[i]
      /\ calls'[Len(calls) + 1] = call
  BY <1>2, <1>4, <1>5, AppendProperties
<1>7. queues' \in Seq(QueueState)
  <2>1. CASE entry = 0
    BY <2>1, <1>2, <1>4, <1>5, AppendProperties
  <2>2. CASE entry # 0
    BY <2>2, <1>1, <1>2, <1>4, <1>5, ExceptSeq DEF EntryAt
  <2> QED
    BY <2>1, <2>2
<1>8. entry' \in Nat /\ entry' # 0 /\ entry' \in DOMAIN queues' /\ queues'[entry'] = state
  <2>1. CASE entry = 0
    BY <2>1, <1>2, <1>4, <1>5, AppendProperties DEF Current
  <2>2. CASE entry # 0
    BY <2>2, <1>1, <1>2, <1>4, <1>5, ExceptSeq DEF EntryAt, Current
  <2> QED
    BY <2>1, <2>2
<1>9. FrontAt(k)'
  <2>1. ASSUME NEW i \in 1..Len(calls)
        PROVE  /\ calls'[i].at = "left" <=> i <= k
               /\ i > k + 1 => calls'[i].at = "waiting" /\ calls'[i].previous = i - 1
               /\ i > k => calls'[i].queue = entry'
    <3>1. calls'[i] = calls[i] /\ i \in DOMAIN calls
      BY <1>2, <1>6
    <3>2. ASSUME i > k PROVE entry # 0
      <4>1. k < Len(calls)
        BY <1>2, <3>2
      <4>2. k # Len(calls)
        BY <1>2, <4>1, Remaining
      <4> QED
        BY <1>1, <4>2 DEF EntryAt
    <3>3. i > k => entry' = entry
      BY <1>5, <3>2 DEF Current
    <3> QED
      BY <1>1, <3>1, <3>3 DEF FrontAt
  <2>2. /\ call.at = "waiting" /\ call.queue = entry'
        /\ Len(calls) + 1 > k + 1 => call.previous = Len(calls)
    <3>1. Len(calls) + 1 > k + 1 => entry # 0
      BY <1>1, <1>2, Remaining DEF EntryAt
    <3> QED
      BY <1>3, <1>5, <3>1 DEF call
  <2> SUFFICES ASSUME NEW i \in 1..Len(calls) + 1
               PROVE  /\ calls'[i].at = "left" <=> i <= k
                      /\ i > k + 1 => calls'[i].at = "waiting" /\ calls'[i].previous = i - 1
                      /\ i > k => calls'[i].queue = entry'
    BY <1>6 DEF FrontAt
  <2>3. CASE i \in 1..Len(calls)
    BY <2>1, <2>3
  <2>4. CASE i = Len(calls) + 1
    <3>1. calls'[i] = call /\ i - 1 = Len(calls) /\ ~(i <= k)
      BY <1>2, <1>6, <2>4
    <3> QED
      BY <2>2, <2>4, <3>1
  <2> QED
    BY <1>2, <2>3, <2>4
<1>10. EntryAt(k)'
  BY <1>2, <1>3, <1>6, <1>8 DEF EntryAt, state
<1> QED
  BY <1>2, <1>6, <1>7, <1>8, <1>9, <1>10 DEF LockInv, TypeOK

(* A step of a call that stays in line changes nothing of the order.       *)
LEMMA StayingKeeps ==
  ASSUME LockInv, NEW i \in DOMAIN calls, NEW call \in Call,
         calls[i].at # "left", call.at # "left",
         call.previous = calls[i].previous, call.queue = calls[i].queue,
         \A k \in Nat : FrontAt(k) /\ i > k + 1 => call.at = "waiting",
         calls' = [calls EXCEPT ![i] = call], UNCHANGED <<queues, entry>>
  PROVE  LockInv'
<1>1. PICK k \in 0..Len(calls) : FrontAt(k) /\ EntryAt(k)
  BY DEF LockInv
<1>2. /\ calls \in Seq(Call) /\ DOMAIN calls = 1..Len(calls) /\ k \in Nat
      /\ calls' \in Seq(Call) /\ Len(calls') = Len(calls) /\ DOMAIN calls' = DOMAIN calls
      /\ \A j \in DOMAIN calls : calls'[j] = IF j = i THEN call ELSE calls[j]
  BY ExceptSeq DEF LockInv, TypeOK
<1>3. FrontAt(k)'
  BY <1>1, <1>2 DEF FrontAt
<1>4. EntryAt(k)'
  BY <1>1, <1>2 DEF EntryAt
<1> QED
  BY <1>1, <1>2, <1>3, <1>4 DEF LockInv, TypeOK

(* Whoever leaves first in line hands over to the next one.                *)
LEMMA ReleaseKeeps ==
  ASSUME LockInv, NEW k \in 0..Len(calls), FrontAt(k), EntryAt(k),
         k + 1 \in DOMAIN calls, Release(k + 1)
  PROVE  LockInv'
<1>1. /\ calls \in Seq(Call) /\ queues \in Seq(QueueState) /\ entry \in Nat
      /\ Len(calls) \in Nat /\ k \in Nat /\ k + 1 <= Len(calls)
      /\ DOMAIN calls = 1..Len(calls) /\ DOMAIN queues = 1..Len(queues)
  BY DEF LockInv, TypeOK
<1>2. /\ entry # 0 /\ entry \in DOMAIN queues /\ calls[k + 1].queue = entry
      /\ queues[entry] = [tail |-> Len(calls), pending |-> Len(calls) - k]
  <2>1. k # Len(calls) /\ k + 1 > k
    <3>1. \A n, j \in Nat : j + 1 <= n => j # n /\ j + 1 > j
      OBVIOUS
    <3> QED
      BY <1>1, <3>1
  <2>2. entry # 0 /\ entry \in DOMAIN queues
        /\ queues[entry] = [tail |-> Len(calls), pending |-> Len(calls) - k]
    BY <2>1 DEF EntryAt
  <2>3. calls[k + 1].queue = entry
    BY <2>1 DEF FrontAt
  <2> QED
    BY <2>2, <2>3
<1> DEFINE state == [tail |-> Len(calls), pending |-> Len(calls) - (k + 1)]
           call  == [calls[k + 1] EXCEPT !.at = "left"]
<1>3. /\ calls' = [calls EXCEPT ![k + 1] = call]
      /\ queues' = [queues EXCEPT ![entry] = state]
      /\ entry' = IF k + 1 = Len(calls) THEN 0 ELSE entry
  <2>1. calls' = [calls EXCEPT ![k + 1] = call]
    BY DEF Release
  <2>2. queues' = [queues EXCEPT ![entry].pending = Len(calls) - k - 1]
    BY <1>2 DEF Release
  <2>3. Len(calls) - k - 1 = Len(calls) - (k + 1) /\ (Len(calls) - k = 1 <=> k + 1 = Len(calls))
    BY <1>1, Remaining
  <2>4. [queues[entry] EXCEPT !.pending = Len(calls) - k - 1] = state
    BY <1>2, <2>3
  <2>5. entry' = IF Len(calls) - k = 1 THEN 0 ELSE entry
    BY <1>2 DEF Release
  <2> QED
    BY <2>1, <2>2, <2>3, <2>4, <2>5
<1>4. call \in Call /\ call.at = "left" /\ state \in QueueState
  <2>1. calls[k + 1] \in Call
    BY <1>1
  <2>2. call \in Call /\ call.at = "left"
    BY <2>1 DEF Call
  <2>3. Len(calls) - (k + 1) \in Nat
    BY <1>1
  <2> QED
    BY <1>1, <2>2, <2>3 DEF QueueState
<1> HIDE DEF state, call
<1>5. /\ calls' \in Seq(Call) /\ Len(calls') = Len(calls) /\ DOMAIN calls' = DOMAIN calls
      /\ \A j \in DOMAIN calls : calls'[j] = IF j = k + 1 THEN call ELSE calls[j]
  BY <1>1, <1>3, <1>4, ExceptSeq
<1>6. queues' \in Seq(QueueState) /\ DOMAIN queues' = DOMAIN queues /\ queues'[entry] = state
  <2>1. entry \in 1..Len(queues)
    BY <1>1, <1>2
  <2> QED
    BY <1>1, <1>3, <1>4, <2>1, ExceptSeq
<1>7. FrontAt(k + 1)'
  <2> SUFFICES ASSUME NEW i \in DOMAIN calls
               PROVE  /\ calls'[i].at = "left" <=> i <= k + 1
                      /\ i > k + 1 + 1 => /\ calls'[i].at = "waiting"
                                         /\ calls'[i].previous = i - 1
                      /\ i > k + 1 => calls'[i].queue = entry'
    BY <1>5 DEF FrontAt
  <2>1. CASE i = k + 1
    BY <1>1, <1>4, <1>5, <2>1
  <2>2. CASE i # k + 1
    <3>1. calls'[i] = calls[i] /\ i \in Nat /\ (i <= k + 1 <=> i <= k)
      BY <1>1, <1>5, <2>2
    <3>2. ASSUME i > k + 1 PROVE entry' = entry
      <4>1. k + 1 < Len(calls)
        BY <1>1, <3>2
      <4>2. k + 1 # Len(calls)
        BY <1>1, <4>1, Remaining
      <4> QED
        BY <1>3, <4>2
    <3>3. (i > k + 1 + 1 => i > k + 1) /\ (i > k + 1 => i > k)
      BY <1>1, <3>1
    <3> QED
      BY <3>1, <3>2, <3>3 DEF FrontAt
  <2> QED
    BY <2>1, <2>2
<1>8. EntryAt(k + 1)'
  BY <1>1, <1>2, <1>3, <1>5, <1>6 DEF EntryAt, state
<1>9. k + 1 \in 0..Len(calls')
  BY <1>1, <1>5
<1>10. entry' \in Nat
  BY <1>1, <1>3
<1> QED
  BY <1>5, <1>6, <1>7, <1>8, <1>9, <1>10 DEF LockInv, TypeOK

LEMMA AbortKeeps == ASSUME LockInv, NEW i \in DOMAIN calls, Abort(i) PROVE LockInv'
<1> DEFINE call == [calls[i] EXCEPT !.aborted = TRUE]
<1>1. calls[i] \in Call
  BY DEF LockInv, TypeOK
<1>2. /\ call \in Call /\ call.at = calls[i].at
      /\ call.previous = calls[i].previous /\ call.queue = calls[i].queue
  BY <1>1 DEF Call
<1>3. calls[i].at # "left" /\ calls' = [calls EXCEPT ![i] = call] /\ UNCHANGED <<queues, entry>>
  BY DEF Abort
<1> HIDE DEF call
<1>4. \A k \in Nat : FrontAt(k) /\ i > k + 1 => call.at = "waiting"
  BY <1>2 DEF FrontAt
<1> QED
  BY <1>2, <1>3, <1>4, StayingKeeps

(* Only the first in line finds the promise it waits for resolved.         *)
LEMMA ResolvedIsFirst ==
  ASSUME TypeOK, NEW k \in Nat, FrontAt(k), NEW i \in DOMAIN calls,
         \/ calls[i].at = "waiting" /\ Resolved(calls[i].previous)
         \/ calls[i].at = "acting"
  PROVE  i = k + 1
<1>1. DOMAIN calls = 1..Len(calls) /\ Len(calls) \in Nat
  BY DEF TypeOK
<1>2. i > k
  BY <1>1 DEF FrontAt
<1>3. ASSUME i > k + 1 PROVE FALSE
  <2>1. calls[i].at = "waiting" /\ calls[i].previous = i - 1
    BY <1>3 DEF FrontAt
  <2>2. i - 1 \in DOMAIN calls /\ calls[i - 1].at # "left"
    BY <1>1, <1>3 DEF FrontAt
  <2> QED
    BY <2>1, <2>2 DEF Resolved
<1> QED
  BY <1>1, <1>2, <1>3

LEMMA EnterKeeps == ASSUME LockInv, NEW i \in DOMAIN calls, Enter(i) PROVE LockInv'
<1>1. PICK k \in 0..Len(calls) : FrontAt(k) /\ EntryAt(k)
  BY DEF LockInv
<1>2. k \in Nat /\ TypeOK /\ calls[i] \in Call
  BY DEF LockInv, TypeOK
<1>3. \A j \in Nat : FrontAt(j) => i = j + 1
  BY <1>2, ResolvedIsFirst DEF Enter
<1>4. CASE calls[i].aborted
  BY <1>1, <1>2, <1>3, <1>4, ReleaseKeeps DEF Enter
<1>5. CASE ~calls[i].aborted
  <2> DEFINE call == [calls[i] EXCEPT !.at = "acting"]
  <2>1. /\ call \in Call /\ call.at = "acting"
        /\ call.previous = calls[i].previous /\ call.queue = calls[i].queue
    BY <1>2 DEF Call
  <2>2. calls[i].at = "waiting" /\ calls' = [calls EXCEPT ![i] = call] /\ UNCHANGED <<queues, entry>>
    BY <1>5 DEF Enter
  <2> HIDE DEF call
  <2>3. \A j \in Nat : FrontAt(j) /\ i > j + 1 => call.at = "waiting"
    BY <1>3
  <2> QED
    BY <2>1, <2>2, <2>3, StayingKeeps
<1> QED
  BY <1>4, <1>5

LEMMA FinishKeeps == ASSUME LockInv, NEW i \in DOMAIN calls, Finish(i) PROVE LockInv'
<1>1. PICK k \in 0..Len(calls) : FrontAt(k) /\ EntryAt(k)
  BY DEF LockInv
<1>2. i = k + 1
  BY <1>1, ResolvedIsFirst DEF LockInv, Finish
<1> QED
  BY <1>1, <1>2, ReleaseKeeps DEF Finish

LEMMA LockInductive == LockInv /\ [Next]_vars => LockInv'
<1> SUFFICES ASSUME LockInv, [Next]_vars PROVE LockInv'
  OBVIOUS
<1>1. CASE RunExclusive
  BY <1>1, RunExclusiveKeeps
<1>2. ASSUME NEW i \in DOMAIN calls, Abort(i) PROVE LockInv'
  BY <1>2, AbortKeeps
<1>3. ASSUME NEW i \in DOMAIN calls, Enter(i) PROVE LockInv'
  BY <1>3, EnterKeeps
<1>4. ASSUME NEW i \in DOMAIN calls, Finish(i) PROVE LockInv'
  BY <1>4, FinishKeeps
<1>5. CASE UNCHANGED vars
  BY <1>5 DEF vars, LockInv, TypeOK, FrontAt, EntryAt
<1> QED
  BY <1>1, <1>2, <1>3, <1>4, <1>5 DEF Next

LEMMA LockInvariance == Spec => []LockInv
<1> QED
  BY LockInitially, LockInductive, PTL DEF Spec

-----------------------------------------------------------------------------
(* A turn of a conversation starts only after every turn requested before  *)
(* it is over, with any number of requests and aborts.                     *)
THEOREM OneAtATimeInOrderHolds == Spec => []OneAtATimeInOrder
<1>1. LockInv => OneAtATimeInOrder
  <2> SUFFICES ASSUME LockInv, NEW i \in DOMAIN calls, NEW j \in DOMAIN calls,
                      i < j, calls[j].at # "waiting"
               PROVE  calls[i].at = "left"
    BY DEF OneAtATimeInOrder
  <2>1. PICK k \in 0..Len(calls) : FrontAt(k)
    BY DEF LockInv
  <2>2. DOMAIN calls = 1..Len(calls)
    BY DEF LockInv, TypeOK
  <2>3. j <= k + 1
    BY <2>1, <2>2 DEF FrontAt
  <2> QED
    BY <2>1, <2>2, <2>3 DEF FrontAt
<1> QED
  BY <1>1, LockInvariance, PTL

(* The map drops a conversation's chain when, and only when, its last call *)
(* has left: nobody starts a second chain beside a live one.               *)
THEOREM EntryWhileNeededHolds == Spec => []EntryWhileNeeded
<1>1. LockInv => EntryWhileNeeded
  <2> SUFFICES ASSUME LockInv PROVE EntryWhileNeeded
    OBVIOUS
  <2>1. PICK k \in 0..Len(calls) : FrontAt(k) /\ EntryAt(k)
    BY DEF LockInv
  <2>2. DOMAIN calls = 1..Len(calls) /\ Len(calls) \in Nat
    BY DEF LockInv, TypeOK
  <2>3. CASE k = Len(calls)
    BY <2>1, <2>2, <2>3 DEF FrontAt, EntryAt, EntryWhileNeeded
  <2>4. CASE k # Len(calls)
    <3>1. k + 1 \in DOMAIN calls /\ calls[k + 1].at # "left"
      <4>1. \A n \in Nat : \A j \in 0..n : j # n => j + 1 \in 1..n /\ ~(j + 1 <= j)
        OBVIOUS
      <4>2. k + 1 \in DOMAIN calls /\ ~(k + 1 <= k)
        BY <2>2, <2>4, <4>1
      <4> QED
        BY <2>1, <4>2 DEF FrontAt
    <3>2. entry # 0 /\ entry \in DOMAIN queues
      BY <2>1, <2>4 DEF EntryAt
    <3> QED
      BY <3>1, <3>2 DEF EntryWhileNeeded
  <2> QED
    BY <2>3, <2>4
<1> QED
  BY <1>1, LockInvariance, PTL

(* Every call, chain and entry has its type for good.                      *)
THEOREM LockTypeCorrect == Spec => []TypeOK
<1>1. LockInv => TypeOK
  BY DEF LockInv
<1> QED
  BY <1>1, LockInvariance, PTL

(* The chain of promises is a line.                                        *)
LEMMA LineStep ==
  ASSUME LockInv, [Next]_vars
  PROVE  [Line!LineNext]_([i \in DOMAIN calls |-> calls[i].at])
<1> DEFINE line == [i \in DOMAIN calls |-> calls[i].at]
<1>1. PICK k \in 0..Len(calls) : FrontAt(k)
  BY DEF LockInv
<1>2. /\ calls \in Seq(Call) /\ DOMAIN calls = 1..Len(calls)
      /\ Len(calls) \in Nat /\ k \in Nat /\ TypeOK
  BY DEF LockInv, TypeOK
<1>3. CASE RunExclusive
  <2> DEFINE call == [at |-> "waiting", previous |-> State.tail, queue |-> Current, aborted |-> FALSE]
  <2>1. calls' = Append(calls, call) /\ call.at = "waiting"
    BY <1>3 DEF RunExclusive, Joined
  <2> HIDE DEF call
  <2>2. /\ DOMAIN calls' = 1..(Len(calls) + 1)
        /\ \A i \in 1..Len(calls) : calls'[i] = calls[i]
        /\ calls'[Len(calls) + 1] = call
    BY <1>2, <2>1
  <2>3. line \in Seq({"waiting", "acting", "left"}) /\ Len(line) = Len(calls)
    <3>1. ASSUME NEW i \in 1..Len(calls) PROVE calls[i].at \in {"waiting", "acting", "left"}
      <4>1. calls[i] \in Call
        BY <1>2
      <4> QED
        BY <4>1 DEF Call
    <3>2. line \in [1..Len(calls) -> {"waiting", "acting", "left"}]
      BY <1>2, <3>1
    <3> HIDE DEF line
    <3> QED
      BY <1>2, <3>2
  <2>4. line' = [i \in 1..(Len(calls) + 1) |-> IF i = Len(calls) + 1 THEN "waiting" ELSE line[i]]
    BY <1>2, <2>1, <2>2
  <2> HIDE DEF line
  <2>5. Append(line, "waiting") = [i \in 1..(Len(calls) + 1) |-> IF i = Len(calls) + 1 THEN "waiting" ELSE line[i]]
    <3>1. "waiting" \in {"waiting", "acting", "left"} /\ 1..(Len(calls) + 1) = 1..Len(calls) \cup {Len(calls) + 1}
      BY <1>2
    <3>2. DOMAIN Append(line, "waiting") = 1..(Len(calls) + 1)
          /\ \A i \in 1..Len(calls) : Append(line, "waiting")[i] = line[i]
          /\ Append(line, "waiting")[Len(calls) + 1] = "waiting"
      BY <1>2, <2>3, <3>1, AppendProperties
    <3>3. Append(line, "waiting") = [i \in 1..(Len(calls) + 1) |-> Append(line, "waiting")[i]]
      <4> DEFINE longer == Append(line, "waiting")
      <4>1. longer \in Seq({"waiting", "acting", "left"})
        BY <2>3, <3>1, AppendProperties
      <4>3. longer = [i \in DOMAIN longer |-> longer[i]]
        <5> HIDE DEF longer
        <5> QED
          BY <4>1
      <4> QED
        BY <3>2, <4>3
    <3>4. \A i \in 1..(Len(calls) + 1) : i # Len(calls) + 1 => i \in 1..Len(calls)
      BY <3>1
    <3> QED
      BY <3>2, <3>3, <3>4
  <2>6. line' = Append(line, "waiting")
    BY <2>4, <2>5
  <2> QED
    BY <2>6 DEF line, Line!LineNext, Line!Arrive
<1>4. ASSUME NEW i \in DOMAIN calls, NEW call, calls' = [calls EXCEPT ![i] = call]
      PROVE  line' = [line EXCEPT ![i] = call.at]
  BY <1>2, <1>4
<1>5. ASSUME NEW i \in DOMAIN calls, Enter(i) \/ Finish(i)
      PROVE  Line!First(i)
  <2>1. i = k + 1
    BY <1>1, <1>2, <1>5, ResolvedIsFirst DEF Enter, Finish
  <2>2. \A j \in 1..(i - 1) : j \in DOMAIN calls /\ j <= k
    BY <1>2, <2>1
  <2>3. \A j \in 1..(i - 1) : line[j] = "left"
    BY <1>1, <2>2 DEF FrontAt
  <2> QED
    BY <2>3 DEF Line!First
<1>6. ASSUME NEW i \in DOMAIN calls, Abort(i)
      PROVE  line' = line
  <2>1. calls' = [calls EXCEPT ![i] = [calls[i] EXCEPT !.aborted = TRUE]]
    BY <1>6 DEF Abort
  <2>2. [calls[i] EXCEPT !.aborted = TRUE].at = calls[i].at
    BY <1>2 DEF Call
  <2> QED
    BY <1>4, <2>1, <2>2
<1>7. ASSUME NEW i \in DOMAIN calls, Enter(i)
      PROVE  Line!TakeTurn(i) \/ Line!GiveUp(i)
  <2>1. line[i] = "waiting"
    BY <1>7 DEF Enter
  <2>2. calls[i] \in Call
    BY <1>2
  <2>3. \E at \in {"acting", "left"} : calls' = [calls EXCEPT ![i] = [calls[i] EXCEPT !.at = at]]
    BY <1>7 DEF Enter, Release
  <2>4. ASSUME NEW at, calls' = [calls EXCEPT ![i] = [calls[i] EXCEPT !.at = at]]
        PROVE  line' = [line EXCEPT ![i] = at]
    <3>1. [calls[i] EXCEPT !.at = at].at = at
      BY <2>2 DEF Call
    <3> QED
      BY <1>4, <2>4, <3>1
  <2>5. \E at \in {"acting", "left"} : line' = [line EXCEPT ![i] = at]
    BY <2>3, <2>4
  <2> HIDE DEF line
  <2> QED
    BY <1>5, <1>7, <2>1, <2>5 DEF line, Line!TakeTurn, Line!GiveUp, Line!Turn
<1>8. ASSUME NEW i \in DOMAIN calls, Finish(i)
      PROVE  Line!Leave(i)
  <2>1. line[i] = "acting"
    BY <1>8 DEF Finish
  <2>2. calls' = [calls EXCEPT ![i] = [calls[i] EXCEPT !.at = "left"]] /\ calls[i] \in Call
    BY <1>2, <1>8 DEF Finish, Release
  <2>3. [calls[i] EXCEPT !.at = "left"].at = "left"
    BY <2>2 DEF Call
  <2>4. line' = [line EXCEPT ![i] = "left"]
    BY <1>4, <2>2, <2>3
  <2> QED
    BY <1>5, <1>8, <2>1, <2>4 DEF Line!Leave, Line!Turn
<1>9. CASE UNCHANGED vars
  BY <1>9 DEF vars
<1> QED
  BY <1>3, <1>6, <1>7, <1>8, <1>9 DEF Next, Line!LineNext

(* For any number of calls, aborted or not, the lock serves them as a line *)
(* does: each takes its turn or gives up only as the first of those that   *)
(* are still there, and once (ConversationLockService.runExclusive).       *)
THEOREM ServedAsInLineHolds == Spec => ServedAsInLine
<1>1. Init => Line!LineInit
  <2> SUFFICES ASSUME Init PROVE Line!LineInit
    OBVIOUS
  <2>1. DOMAIN calls = {} /\ calls = <<>>
    BY DEF Init
  <2>2. [i \in {} |-> calls[i].at] = <<>>
    OBVIOUS
  <2> QED
    BY <2>1, <2>2 DEF Line!LineInit
<1> QED
  BY <1>1, LineStep, LockInvariance, PTL DEF Spec, ServedAsInLine, Line!LineSpec

-----------------------------------------------------------------------------
(* The consent to a tool call.                                             *)
ConsentRow    == [status : {None, "pending", "approved", "rejected", "expired", "cancelled", "resumed"},
                  decision : Decisions \cup {None}]
ConsentCall   == [at : {"idle", "asking", "answered", "executed", "done", "failed"} \cup Asking,
                  risk : {"medium", "high"}, answer : Decisions \cup {None},
                  late : {None, "expired", "cancelled"}]
ConsentClient == [at : {"idle", "read", "list", "each", "resolving", "written"},
                  call : Calls \cup {None}, decision : Decisions \cup {None},
                  held : BOOLEAN, todo : SUBSET Calls, reconciles : BOOLEAN]

(***************************************************************************)
(* A row takes one decision while it is pending, is named after it, and    *)
(* moves on only when a consent was acted on.                              *)
(***************************************************************************)
RecordsOnce(record) ==
  record.decision # None =>
    \/ record.status = StatusOf(record.decision)
    \/ record.status = "resumed" /\ record.decision \in Consents

(* Before a call has asked there is no row; it goes on with an answer only, *)
(* and with the one of its row.                                            *)
HasItsAnswer(call, record) ==
  /\ call.at \in {"idle", "asking"} => record.status = None /\ record.decision = None
  /\ call.answer # None => record.decision = call.answer
  /\ call.at = "answered" => call.answer # None
  /\ call.at = "executed" => call.answer \in Consents

(* A client that is deciding knows what and about which call.              *)
KnowsItsCall(client) ==
  /\ client.at \in {"read", "resolving", "written"} => client.call \in Calls
  /\ client.at \in {"read", "resolving"} => client.decision \in Decisions

CallsInv   == \A c \in Calls : RecordsOnce(rows[c]) /\ HasItsAnswer(toolCalls[c], rows[c])
ClientsInv == \A a \in Clients : KnowsItsCall(clients[a])

(* The types, without the bound of a run on the requests that are served.  *)
ConsentTyped ==
  /\ policy \in [mode : Modes, moved : BOOLEAN, open : BOOLEAN]
  /\ rows \in [Calls -> ConsentRow]
  /\ toolCalls \in [Calls -> ConsentCall]
  /\ aborted \in BOOLEAN
  /\ clients \in [Clients -> ConsentClient]

ConsentInv == ConsentTyped /\ CallsInv /\ ClientsInv

LEMMA ConsentInitially == ConsentInit => ConsentInv
<1> SUFFICES ASSUME ConsentInit PROVE ConsentInv
  OBVIOUS
<1>1. /\ \A c \in Calls : /\ rows[c] = [status |-> None, decision |-> None]
                          /\ \E r \in {"medium", "high"} :
                               toolCalls[c] = [at |-> "idle", risk |-> r, answer |-> None, late |-> None]
      /\ \A a \in Clients : clients[a] = NoClient
  BY DEF ConsentInit
<1>2. ConsentTyped
  <2>1. NoClient \in ConsentClient /\ [status |-> None, decision |-> None] \in ConsentRow
    BY DEF NoClient, ConsentClient, ConsentRow
  <2>2. \A r \in {"medium", "high"} : [at |-> "idle", risk |-> r, answer |-> None, late |-> None] \in ConsentCall
    BY DEF ConsentCall
  <2>3. toolCalls \in [Calls -> ConsentCall]
    BY <2>2 DEF ConsentInit
  <2> QED
    BY <2>1, <2>3 DEF ConsentInit, ConsentTyped, Modes
<1>3. CallsInv
  <2> SUFFICES ASSUME NEW c \in Calls PROVE RecordsOnce(rows[c]) /\ HasItsAnswer(toolCalls[c], rows[c])
    BY DEF CallsInv
  <2>1. rows[c].status = None /\ rows[c].decision = None
    BY <1>1
  <2>2. toolCalls[c].at = "idle" /\ toolCalls[c].answer = None
    BY <1>1
  <2> QED
    BY <2>1, <2>2 DEF RecordsOnce, HasItsAnswer
<1>4. ClientsInv
  BY <1>1 DEF ClientsInv, KnowsItsCall, NoClient
<1> QED
  BY <1>2, <1>3, <1>4 DEF ConsentInv

(***************************************************************************)
(* What a step has to show of the one call, the one row or the one client  *)
(* that it changes.                                                        *)
(***************************************************************************)
LEMMA CallChanges ==
  ASSUME ConsentInv, NEW c \in Calls, NEW call \in ConsentCall, NEW record \in ConsentRow,
         toolCalls' = [toolCalls EXCEPT ![c] = call], rows' = [rows EXCEPT ![c] = record],
         RecordsOnce(record), HasItsAnswer(call, record)
  PROVE  rows' \in [Calls -> ConsentRow] /\ toolCalls' \in [Calls -> ConsentCall] /\ CallsInv'
<1>1. \A d \in Calls : /\ toolCalls'[d] = IF d = c THEN call ELSE toolCalls[d]
                       /\ rows'[d] = IF d = c THEN record ELSE rows[d]
  BY DEF ConsentInv, ConsentTyped
<1> QED
  BY <1>1 DEF ConsentInv, ConsentTyped, CallsInv

LEMMA ClientChanges ==
  ASSUME ConsentInv, NEW a \in Clients, NEW client \in ConsentClient,
         clients' = [clients EXCEPT ![a] = client], KnowsItsCall(client)
  PROVE  clients' \in [Clients -> ConsentClient] /\ ClientsInv'
<1>1. \A b \in Clients : clients'[b] = IF b = a THEN client ELSE clients[b]
  BY DEF ConsentInv, ConsentTyped
<1> QED
  BY <1>1 DEF ConsentInv, ConsentTyped, ClientsInv

(***************************************************************************)
(* The steps of a tool call: it is asked for, answered, given up and acted *)
(* on.  None of them changes what a row decided.                           *)
(***************************************************************************)
LEMMA CallKeeps ==
  ASSUME ConsentInv, NEW c \in Calls, CallStep(c) \/ GiveUp(c)
  PROVE  ConsentInv'
<1> DEFINE To(at) == [toolCalls[c] EXCEPT !.at = at]
           Told   == [toolCalls[c] EXCEPT !.at = "answered", !.answer = rows[c].decision]
           Set(s) == [rows[c] EXCEPT !.status = s]
<1>1. toolCalls[c] \in ConsentCall /\ rows[c] \in ConsentRow /\ RecordsOnce(rows[c]) /\ HasItsAnswer(toolCalls[c], rows[c])
  BY DEF ConsentInv, ConsentTyped, CallsInv
<1>2. rows = [rows EXCEPT ![c] = rows[c]]
  BY DEF ConsentInv, ConsentTyped
<1>3. ASSUME UNCHANGED <<policy, aborted, clients>>, CallsInv', rows' \in [Calls -> ConsentRow], toolCalls' \in [Calls -> ConsentCall]
      PROVE  ConsentInv'
  BY <1>3 DEF ConsentInv, ConsentTyped, ClientsInv
<1> HIDE DEF To, Told, Set
<1>4. ASSUME NEW call \in ConsentCall, NEW record \in ConsentRow, UNCHANGED <<policy, aborted, clients>>,
             toolCalls' = [toolCalls EXCEPT ![c] = call], rows' = [rows EXCEPT ![c] = record],
             RecordsOnce(record), HasItsAnswer(call, record)
      PROVE  ConsentInv'
  BY <1>3, <1>4, CallChanges
<1>5. CASE Resolve(c)
  <2>1. PICK at \in {"asking", "done"} : toolCalls' = [toolCalls EXCEPT ![c] = To(at)]
    BY <1>5 DEF Resolve, MoveCall, To
  <2>2. To(at) \in ConsentCall /\ HasItsAnswer(To(at), rows[c])
    BY <1>1, <1>5, <2>1 DEF Resolve, To, ConsentCall, HasItsAnswer
  <2> QED
    BY <1>1, <1>2, <1>4, <1>5, <2>1, <2>2 DEF Resolve
<1>6. CASE Request(c)
  <2>1. To("asked") \in ConsentCall /\ Set("pending") \in ConsentRow
    BY <1>1 DEF To, Set, ConsentCall, ConsentRow, Asking
  <2>2. RecordsOnce(Set("pending")) /\ HasItsAnswer(To("asked"), Set("pending"))
    BY <1>1, <1>6 DEF Request, RecordsOnce, HasItsAnswer, Set, To, ConsentCall, ConsentRow
  <2>3. toolCalls' = [toolCalls EXCEPT ![c] = To("asked")] /\ rows' = [rows EXCEPT ![c] = Set("pending")]
    BY <1>6 DEF Request, MoveCall, To, Set
  <2> QED
    BY <1>4, <1>6, <2>1, <2>2, <2>3 DEF Request
<1>7. ASSUME rows[c].decision # None, toolCalls' = [toolCalls EXCEPT ![c] = Told],
             UNCHANGED <<policy, rows, aborted, clients>>
      PROVE  ConsentInv'
  <2>1. Told \in ConsentCall /\ HasItsAnswer(Told, rows[c])
    BY <1>1, <1>7 DEF Told, ConsentCall, ConsentRow, HasItsAnswer
  <2> QED
    BY <1>1, <1>2, <1>4, <1>7, <2>1
<1>8. CASE Look(c)
  <2>1. CASE rows[c].decision # None
    BY <1>7, <1>8, <2>1 DEF Look, Answered, Told
  <2>2. CASE rows[c].decision = None
    <3>1. To("looked") \in ConsentCall /\ HasItsAnswer(To("looked"), rows[c])
      BY <1>1, <1>8 DEF Look, To, ConsentCall, HasItsAnswer, Asking
    <3>2. toolCalls' = [toolCalls EXCEPT ![c] = To("looked")]
      BY <1>8, <2>2 DEF Look, MoveCall, To
    <3> QED
      BY <1>1, <1>2, <1>4, <1>8, <3>1, <3>2 DEF Look
  <2> QED
    BY <2>1, <2>2
<1>9. CASE Register(c)
  <2>1. PICK at \in {"failed", "waiting"} : toolCalls' = [toolCalls EXCEPT ![c] = To(at)]
    BY <1>9 DEF Register, MoveCall, To
  <2>2. To(at) \in ConsentCall /\ HasItsAnswer(To(at), rows[c])
    BY <1>1, <2>1 DEF To, ConsentCall, HasItsAnswer, Asking
  <2> QED
    BY <1>1, <1>2, <1>4, <1>9, <2>1, <2>2 DEF Register
<1>10. CASE Poll(c)
  BY <1>7, <1>10 DEF Poll, Answered, Told
<1>11. CASE Execute(c)
  <2>1. PICK at \in {"failed", "executed"} : /\ toolCalls' = [toolCalls EXCEPT ![c] = To(at)]
                                             /\ at = "executed" => toolCalls[c].answer # "rejected"
    BY <1>11 DEF Execute, MoveCall, To
  <2>2. To(at) \in ConsentCall
    BY <1>1 DEF To, ConsentCall
  <2>3. HasItsAnswer(To(at), rows[c])
    BY <1>1, <1>11, <2>1 DEF Execute, To, ConsentCall, HasItsAnswer, Consents
  <2> QED
    BY <1>1, <1>2, <1>4, <1>11, <2>1, <2>2, <2>3 DEF Execute
<1>12. CASE MarkResumed(c)
  <2>1. To("done") \in ConsentCall /\ Set("resumed") \in ConsentRow
    BY <1>1 DEF To, Set, ConsentCall, ConsentRow
  <2>2. RecordsOnce(Set("resumed")) /\ HasItsAnswer(To("done"), Set("resumed"))
    BY <1>1, <1>12 DEF MarkResumed, RecordsOnce, HasItsAnswer, Set, To, ConsentCall, ConsentRow, Consents, Decisions, None
  <2>3. toolCalls' = [toolCalls EXCEPT ![c] = To("done")] /\ rows' = [rows EXCEPT ![c] = Set("resumed")]
    BY <1>12 DEF MarkResumed, MoveCall, To, Set
  <2> QED
    BY <1>4, <1>12, <2>1, <2>2, <2>3 DEF MarkResumed
<1>13. CASE MarkGivenUp(c)
  <2> DEFINE call == [toolCalls[c] EXCEPT !.late = None]
             record == Set(IF rows[c].status = "pending" THEN toolCalls[c].late ELSE rows[c].status)
  <2>1. call \in ConsentCall /\ record \in ConsentRow
    BY <1>1 DEF Set, ConsentCall, ConsentRow, None
  <2>2. RecordsOnce(record)
    BY <1>1 DEF RecordsOnce, Set, ConsentRow, StatusOf
  <2>3. HasItsAnswer(call, record)
    BY <1>1 DEF HasItsAnswer, Set, ConsentRow, ConsentCall, None
  <2>4. toolCalls' = [toolCalls EXCEPT ![c] = call] /\ rows' = [rows EXCEPT ![c] = record]
    BY <1>13 DEF MarkGivenUp, Set
  <2> QED
    BY <1>4, <1>13, <2>1, <2>2, <2>3, <2>4 DEF MarkGivenUp
<1>14. CASE GiveUp(c)
  <2>1. PICK status \in {"expired", "cancelled"} :
          toolCalls' = [toolCalls EXCEPT ![c] = [toolCalls[c] EXCEPT !.at = "failed", !.late = status]]
    BY <1>14 DEF GiveUp
  <2> DEFINE call == [toolCalls[c] EXCEPT !.at = "failed", !.late = status]
  <2>2. call \in ConsentCall /\ HasItsAnswer(call, rows[c])
    BY <1>1 DEF HasItsAnswer, ConsentCall
  <2> QED
    BY <1>1, <1>2, <1>4, <1>14, <2>1, <2>2 DEF GiveUp
<1> QED
  BY <1>5, <1>6, <1>8, <1>9, <1>10, <1>11, <1>12, <1>13, <1>14 DEF CallStep

(***************************************************************************)
(* The steps of a client.  Only one of them writes a row, and only while   *)
(* it is pending; only the last gives a call its answer.                   *)
(***************************************************************************)
LEMMA ServeKeeps ==
  ASSUME ConsentInv, NEW a \in Clients,
         \/ \E c \in Calls, d \in Decisions : Decide(a, c, d)
         \/ \E m \in Modes, w \in BOOLEAN : ChangeSettings(a, m, w)
  PROVE  ConsentInv'
<1>1. ASSUME NEW client \in ConsentClient, KnowsItsCall(client), clients' = [clients EXCEPT ![a] = client],
             policy' \in [mode : Modes, moved : BOOLEAN, open : BOOLEAN], UNCHANGED <<rows, toolCalls, aborted>>
      PROVE  ConsentInv'
  <2>1. clients' \in [Clients -> ConsentClient] /\ ClientsInv'
    BY <1>1, ClientChanges
  <2> QED
    BY <1>1, <2>1 DEF ConsentInv, ConsentTyped, CallsInv
<1>2. ASSUME NEW c \in Calls, NEW d \in Decisions, Decide(a, c, d)
      PROVE  ConsentInv'
  <2> DEFINE client == [NoClient EXCEPT !.at = "read", !.call = c, !.decision = d,
                                        !.reconciles = d \in TaskWide]
  <2>1. client \in ConsentClient /\ KnowsItsCall(client)
    <3>1. \A r \in BOOLEAN : /\ [NoClient EXCEPT !.at = "read", !.call = c, !.decision = d, !.reconciles = r] \in ConsentClient
                             /\ KnowsItsCall([NoClient EXCEPT !.at = "read", !.call = c, !.decision = d, !.reconciles = r])
      BY DEF NoClient, ConsentClient, KnowsItsCall
    <3>2. (d \in TaskWide) \in BOOLEAN
      OBVIOUS
    <3> QED
      BY <3>1, <3>2
  <2>2. clients' = [clients EXCEPT ![a] = client] /\ UNCHANGED <<policy, rows, toolCalls, aborted>>
    BY <1>2 DEF Decide, Serve
  <2> QED
    BY <1>1, <2>1, <2>2 DEF ConsentInv, ConsentTyped
<1>3. ASSUME NEW m \in Modes, NEW w \in BOOLEAN, ChangeSettings(a, m, w)
      PROVE  ConsentInv'
  <2> DEFINE client == [NoClient EXCEPT !.at = "list", !.reconciles = TRUE]
  <2>1. client \in ConsentClient /\ KnowsItsCall(client)
    BY DEF NoClient, ConsentClient, KnowsItsCall
  <2>2. clients' = [clients EXCEPT ![a] = client] /\ UNCHANGED <<rows, toolCalls, aborted>>
    BY <1>3 DEF ChangeSettings, Serve
  <2>3. policy' \in [mode : Modes, moved : BOOLEAN, open : BOOLEAN]
    BY <1>3 DEF ChangeSettings, ConsentInv, ConsentTyped
  <2> QED
    BY <1>1, <2>1, <2>2, <2>3
<1> QED
  BY <1>2, <1>3

LEMMA ClientKeeps ==
  ASSUME ConsentInv, NEW a \in Clients,
         \/ Permit(a) \/ List(a) \/ Reconciled(a) \/ Write(a) \/ Answer(a)
         \/ \E c \in Calls : Reconcile(a, c)
  PROVE  ConsentInv'
<1>1. clients[a] \in ConsentClient /\ KnowsItsCall(clients[a])
  BY DEF ConsentInv, ConsentTyped, ClientsInv
<1>2. NoClient \in ConsentClient /\ KnowsItsCall(NoClient)
  BY DEF NoClient, ConsentClient, KnowsItsCall
<1>3. ASSUME NEW client \in ConsentClient, KnowsItsCall(client), clients' = [clients EXCEPT ![a] = client],
             policy' \in [mode : Modes, moved : BOOLEAN, open : BOOLEAN], aborted' = aborted,
             rows' \in [Calls -> ConsentRow], toolCalls' \in [Calls -> ConsentCall], CallsInv'
      PROVE  ConsentInv'
  <2>1. clients' \in [Clients -> ConsentClient] /\ ClientsInv'
    BY <1>3, ClientChanges
  <2> QED
    BY <1>3, <2>1 DEF ConsentInv, ConsentTyped
<1>4. ASSUME UNCHANGED <<rows, toolCalls>>
      PROVE  rows' \in [Calls -> ConsentRow] /\ toolCalls' \in [Calls -> ConsentCall] /\ CallsInv'
  BY <1>4 DEF ConsentInv, ConsentTyped, CallsInv
<1>5. policy \in [mode : Modes, moved : BOOLEAN, open : BOOLEAN]
  BY DEF ConsentInv, ConsentTyped
<1>6. CASE Permit(a)
  <2>1. policy' \in [mode : Modes, moved : BOOLEAN, open : BOOLEAN]
    BY <1>5, <1>6 DEF Permit, Modes
  <2>2. PICK held \in BOOLEAN : \/ clients' = [clients EXCEPT ![a] = NoClient]
                                \/ clients' = [clients EXCEPT ![a] = [clients[a] EXCEPT !.at = "resolving", !.held = held]]
    BY <1>6 DEF Permit
  <2> DEFINE client == [clients[a] EXCEPT !.at = "resolving", !.held = held]
  <2>3. client \in ConsentClient
    BY <1>1 DEF ConsentClient
  <2>4. KnowsItsCall(client)
    BY <1>1, <1>6 DEF Permit, ConsentClient, KnowsItsCall
  <2> QED
    BY <1>2, <1>3, <1>4, <1>6, <2>1, <2>2, <2>3, <2>4 DEF Permit
<1>7. CASE List(a)
  <2> DEFINE client == [clients[a] EXCEPT !.at = "each", !.todo = {c \in Calls : rows[c].status = "pending"}]
  <2>1. client \in ConsentClient /\ KnowsItsCall(client)
    BY <1>1 DEF ConsentClient, KnowsItsCall
  <2>2. clients' = [clients EXCEPT ![a] = client] /\ UNCHANGED <<policy, rows, toolCalls, aborted>>
    BY <1>7 DEF List
  <2> QED
    BY <1>3, <1>4, <1>5, <2>1, <2>2
<1>8. CASE Reconciled(a)
  BY <1>2, <1>3, <1>4, <1>5, <1>8 DEF Reconciled
<1>9. ASSUME NEW c \in Calls, Reconcile(a, c)
      PROVE  ConsentInv'
  <2> DEFINE next == [clients[a] EXCEPT !.todo = @ \ {c}]
             client(v, h) == [next EXCEPT !.at = "resolving", !.call = c, !.decision = v, !.held = h]
  <2>1. next \in ConsentClient /\ KnowsItsCall(next)
    BY <1>1 DEF ConsentClient, KnowsItsCall
  <2>2. \A v \in Decisions, h \in BOOLEAN : client(v, h) \in ConsentClient /\ KnowsItsCall(client(v, h))
    BY <1>1 DEF ConsentClient, KnowsItsCall
  <2>3. \/ clients' = [clients EXCEPT ![a] = next]
        \/ \E v \in {"rejected", "approved_once"}, h \in BOOLEAN : clients' = [clients EXCEPT ![a] = client(v, h)]
    BY <1>9 DEF Reconcile
  <2>4. UNCHANGED <<policy, rows, toolCalls, aborted>>
    BY <1>9 DEF Reconcile
  <2> QED
    BY <1>3, <1>4, <1>5, <2>1, <2>2, <2>3, <2>4 DEF Decisions
<1>10. CASE Write(a)
  <2> DEFINE c      == clients[a].call
             d      == clients[a].decision
             client == [clients[a] EXCEPT !.at = "written"]
             record  == IF rows[c].status # "pending" THEN rows[c]
                       ELSE [rows[c] EXCEPT !.status = StatusOf(d), !.decision = d]
  <2>1. c \in Calls /\ d \in Decisions
    BY <1>1, <1>10 DEF Write, KnowsItsCall
  <2>2. client \in ConsentClient /\ KnowsItsCall(client)
    BY <1>1, <2>1 DEF ConsentClient, KnowsItsCall
  <2>3. /\ rows[c] \in ConsentRow /\ toolCalls[c] \in ConsentCall
        /\ RecordsOnce(rows[c]) /\ HasItsAnswer(toolCalls[c], rows[c])
    BY <2>1 DEF ConsentInv, ConsentTyped, CallsInv
  <2> HIDE DEF c, d
  <2>4. record \in ConsentRow
    BY <2>1, <2>3 DEF ConsentRow, StatusOf
  <2>5. RecordsOnce(record)
    BY <2>1, <2>3 DEF ConsentRow, RecordsOnce
  <2>6. HasItsAnswer(toolCalls[c], record)
    BY <2>1, <2>3 DEF ConsentRow, ConsentCall, RecordsOnce, HasItsAnswer, StatusOf, None
  <2>7. toolCalls' = [toolCalls EXCEPT ![c] = toolCalls[c]] /\ rows' = [rows EXCEPT ![c] = record]
    BY <1>10 DEF Write, ConsentInv, ConsentTyped, c, d
  <2>8. rows' \in [Calls -> ConsentRow] /\ toolCalls' \in [Calls -> ConsentCall] /\ CallsInv'
    BY <2>1, <2>3, <2>4, <2>5, <2>6, <2>7, CallChanges
  <2>9. clients' = [clients EXCEPT ![a] = client] /\ UNCHANGED <<policy, aborted>>
    BY <1>10 DEF Write
  <2> QED
    BY <1>3, <1>5, <2>2, <2>8, <2>9
<1>11. CASE Answer(a)
  <2> DEFINE c    == clients[a].call
             told == [toolCalls[c] EXCEPT !.at = "answered", !.answer = rows[c].decision]
             next(at) == [NoClient EXCEPT !.at = at, !.todo = clients[a].todo, !.reconciles = TRUE]
  <2>1. c \in Calls
    BY <1>1, <1>11 DEF Answer, KnowsItsCall
  <2>2. /\ rows[c] \in ConsentRow /\ toolCalls[c] \in ConsentCall
        /\ RecordsOnce(rows[c]) /\ HasItsAnswer(toolCalls[c], rows[c])
    BY <2>1 DEF ConsentInv, ConsentTyped, CallsInv
  <2>3. \/ UNCHANGED toolCalls
        \/ rows[c].decision # None /\ toolCalls' = [toolCalls EXCEPT ![c] = told]
    BY <1>11 DEF Answer, Answered
  <2>4. \/ clients' = [clients EXCEPT ![a] = NoClient]
        \/ \E at \in {"list", "each"} : clients' = [clients EXCEPT ![a] = next(at)]
    BY <1>11 DEF Answer
  <2>5. \A at \in {"list", "each"} : next(at) \in ConsentClient /\ KnowsItsCall(next(at))
    BY <1>1 DEF NoClient, ConsentClient, KnowsItsCall
  <2>6. UNCHANGED <<policy, rows, aborted>>
    BY <1>11 DEF Answer
  <2> HIDE DEF c
  <2>7. rows' \in [Calls -> ConsentRow] /\ toolCalls' \in [Calls -> ConsentCall] /\ CallsInv'
    <3>1. CASE UNCHANGED toolCalls
      BY <1>4, <2>6, <3>1
    <3>2. CASE rows[c].decision # None /\ toolCalls' = [toolCalls EXCEPT ![c] = told]
      <4>1. told \in ConsentCall /\ HasItsAnswer(told, rows[c])
        BY <2>2, <3>2 DEF ConsentCall, ConsentRow, HasItsAnswer
      <4>2. rows' = [rows EXCEPT ![c] = rows[c]]
        BY <2>6 DEF ConsentInv, ConsentTyped
      <4> QED
        BY <2>1, <2>2, <3>2, <4>1, <4>2, CallChanges
    <3> QED
      BY <2>3, <3>1, <3>2
  <2> QED
    BY <1>2, <1>3, <1>5, <2>4, <2>5, <2>6, <2>7
<1> QED
  BY <1>6, <1>7, <1>8, <1>9, <1>10, <1>11

LEMMA ConsentInvariance == ConsentSpec => []ConsentInv
<1>1. ConsentInv /\ [ConsentNext]_consentVars => ConsentInv'
  <2> SUFFICES ASSUME ConsentInv, [ConsentNext]_consentVars PROVE ConsentInv'
    OBVIOUS
  <2>1. CASE UNCHANGED consentVars
    BY <2>1 DEF consentVars, ConsentInv, ConsentTyped, CallsInv, ClientsInv
  <2>2. CASE AbortTurn \/ Close
    BY <2>2 DEF AbortTurn, Close, ConsentInv, ConsentTyped, CallsInv, ClientsInv
  <2> QED
    BY <2>1, <2>2, CallKeeps, ServeKeeps, ClientKeeps DEF ConsentNext
<1> QED
  BY <1>1, ConsentInitially, PTL DEF ConsentSpec

(* A call that was executed on a consent has a row that records a consent, *)
(* and one that was refused a rejection, whatever the user, another of his *)
(* clients, a change of the policy and the timer did in between            *)
(* (resolvePendingRow, waitForDecision, invokeResolved).                   *)
THEOREM ActsAsRecordedHolds == ConsentSpec => []ActsAsRecorded
<1>1. ConsentInv => ActsAsRecorded
  <2> SUFFICES ASSUME ConsentInv, NEW c \in Calls
               PROVE  /\ toolCalls[c].answer # None => rows[c].decision = toolCalls[c].answer
                      /\ rows[c].decision \in Consents => rows[c].status \in {"approved", "resumed"}
                      /\ rows[c].decision = "rejected" => rows[c].status = "rejected"
    BY DEF ActsAsRecorded
  <2>1. RecordsOnce(rows[c]) /\ HasItsAnswer(toolCalls[c], rows[c])
    BY DEF ConsentInv, CallsInv
  <2> QED
    BY <2>1 DEF RecordsOnce, HasItsAnswer, StatusOf, Consents, Decisions, None
<1> QED
  BY <1>1, ConsentInvariance, PTL

(* What a step may do to a row and to a call that is over.                 *)
RowGoesOn(c) ==
  /\ rows[c].decision # None => rows'[c].decision = rows[c].decision
  /\ rows[c].status \in {"rejected", "expired", "cancelled", "resumed"} => rows'[c] = rows[c]

CallStaysOver(c) ==
  toolCalls[c].at \in {"done", "failed"} => toolCalls'[c].at = toolCalls[c].at

(* A call leaves its end alone, and writes its row only before and after   *)
(* the decision.                                                           *)
LEMMA CallKeepsDecisions ==
  ASSUME ConsentInv, NEW d \in Calls, CallStep(d) \/ GiveUp(d), NEW c \in Calls
  PROVE  RowGoesOn(c) /\ CallStaysOver(c)
<1>1. /\ rows \in [Calls -> ConsentRow] /\ toolCalls \in [Calls -> ConsentCall]
      /\ RecordsOnce(rows[d]) /\ HasItsAnswer(toolCalls[d], rows[d])
  BY DEF ConsentInv, ConsentTyped, CallsInv
<1>2. RowGoesOn(c)
  <2>1. CASE Request(d) \/ MarkGivenUp(d) \/ MarkResumed(d)
    <3>1. PICK status : rows' = [rows EXCEPT ![d].status = status]
      BY <2>1 DEF Request, MarkGivenUp, MarkResumed
    <3>2. rows'[c].decision = rows[c].decision /\ (c # d => rows'[c] = rows[c])
      BY <1>1, <3>1 DEF ConsentRow
    <3>3. CASE Request(d)
      BY <1>1, <3>2, <3>3 DEF Request, HasItsAnswer, RowGoesOn, None
    <3>4. CASE MarkGivenUp(d)
      <4>1. rows[d].status # "pending" => rows' = rows
        BY <1>1, <3>4 DEF MarkGivenUp, ConsentRow
      <4> QED
        BY <3>2, <4>1 DEF RowGoesOn
    <3>5. CASE MarkResumed(d)
      <4>1. rows[d].decision \in Consents
        BY <1>1, <3>5 DEF MarkResumed, HasItsAnswer, Consents, Decisions, None
      <4>2. rows[d].status = "approved" \/ rows[d].status = "resumed"
        BY <1>1, <4>1 DEF RecordsOnce, StatusOf, Consents, Decisions, None
      <4>3. rows[d].status = "resumed" => rows' = rows
        BY <1>1, <3>5 DEF MarkResumed, ConsentRow
      <4> QED
        BY <3>2, <4>2, <4>3 DEF RowGoesOn
    <3> QED
      BY <2>1, <3>3, <3>4, <3>5
  <2>2. CASE UNCHANGED rows
    BY <2>2 DEF RowGoesOn
  <2> QED
    BY <2>1, <2>2 DEF CallStep, Resolve, Look, Register, Poll, Execute, GiveUp
<1>3. CallStaysOver(c)
  <2>1. CASE toolCalls[d].at \notin {"done", "failed"}
    <3>1. c # d => toolCalls'[c] = toolCalls[c]
      BY <1>1 DEF CallStep, GiveUp, Resolve, Request, Look, Register, Poll, Execute, MarkResumed,
         MarkGivenUp, MoveCall, Answered
    <3> QED
      BY <2>1, <3>1 DEF CallStaysOver
  <2>2. CASE toolCalls[d].at \in {"done", "failed"}
    <3>1. MarkGivenUp(d)
      BY <2>2 DEF CallStep, GiveUp, Resolve, Request, Look, Register, Poll, Execute, MarkResumed
    <3>2. toolCalls'[c].at = toolCalls[c].at
      BY <1>1, <3>1 DEF MarkGivenUp, ConsentCall
    <3> QED
      BY <3>2 DEF CallStaysOver
  <2> QED
    BY <2>1, <2>2
<1> QED
  BY <1>2, <1>3

(* Of what clients do only the guarded update writes a row, and only a     *)
(* call that waits is answered.                                            *)
LEMMA ClientKeepsDecisions ==
  ASSUME ConsentInv, NEW a \in Clients, Write(a) \/ Answer(a), NEW c \in Calls
  PROVE  RowGoesOn(c) /\ CallStaysOver(c)
<1>1. /\ rows \in [Calls -> ConsentRow] /\ toolCalls \in [Calls -> ConsentCall]
      /\ RecordsOnce(rows[c])
  BY DEF ConsentInv, ConsentTyped, CallsInv
<1>2. CASE Write(a)
  <2>1. rows[c].decision # None => rows[c].status # "pending"
    BY <1>1 DEF RecordsOnce, StatusOf
  <2>2. clients[a].call # c \/ rows[c].status # "pending" => rows'[c] = rows[c]
    BY <1>1, <1>2 DEF Write
  <2>3. UNCHANGED toolCalls
    BY <1>2 DEF Write
  <2> QED
    BY <2>1, <2>2, <2>3 DEF RowGoesOn, CallStaysOver
<1>3. CASE Answer(a)
  <2> DEFINE d == clients[a].call
  <2>1. UNCHANGED rows
    BY <1>3 DEF Answer
  <2>2. \/ UNCHANGED toolCalls
        \/ toolCalls[d].at = "waiting"
           /\ toolCalls' = [toolCalls EXCEPT ![d].at = "answered", ![d].answer = rows[d].decision]
    BY <1>3 DEF Answer, Answered
  <2>3. c # d => toolCalls'[c] = toolCalls[c]
    BY <1>1, <2>2
  <2> HIDE DEF d
  <2> QED
    BY <2>1, <2>2, <2>3 DEF RowGoesOn, CallStaysOver
<1> QED
  BY <1>2, <1>3

(* Of the user's answer, a second client's and the policy's the first that *)
(* is written counts for good, a row that was refused, lapsed or used up   *)
(* changes no more, and a call that is over stays over (resolvePendingRow, *)
(* waitForDecision, invokeResolved).                                       *)
THEOREM DecisionsStayHolds == ConsentSpec => DecisionsStay
<1>1. ASSUME ConsentInv, [ConsentNext]_consentVars, NEW c \in Calls
      PROVE  RowGoesOn(c) /\ CallStaysOver(c)
  <2>1. CASE \E d \in Calls : CallStep(d) \/ GiveUp(d)
    BY <1>1, <2>1, CallKeepsDecisions
  <2>2. CASE \E a \in Clients : Write(a) \/ Answer(a)
    BY <1>1, <2>2, ClientKeepsDecisions
  <2>3. CASE UNCHANGED <<rows, toolCalls>>
    BY <2>3 DEF RowGoesOn, CallStaysOver
  <2> QED
    BY <1>1, <2>1, <2>2, <2>3 DEF ConsentNext, consentVars, Permit, List, Reconciled, Reconcile, Decide,
       ChangeSettings, AbortTurn, Close
<1>2. ConsentInv /\ [ConsentNext]_consentVars
        => [\A c \in Calls :
              /\ rows[c].decision # None => rows'[c].decision = rows[c].decision
              /\ rows[c].status \in {"rejected", "expired", "cancelled", "resumed"} => rows'[c] = rows[c]
              /\ toolCalls[c].at \in {"done", "failed"} => toolCalls'[c].at = toolCalls[c].at]_consentVars
  BY <1>1 DEF RowGoesOn, CallStaysOver
<1> QED
  BY <1>2, ConsentInvariance, PTL DEF ConsentSpec, DecisionsStay

(* Only a request that begins is counted, and never beyond the bound.      *)
LEMMA RequestsCounted ==
  ASSUME [ConsentNext]_consentVars
  PROVE  served' = served \/ (served < MaxRequests /\ served' = served + 1)
<1>1. CASE UNCHANGED consentVars
  BY <1>1 DEF consentVars
<1>2. ASSUME NEW c \in Calls, CallStep(c) \/ GiveUp(c)
      PROVE  served' = served
  BY <1>2 DEF CallStep, Resolve, Request, Look, Register, Poll, GiveUp, MarkGivenUp, Execute, MarkResumed
<1>3. ASSUME NEW a \in Clients,
             \/ Permit(a) \/ List(a) \/ Reconciled(a) \/ Write(a) \/ Answer(a)
             \/ \E c \in Calls : Reconcile(a, c)
      PROVE  served' = served
  BY <1>3 DEF Permit, List, Reconcile, Reconciled, Write, Answer
<1>4. ASSUME NEW a \in Clients,
             \/ \E c \in Calls, d \in Decisions : Decide(a, c, d)
             \/ \E m \in Modes, w \in BOOLEAN : ChangeSettings(a, m, w)
      PROVE  served < MaxRequests /\ served' = served + 1
  BY <1>4 DEF Decide, ChangeSettings, Serve
<1>5. CASE AbortTurn \/ Close
  BY <1>5 DEF AbortTurn, Close
<1> QED
  BY <1>1, <1>2, <1>3, <1>4, <1>5 DEF ConsentNext

(* The scope, rows, calls and clients keep their types, for any bound on   *)
(* the requests.                                                           *)
THEOREM ConsentTypeCorrect ==
  ASSUME MaxRequests \in Nat
  PROVE  ConsentSpec => []ConsentTypeOK
<1> DEFINE Bounded == served \in 0..MaxRequests
<1>1. ConsentInit => Bounded
  BY DEF ConsentInit
<1>2. Bounded /\ [ConsentNext]_consentVars => Bounded'
  BY RequestsCounted
<1>3. ConsentInv /\ Bounded => ConsentTypeOK
  BY DEF ConsentInv, ConsentTyped, ConsentTypeOK, ConsentRow, ConsentCall, ConsentClient
<1> QED
  BY <1>1, <1>2, <1>3, ConsentInvariance, PTL DEF ConsentSpec

-----------------------------------------------------------------------------
(* The files of a conversation.                                            *)
Task   == [status : {"none", "pending", "processing"}, source : Conversations, lapsed : BOOLEAN]
Worker == [at : {"idle", "purge", "list", "claim", "remove", "delete", "retry"},
           of : Conversations \cup Files, files : SUBSET Files]
Upload == {"none", "checked", "ended", "lost"} \cup Processing

(* The types, without the bound of a run on its faults.                    *)
StorageTyped ==
  /\ conversation \in [Conversations -> Existing \cup {"none", "gone"}]
  /\ objects \subseteq Conversations \X Files
  /\ stored \subseteq Files
  /\ upload \in [Files -> Upload]
  /\ tasks \in [Files -> Task]
  /\ worker \in [Workers -> Worker]

(* An upload that has written its file writes it no second time.           *)
Begun == {f \in Files : upload[f] \notin {"none", "checked"}}

(***************************************************************************)
(* Rows, tasks and the lists of the workers only name files that have been *)
(* written; a worker that is about to delete a task has removed its file.  *)
(***************************************************************************)
RowsBegun  == \A r \in objects : r[2] \in Begun
TasksBegun == \A f \in Files : tasks[f].status # "none" => f \in Begun

Knows(k, begun, kept) ==
  /\ k.at \in {"purge", "list"} => k.of \in Conversations
  /\ k.at = "purge" => \A f \in k.files : f \in begun
  /\ k.at \in {"remove", "delete", "retry"} => k.of \in Files \cap begun
  /\ k.at = "delete" => k.of \notin kept

WorkersKnow == \A w \in Workers : Knows(worker[w], Begun, stored)

StorageInv == StorageTyped /\ RowsBegun /\ TasksBegun /\ WorkersKnow /\ NothingLeaks

LEMMA StorageInitially == ASSUME Original \in Conversations, StorageInit PROVE StorageInv
<1>1. NoTask \in Task /\ Resting \in Worker
  BY DEF NoTask, Task, Resting, Worker
<1>2. StorageTyped
  BY <1>1 DEF StorageInit, StorageTyped, Existing, Upload
<1>3. RowsBegun /\ TasksBegun /\ NothingLeaks
  BY DEF StorageInit, RowsBegun, TasksBegun, NothingLeaks, NoTask
<1>4. WorkersKnow
  BY DEF StorageInit, WorkersKnow, Knows, Resting
<1> QED
  BY <1>2, <1>3, <1>4 DEF StorageInv

(***************************************************************************)
(* What the workers know stays true while uploads go on and files are      *)
(* removed: a file that is written is one whose upload has just begun.     *)
(***************************************************************************)
GoesOn == /\ \A f \in Files : f \in Begun => f \in Begun'
          /\ \A f \in stored' \ stored : f \notin Begun

LEMMA KnowsStill ==
  ASSUME StorageTyped, GoesOn, NEW k \in Worker, Knows(k, Begun, stored)
  PROVE  Knows(k, Begun', stored')
  BY DEF GoesOn, Knows, Worker

(* The uploads: one that ends leaves a row of its file behind, or none.    *)
LEMMA UploadKeeps ==
  ASSUME Original \in Conversations, StorageInv, NEW f \in Files, CheckPartition(f) \/ UploadStep(f)
  PROVE  StorageInv'
<1>1. UNCHANGED <<conversation, tasks, worker>>
  BY DEF CheckPartition, UploadStep, SaveOriginal, CreateObject, MakeAvailable, GiveUpUpload, RemoveUpload
<1>2. PICK from \in Upload, to \in Upload :
        /\ upload[f] = from /\ upload' = [upload EXCEPT ![f] = to]
        /\ to # "none" /\ (to = "checked" => from = "none")
  BY DEF CheckPartition, UploadStep, SaveOriginal, CreateObject, MakeAvailable, GiveUpUpload, RemoveUpload,
         Step, Upload, Processing
<1>3. \A g \in Files : upload'[g] = IF g = f THEN to ELSE upload[g]
  BY <1>2 DEF StorageInv, StorageTyped
<1>4. /\ upload' \in [Files -> Upload]
      /\ \A g \in Files : g \in Begun => g \in Begun'
  BY <1>2, <1>3 DEF StorageInv, StorageTyped, Begun
<1>5. stored' \subseteq Files /\ \A g \in stored' \ stored : g \notin Begun
  <2>1. \/ stored' \subseteq stored
        \/ upload[f] = "checked" /\ stored' = stored \cup {f}
    BY DEF CheckPartition, UploadStep, SaveOriginal, CreateObject, MakeAvailable, GiveUpUpload, RemoveUpload, Step
  <2> QED
    BY <2>1 DEF StorageInv, StorageTyped, Begun
<1>6. /\ objects' \subseteq Conversations \X Files
      /\ RowsBegun'
  <2>1. \/ objects' \subseteq objects
        \/ to = "created" /\ objects' = objects \cup {<<Original, f>>}
    BY <1>2, <1>3 DEF CheckPartition, UploadStep, SaveOriginal, CreateObject, MakeAvailable, GiveUpUpload, RemoveUpload,
       Step, StorageInv, StorageTyped
  <2>2. CASE objects' \subseteq objects
    BY <1>4, <2>2 DEF StorageInv, StorageTyped, RowsBegun
  <2>3. CASE to = "created" /\ objects' = objects \cup {<<Original, f>>}
    <3>1. f \in Begun'
      BY <1>3, <2>3 DEF Begun
    <3> QED
      BY <1>4, <2>3, <3>1 DEF StorageInv, StorageTyped, RowsBegun
  <2> QED
    BY <2>1, <2>2, <2>3
<1>7. StorageTyped'
  BY <1>1, <1>4, <1>5, <1>6 DEF StorageInv, StorageTyped
<1>8. TasksBegun' /\ WorkersKnow'
  <2>1. GoesOn
    BY <1>4, <1>5 DEF GoesOn
  <2>2. ASSUME NEW w \in Workers PROVE Knows(worker[w], Begun', stored')
    BY <1>1, <2>1, <2>2, KnowsStill DEF StorageInv, StorageTyped, WorkersKnow
  <2> QED
    BY <1>1, <1>4, <2>2 DEF StorageInv, TasksBegun, WorkersKnow
<1>9. NothingLeaks'
  <2> SUFFICES ASSUME NEW g \in stored'
               PROVE  \/ \E c \in Conversations : <<c, g>> \in objects'
                      \/ tasks[g].status # "none"
                      \/ upload'[g] \in Processing \cup {"lost"}
    BY <1>1, <1>5 DEF NothingLeaks, FilesOf
  <2>1. CASE g # f
    <3>1. g \in stored /\ upload'[g] = upload[g] /\ g \in Files
      BY <1>3, <1>5, <2>1 DEF CheckPartition, UploadStep, SaveOriginal, CreateObject, MakeAvailable,
         GiveUpUpload, RemoveUpload
    <3>2. \A c \in Conversations : <<c, g>> \in objects => <<c, g>> \in objects'
      BY <2>1 DEF CheckPartition, UploadStep, SaveOriginal, CreateObject, MakeAvailable, GiveUpUpload, RemoveUpload
    <3> QED
      BY <3>1, <3>2 DEF StorageInv, NothingLeaks, FilesOf
  <2>2. CASE g = f
    <3>1. CASE CheckPartition(f)
      BY <1>3, <2>2, <3>1 DEF CheckPartition, Step, StorageInv, NothingLeaks, FilesOf, Processing
    <3>2. CASE MakeAvailable(f)
      BY <2>2, <3>2 DEF MakeAvailable
    <3>3. CASE SaveOriginal(f) \/ CreateObject(f) \/ GiveUpUpload(f)
      BY <1>3, <2>2, <3>3 DEF SaveOriginal, CreateObject, GiveUpUpload, Step, Processing, StorageInv, StorageTyped
    <3>4. CASE RemoveUpload(f)
      BY <1>3, <2>2, <3>4 DEF RemoveUpload, Step, StorageInv, StorageTyped
    <3> QED
      BY <3>1, <3>2, <3>3, <3>4 DEF UploadStep
  <2> QED
    BY <2>1, <2>2
<1> QED
  BY <1>6, <1>7, <1>8, <1>9 DEF StorageInv

(* The conversations: branches only share files that have been written.    *)
LEMMA ConversationKeeps ==
  ASSUME StorageInv, NEW c \in Conversations,
         RecycleConversation(c) \/ Expire(c) \/ RestoreConversation(c) \/ \E d \in Conversations : Branch(c, d)
  PROVE  StorageInv'
<1>1. UNCHANGED <<stored, upload, tasks, worker>>
  BY DEF RecycleConversation, Expire, RestoreConversation, Becomes, Branch
<1>2. conversation' \in [Conversations -> Existing \cup {"none", "gone"}]
  BY DEF RecycleConversation, Expire, RestoreConversation, Becomes, Branch, StorageInv, StorageTyped, Existing
<1>3. /\ objects \subseteq objects' /\ objects' \subseteq Conversations \X Files
      /\ \A r \in objects' \ objects : r[2] \in Begun
  <2>1. CASE RecycleConversation(c) \/ Expire(c) \/ RestoreConversation(c)
    BY <2>1 DEF RecycleConversation, Expire, RestoreConversation, Becomes, StorageInv, StorageTyped
  <2>2. ASSUME NEW d \in Conversations, Branch(c, d)
        PROVE  /\ objects \subseteq objects' /\ objects' \subseteq Conversations \X Files
               /\ \A r \in objects' \ objects : r[2] \in Begun
    <3>1. PICK copied \in SUBSET {f \in FilesOf(c) : upload[f] = "ended"} :
            objects' = objects \cup {<<d, f>> : f \in copied}
      BY <2>2 DEF Branch
    <3>2. \A f \in copied : f \in Files /\ upload[f] = "ended"
      BY <3>1 DEF FilesOf
    <3> QED
      BY <3>1, <3>2 DEF StorageInv, StorageTyped, Begun
  <2> QED
    BY <2>1, <2>2
<1>4. StorageTyped' /\ TasksBegun' /\ WorkersKnow'
  BY <1>1, <1>2, <1>3 DEF StorageInv, StorageTyped, TasksBegun, WorkersKnow, Knows, Begun
<1>5. RowsBegun'
  BY <1>1, <1>3 DEF StorageInv, RowsBegun, Begun
<1>6. NothingLeaks'
  BY <1>1, <1>3 DEF StorageInv, NothingLeaks, FilesOf
<1> QED
  BY <1>4, <1>5, <1>6 DEF StorageInv

(***************************************************************************)
(* A step that only changes tasks and workers, and perhaps removes the     *)
(* file of a worker: what it has to show.                                  *)
(***************************************************************************)
LEMMA WorkerMoves ==
  ASSUME StorageInv, NEW w \in Workers, NEW k \in Worker,
         worker' = [worker EXCEPT ![w] = k], UNCHANGED <<conversation, objects, upload>>,
         stored' \subseteq stored, Knows(k, Begun', stored'),
         tasks' \in [Files -> Task],
         \A f \in Files : tasks'[f].status # "none" => f \in Begun,
         \A f \in stored' : tasks[f].status # "none" => tasks'[f].status # "none"
  PROVE  StorageInv'
<1>1. StorageTyped'
  BY DEF StorageInv, StorageTyped
<1>2. GoesOn
  BY DEF GoesOn, Begun
<1>3. WorkersKnow'
  <2> SUFFICES ASSUME NEW v \in Workers PROVE Knows(worker'[v], Begun', stored')
    BY DEF WorkersKnow
  <2>1. CASE v = w
    BY <2>1 DEF StorageInv, StorageTyped
  <2>2. CASE v # w
    <3>1. worker'[v] = worker[v] /\ worker[v] \in Worker /\ Knows(worker[v], Begun, stored)
      BY <2>2 DEF StorageInv, StorageTyped, WorkersKnow
    <3> QED
      BY <1>2, <3>1, KnowsStill DEF StorageInv
  <2> QED
    BY <2>1, <2>2
<1>4. RowsBegun' /\ TasksBegun'
  BY DEF StorageInv, RowsBegun, TasksBegun, Begun
<1>5. NothingLeaks'
  BY DEF StorageInv, NothingLeaks, FilesOf
<1> QED
  BY <1>1, <1>3, <1>4, <1>5 DEF StorageInv

(* The purge: every row it takes away leaves a task for its file behind.   *)
LEMMA PurgeKeeps ==
  ASSUME StorageInv, NEW w \in Workers, Purge(w)
  PROVE  StorageInv'
<1> DEFINE c == worker[w].of
           k == [worker[w] EXCEPT !.at = "list", !.files = {}]
<1>1. /\ worker[w] \in Worker /\ Knows(worker[w], Begun, stored) /\ worker[w].at = "purge"
      /\ c \in Conversations /\ worker[w].files \subseteq Files
      /\ \A f \in worker[w].files : f \in Begun
  BY DEF StorageInv, StorageTyped, WorkersKnow, Purge, Knows, Worker
<1> HIDE DEF c
<1>2. /\ FilesOf(c) \subseteq worker[w].files
      /\ conversation' = [conversation EXCEPT ![c] = "gone"]
      /\ objects' = {r \in objects : r[1] # c}
      /\ tasks' = Enqueued(worker[w].files, c)
      /\ worker' = [worker EXCEPT ![w] = k]
      /\ UNCHANGED <<stored, upload>>
  BY DEF Purge, c, StorageInv, StorageTyped
<1>3. /\ tasks' \in [Files -> Task]
      /\ \A f \in Files : /\ tasks[f].status # "none" => tasks'[f] = tasks[f]
                          /\ tasks'[f].status # "none" => f \in worker[w].files \/ tasks[f].status # "none"
                          /\ f \in worker[w].files => tasks'[f].status # "none"
  BY <1>1, <1>2 DEF Enqueued, StorageInv, StorageTyped, Task
<1>4. k \in Worker /\ k.at = "list" /\ k.of = c
  BY <1>1 DEF Worker, c
<1> HIDE DEF k
<1>5. StorageTyped'
  BY <1>1, <1>2, <1>3, <1>4 DEF StorageInv, StorageTyped
<1>6. RowsBegun' /\ TasksBegun'
  <2>1. Begun' = Begun /\ objects' \subseteq objects
    BY <1>2 DEF Begun
  <2>2. \A f \in Files : tasks'[f].status # "none" => f \in Begun
    BY <1>1, <1>3 DEF StorageInv, TasksBegun
  <2> QED
    BY <2>1, <2>2 DEF StorageInv, RowsBegun, TasksBegun
<1>7. WorkersKnow'
  <2> SUFFICES ASSUME NEW v \in Workers PROVE Knows(worker'[v], Begun', stored')
    BY DEF WorkersKnow
  <2>1. CASE v = w
    BY <1>1, <1>2, <1>4, <2>1 DEF Knows, StorageInv, StorageTyped
  <2>2. CASE v # w
    BY <1>2, <2>2 DEF StorageInv, StorageTyped, WorkersKnow, Knows, Begun
  <2> QED
    BY <2>1, <2>2
<1>8. NothingLeaks'
  <2> SUFFICES ASSUME NEW f \in stored
               PROVE  \/ \E d \in Conversations : <<d, f>> \in objects'
                      \/ tasks'[f].status # "none"
                      \/ upload[f] \in Processing \cup {"lost"}
    BY <1>2 DEF NothingLeaks, FilesOf, StorageInv, StorageTyped
  <2>1. f \in Files
    BY DEF StorageInv, StorageTyped
  <2>2. CASE f \in FilesOf(c)
    <3>1. f \in worker[w].files
      BY <1>2, <2>2
    <3> QED
      BY <1>3, <2>1, <3>1
  <2>3. CASE f \notin FilesOf(c)
    BY <1>2, <1>3, <2>1, <2>3 DEF StorageInv, NothingLeaks, FilesOf
  <2> QED
    BY <2>2, <2>3
<1> QED
  BY <1>5, <1>6, <1>7, <1>8 DEF StorageInv

(* The workers on the deletion tasks: the file goes before its task does.  *)
LEMMA WorkerKeeps ==
  ASSUME Original \in Conversations, StorageInv, NEW w \in Workers,
         \/ RollBack(w) \/ ListSource(w) \/ Claim(w) \/ RemoveFile(w) \/ DeleteTask(w)
         \/ Reschedule(w) \/ Fails(w) \/ RetryPending(w) \/ \E c \in Conversations : BeginPurge(w, c)
  PROVE  StorageInv'
<1>1. worker[w] \in Worker /\ Knows(worker[w], Begun, stored)
  BY DEF StorageInv, StorageTyped, WorkersKnow
<1>2. Resting \in Worker /\ Knows(Resting, Begun', stored')
  BY DEF Resting, Worker, Knows
<1>3. ASSUME NEW k \in Worker, Knows(k, Begun', stored'), worker' = [worker EXCEPT ![w] = k],
             UNCHANGED <<conversation, objects, stored, upload, tasks>>
      PROVE  StorageInv'
  <2>1. tasks' \in [Files -> Task] /\ \A f \in Files : tasks'[f].status # "none" => f \in Begun
    BY <1>3 DEF StorageInv, StorageTyped, TasksBegun
  <2> QED
    BY <1>3, <2>1, WorkerMoves
<1>4. ASSUME NEW c \in Conversations, BeginPurge(w, c)
      PROVE  StorageInv'
  <2> DEFINE k == [at |-> "purge", of |-> c, files |-> FilesOf(c)]
  <2>1. k \in Worker
    BY DEF Worker, FilesOf
  <2>2. Knows(k, Begun', stored')
    BY <1>4 DEF BeginPurge, Knows, FilesOf, StorageInv, RowsBegun, Begun
  <2> QED
    BY <1>3, <1>4, <2>1, <2>2 DEF BeginPurge
<1>5. CASE RollBack(w)
  BY <1>2, <1>3, <1>5 DEF RollBack, Rest
<1>6. CASE ListSource(w) \/ RetryPending(w)
  <2>1. PICK files \in SUBSET Files : worker' = [worker EXCEPT ![w] = [at |-> "claim", of |-> Original, files |-> files]]
    BY <1>6 DEF ListSource, RetryPending
  <2> DEFINE k == [at |-> "claim", of |-> Original, files |-> files]
  <2>2. k \in Worker /\ Knows(k, Begun', stored')
    BY DEF Worker, Knows
  <2> QED
    BY <1>3, <1>6, <2>1, <2>2 DEF ListSource, RetryPending
<1>7. CASE Claim(w)
  <2>1. CASE worker[w].files = {} /\ Rest(w) /\ UNCHANGED tasks
    BY <1>2, <1>3, <1>7, <2>1 DEF Claim, Rest
  <2>2. ASSUME NEW f \in worker[w].files, ~Claimable(f),
               worker' = [worker EXCEPT ![w].files = @ \ {f}], UNCHANGED tasks
        PROVE  StorageInv'
    <3> DEFINE k == [worker[w] EXCEPT !.files = @ \ {f}]
    <3>1. k \in Worker
      BY <1>1 DEF Worker
    <3>2. Knows(k, Begun', stored')
      BY <1>1, <1>7 DEF Claim, Worker, Knows
    <3> QED
      BY <1>3, <1>7, <2>2, <3>1, <3>2 DEF Claim
  <2>3. ASSUME NEW f \in worker[w].files, Claimable(f),
               tasks' = [tasks EXCEPT ![f].status = "processing", ![f].lapsed = FALSE],
               worker' = [worker EXCEPT ![w].at = "remove", ![w].of = f]
        PROVE  StorageInv'
    <3> DEFINE k == [worker[w] EXCEPT !.at = "remove", !.of = f]
    <3>1. f \in Files /\ tasks \in [Files -> Task] /\ f \in Begun
      BY <1>1, <2>3 DEF Worker, Claimable, StorageInv, StorageTyped, TasksBegun
    <3>2. UNCHANGED <<conversation, objects, stored, upload>>
      BY <1>7 DEF Claim
    <3>3. k \in Worker /\ Knows(k, Begun', stored')
      BY <1>1, <3>1, <3>2 DEF Worker, Knows, Begun
    <3>4. \A g \in Files : tasks'[g] = IF g = f THEN [tasks[f] EXCEPT !.status = "processing", !.lapsed = FALSE] ELSE tasks[g]
      BY <2>3, <3>1
    <3>5. tasks' \in [Files -> Task]
      BY <2>3, <3>1 DEF Task
    <3>6. \A g \in Files : /\ tasks'[g].status # "none" => g \in Begun
                           /\ tasks[g].status # "none" => tasks'[g].status # "none"
      BY <3>1, <3>4 DEF StorageInv, TasksBegun, Task
    <3> QED
      BY <2>3, <3>2, <3>3, <3>5, <3>6, WorkerMoves DEF StorageInv, StorageTyped
  <2> QED
    BY <1>7, <2>1, <2>2, <2>3 DEF Claim
<1>8. CASE RemoveFile(w)
  <2> DEFINE k == [worker[w] EXCEPT !.at = "delete"]
  <2>1. k \in Worker
    BY <1>1 DEF Worker
  <2>2. Knows(k, Begun', stored')
    BY <1>1, <1>8 DEF RemoveFile, Knows, Worker, Begun
  <2>3. /\ worker' = [worker EXCEPT ![w] = k] /\ stored' \subseteq stored
        /\ UNCHANGED <<conversation, objects, upload, tasks>>
    BY <1>8 DEF RemoveFile, Goto
  <2>4. tasks' \in [Files -> Task] /\ \A f \in Files : tasks'[f].status # "none" => f \in Begun
    BY <2>3 DEF StorageInv, StorageTyped, TasksBegun
  <2> QED
    BY <2>1, <2>2, <2>3, <2>4, WorkerMoves
<1>9. CASE Fails(w)
  <2> DEFINE k == [worker[w] EXCEPT !.at = "retry"]
  <2>1. k \in Worker
    BY <1>1 DEF Worker
  <2>2. Knows(k, Begun', stored')
    BY <1>1, <1>9 DEF Fails, Knows, Worker, Begun
  <2> QED
    BY <1>3, <1>9, <2>1, <2>2 DEF Fails, Goto
<1>10. ASSUME worker' = Settled(w), UNCHANGED <<conversation, objects, stored, upload>>
       PROVE  \E k \in Worker : worker' = [worker EXCEPT ![w] = k] /\ Knows(k, Begun', stored')
  <2> DEFINE k == [worker[w] EXCEPT !.at = "claim", !.of = Original, !.files = @ \ {worker[w].of}]
  <2>1. k \in Worker /\ Knows(k, Begun', stored')
    BY <1>1 DEF Worker, Knows
  <2>2. worker' = [worker EXCEPT ![w] = k]
    BY <1>10 DEF Settled
  <2> QED
    BY <2>1, <2>2
<1>11. CASE DeleteTask(w)
  <2> DEFINE f == worker[w].of
  <2>1. f \in Files /\ f \notin stored
    BY <1>1, <1>11 DEF DeleteTask, Knows
  <2>2. UNCHANGED <<conversation, objects, stored, upload>> /\ tasks' = [tasks EXCEPT ![f] = NoTask]
    BY <1>11 DEF DeleteTask
  <2>3. PICK k \in Worker : worker' = [worker EXCEPT ![w] = k] /\ Knows(k, Begun', stored')
    BY <1>2, <1>10, <1>11, <2>2 DEF DeleteTask
  <2> HIDE DEF f
  <2>4. tasks' \in [Files -> Task]
    BY <2>2 DEF NoTask, Task, StorageInv, StorageTyped
  <2>5. \A g \in Files : tasks'[g] = IF g = f THEN NoTask ELSE tasks[g]
    BY <2>2 DEF StorageInv, StorageTyped
  <2>6. \A g \in Files : /\ tasks'[g].status # "none" => g \in Begun
                         /\ g \in stored /\ tasks[g].status # "none" => tasks'[g].status # "none"
    BY <2>1, <2>5 DEF NoTask, StorageInv, TasksBegun
  <2> QED
    BY <2>2, <2>3, <2>4, <2>6, WorkerMoves DEF StorageInv, StorageTyped
<1>12. CASE Reschedule(w)
  <2> DEFINE f == worker[w].of
  <2>1. f \in Files /\ f \in Begun /\ UNCHANGED <<conversation, objects, stored, upload>>
    BY <1>1, <1>12 DEF Reschedule, Knows
  <2>2. CASE tasks[f] = NoTask
    BY <1>2, <1>3, <1>12, <2>2 DEF Reschedule, Rest
  <2>3. CASE tasks[f] # NoTask
    <3>1. /\ worker' = Settled(w)
          /\ tasks' = [tasks EXCEPT ![f].status = "pending", ![f].lapsed = FALSE]
      BY <1>12, <2>3 DEF Reschedule
    <3>2. PICK k \in Worker : worker' = [worker EXCEPT ![w] = k] /\ Knows(k, Begun', stored')
      BY <1>10, <2>1, <3>1
    <3> HIDE DEF f
    <3>3. tasks' \in [Files -> Task]
      BY <2>1, <3>1 DEF Task, StorageInv, StorageTyped
    <3>4. \A g \in Files : tasks'[g] = IF g = f THEN [tasks[f] EXCEPT !.status = "pending", !.lapsed = FALSE] ELSE tasks[g]
      BY <3>1 DEF StorageInv, StorageTyped
    <3>5. \A g \in Files : /\ tasks'[g].status # "none" => g \in Begun
                           /\ tasks[g].status # "none" => tasks'[g].status # "none"
      BY <2>1, <3>4 DEF StorageInv, StorageTyped, Task, TasksBegun
    <3> QED
      BY <2>1, <3>2, <3>3, <3>5, WorkerMoves DEF StorageInv, StorageTyped
  <2> QED
    BY <2>2, <2>3
<1> QED
  BY <1>4, <1>5, <1>6, <1>7, <1>8, <1>9, <1>11, <1>12

(* Time passes, or the process restarts: uploads that are cut off are lost. *)
LEMMA LapseKeeps == ASSUME StorageInv, NEW f \in Files, Lapse(f) PROVE StorageInv'
<1>1. /\ UNCHANGED <<conversation, objects, stored, upload, worker>>
      /\ \A g \in Files : tasks'[g].status = tasks[g].status
      /\ tasks' \in [Files -> Task]
  BY DEF Lapse, StorageInv, StorageTyped, Task
<1> QED
  BY <1>1 DEF StorageInv, StorageTyped, RowsBegun, TasksBegun, WorkersKnow, Knows, Begun, NothingLeaks, FilesOf

LEMMA RestartKeeps == ASSUME Original \in Conversations, StorageInv, Restart PROVE StorageInv'
<1>1. /\ UNCHANGED <<conversation, objects, stored, tasks>>
      /\ \A g \in Files : upload'[g] = IF upload[g] \in {"none", "ended"} THEN upload[g] ELSE "lost"
      /\ upload' = [f \in Files |-> IF upload[f] \in {"none", "ended"} THEN upload[f] ELSE "lost"]
      /\ worker' = [v \in Workers |-> Resting]
  BY DEF Restart
<1>2. Resting \in Worker /\ Resting.at = "idle"
  BY DEF Resting, Worker
<1>3. \A g \in Files : g \in Begun => g \in Begun'
  BY <1>1 DEF Begun
<1>4. StorageTyped'
  BY <1>1, <1>2 DEF StorageInv, StorageTyped, Upload
<1>5. RowsBegun' /\ TasksBegun'
  BY <1>1, <1>3 DEF StorageInv, StorageTyped, RowsBegun, TasksBegun
<1>6. WorkersKnow'
  BY <1>1, <1>2 DEF WorkersKnow, Knows
<1>7. NothingLeaks'
  BY <1>1 DEF StorageInv, StorageTyped, NothingLeaks, FilesOf, Processing
<1> QED
  BY <1>4, <1>5, <1>6, <1>7 DEF StorageInv

LEMMA StorageInvariance == ASSUME Original \in Conversations PROVE StorageSpec => []StorageInv
<1>1. StorageInv /\ [StorageNext]_storageVars => StorageInv'
  <2> SUFFICES ASSUME StorageInv, [StorageNext]_storageVars PROVE StorageInv'
    OBVIOUS
  <2>1. CASE UNCHANGED storageVars
    BY <2>1 DEF storageVars, StorageInv, StorageTyped, RowsBegun, TasksBegun, WorkersKnow, Knows, Begun, NothingLeaks, FilesOf
  <2> QED
    BY <2>1, UploadKeeps, ConversationKeeps, PurgeKeeps, WorkerKeeps, LapseKeeps, RestartKeeps
    DEF StorageNext, WorkerStep
<1> QED
  BY <1>1, StorageInitially, PTL DEF StorageSpec

(* No file is stored that nobody would ever remove, over branches, purges  *)
(* under uploads, restores, claims that lapse and restarts: a row names    *)
(* it, a task will delete it, an upload will clear it away, or an upload   *)
(* was cut off (ConversationPurgeService, StorageDeletionService,          *)
(* RuntimeObjectService.upload).                                           *)
THEOREM NothingLeaksHolds ==
  ASSUME Original \in Conversations
  PROVE  StorageSpec => []NothingLeaks
<1>1. StorageInv => NothingLeaks
  BY DEF StorageInv
<1> QED
  BY <1>1, StorageInvariance, PTL

(* Conversations, objects, uploads, tasks and workers keep their types,    *)
(* for any bound on the faults.                                            *)
THEOREM StorageTypeCorrect ==
  ASSUME Original \in Conversations, MaxFaults \in Nat
  PROVE  StorageSpec => []StorageTypeOK
<1> DEFINE Bounded == faults \in 0..MaxFaults
<1>1. StorageInit => Bounded
  BY DEF StorageInit
<1>2. ASSUME Bounded, [StorageNext]_storageVars PROVE Bounded'
  <2>1. faults' = faults \/ Fault
    BY <1>2 DEF StorageNext, storageVars, CheckPartition, UploadStep, SaveOriginal, CreateObject, MakeAvailable, GiveUpUpload,
       RemoveUpload, Lapse, RecycleConversation, Expire, RestoreConversation, Becomes, Branch, WorkerStep, Purge, RollBack,
       ListSource, Claim, RemoveFile, DeleteTask, Reschedule, Fails, RetryPending, BeginPurge, Restart
  <2> QED
    BY <1>2, <2>1 DEF Fault
<1>3. StorageInv /\ Bounded => StorageTypeOK
  BY DEF StorageInv, StorageTyped, StorageTypeOK, Task, Worker, Upload
<1> QED
  BY <1>1, <1>2, <1>3, StorageInvariance, PTL DEF StorageSpec

-----------------------------------------------------------------------------
(* The behaviours TLC looks at are behaviours of each of the four parts,   *)
(* so what is proved of each holds of them.                                *)
LEMMA PartsAreAll == PartsSpec => QueueSpec /\ Spec /\ ConsentSpec /\ StorageSpec
<1>1. PartsInit => QueueInit /\ Init /\ ConsentInit /\ StorageInit
  BY DEF PartsInit
<1>2. [PartsNext]_<<part, queueVars, vars, consentVars, storageVars>>
        => [QueueNext]_queueVars /\ [Next]_vars /\ [ConsentNext]_consentVars /\ [StorageNext]_storageVars
  BY DEF PartsNext
<1> QED
  BY <1>1, <1>2, PTL DEF PartsSpec, QueueSpec, Spec, ConsentSpec, StorageSpec

(* The queue, the lock, the consent to calls and the files of a            *)
(* conversation keep their types, for any number of messages, calls,       *)
(* requests and faults.                                                    *)
THEOREM PartsTypeCorrect ==
  ASSUME MaxRequests \in Nat, Original \in Conversations, MaxFaults \in Nat
  PROVE  PartsSpec => []TypesOK
<1>1. QueueTypeOK /\ TypeOK /\ ConsentTypeOK /\ StorageTypeOK => TypesOK
  BY DEF TypesOK
<1> QED
  BY PartsAreAll, QueueTypeCorrect, LockTypeCorrect, ConsentTypeCorrect, StorageTypeCorrect, <1>1, PTL
=============================================================================
