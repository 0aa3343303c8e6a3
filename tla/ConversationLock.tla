--------------------------- MODULE ConversationLock ---------------------------
(***************************************************************************)
(* The lock of conversation-lock.service.ts, which runs the turns of one   *)
(* conversation one after the other: a chain of promises, each call waits  *)
(* for the promise of the one before it and resolves its own in a finally  *)
(* block.  The map of chains drops an entry that nobody uses.              *)
(*                                                                         *)
(* The calls are numbered as they arrive and stand for their promises; 0   *)
(* is the promise a chain starts with, which is resolved.  A call's signal *)
(* may be aborted at any moment and is looked at after the wait.           *)
(***************************************************************************)
EXTENDS Naturals, Sequences

CONSTANT MaxCalls       \* bound of a run

ASSUME CallsAssumption == MaxCalls \in Nat

VARIABLES
  calls,        \* the calls of runExclusive, in order of arrival
  queues,       \* the QueueState objects ever made
  entry         \* the one in the map, 0 if there is none

vars == <<calls, queues, entry>>

Call       == [at : {"waiting", "acting", "left"}, previous : Nat, queue : Nat, aborted : BOOLEAN]
QueueState == [tail : Nat, pending : Nat]

TypeOK == calls \in Seq(Call) /\ queues \in Seq(QueueState) /\ entry \in Nat

Init == calls = <<>> /\ queues = <<>> /\ entry = 0

-----------------------------------------------------------------------------
NewQueue == [tail |-> 0, pending |-> 0]
Current  == IF entry = 0 THEN Len(queues) + 1 ELSE entry
State    == IF entry = 0 THEN NewQueue ELSE queues[entry]

Joined(state) ==
  /\ calls' = Append(calls, [at |-> "waiting", previous |-> State.tail,
                             queue |-> Current, aborted |-> FALSE])
  /\ queues' = IF entry = 0 THEN Append(queues, state) ELSE [queues EXCEPT ![entry] = state]
  /\ entry' = Current

(* runExclusive up to its first await                                      *)
RunExclusive ==
  /\ Len(calls) < MaxCalls
  /\ Joined([tail |-> Len(calls) + 1, pending |-> State.pending + 1])

Abort(i) ==
  /\ calls[i].at # "left"
  /\ calls' = [calls EXCEPT ![i].aborted = TRUE]
  /\ UNCHANGED <<queues, entry>>

Resolved(promise) == promise \in DOMAIN calls => calls[promise].at = "left"

(* Mutant: the entry is dropped while others wait. *)
ReleaseAndDrop(i) ==
  /\ calls' = [calls EXCEPT ![i].at = "left"]
  /\ queues' = [queues EXCEPT ![calls[i].queue].pending = @ - 1]
  /\ entry' = 0

(* The finally block: resolve the promise, count down, drop the entry.     *)
Release(i) ==
  /\ calls' = [calls EXCEPT ![i].at = "left"]
  /\ queues' = [queues EXCEPT ![calls[i].queue].pending = @ - 1]
  /\ entry' = IF queues[calls[i].queue].pending = 1 THEN 0 ELSE entry

(* Mutant: an aborted call throws before the block that releases. *)
EnterOrVanish(i) ==
  /\ calls[i].at = "waiting" /\ Resolved(calls[i].previous) /\ ~calls[i].aborted
  /\ calls' = [calls EXCEPT ![i].at = "acting"]
  /\ UNCHANGED <<queues, entry>>

(* Mutant: an aborted call does not wait. *)
EnterImpatiently(i) ==
  /\ calls[i].at = "waiting"
  /\ Resolved(calls[i].previous) \/ calls[i].aborted
  /\ IF calls[i].aborted
     THEN Release(i)
     ELSE calls' = [calls EXCEPT ![i].at = "acting"] /\ UNCHANGED <<queues, entry>>

(* The wait is over: an aborted call hands over, another one acts.         *)
Enter(i) ==
  /\ calls[i].at = "waiting" /\ Resolved(calls[i].previous)
  /\ IF calls[i].aborted
     THEN Release(i)
     ELSE calls' = [calls EXCEPT ![i].at = "acting"] /\ UNCHANGED <<queues, entry>>

(* The action returns or throws.                                           *)
Finish(i) == calls[i].at = "acting" /\ Release(i)

Next ==
  \/ RunExclusive
  \/ \E i \in DOMAIN calls : Abort(i) \/ Enter(i) \/ Finish(i)

Spec == Init /\ [][Next]_vars

(* A resolved promise runs its continuation, and the turn of the call ends. *)
FairSpec ==
  Spec /\ \A i \in 1..MaxCalls : WF_vars(i \in DOMAIN calls /\ (Enter(i) \/ Finish(i)))

-----------------------------------------------------------------------------
(* One turn of a conversation at a time, in order of arrival: nobody acts, *)
(* nor gives up waiting, before everybody who came earlier has left,       *)
(* whoever is aborted and however often the map's entry is made anew.      *)
OneAtATimeInOrder ==
  \A i, j \in DOMAIN calls : i < j /\ calls[j].at # "waiting" => calls[i].at = "left"

(* The map holds an entry exactly while somebody waits or acts: it neither *)
(* leaks nor lets a newcomer start a second chain beside the first.        *)
EntryWhileNeeded == entry # 0 <=> \E i \in DOMAIN calls : calls[i].at # "left"

(* The chain of promises is a line: each call enters, gives up or leaves   *)
(* only as the first of those still there, and does so once.               *)
Line == INSTANCE TurnLine WITH line <- [i \in DOMAIN calls |-> calls[i].at]

ServedAsInLine == Line!LineSpec

(* Every call gets its turn, or is told that it was aborted.               *)
EveryCallReturns ==
  \A i \in 1..MaxCalls :
    (i \in DOMAIN calls) ~> (i \in DOMAIN calls /\ calls[i].at = "left")
=============================================================================
