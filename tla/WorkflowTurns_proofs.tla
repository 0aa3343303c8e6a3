------------------------ MODULE WorkflowTurns_proofs ------------------------
(***************************************************************************)
(* Proofs about WorkflowTurns: for any number of dispatches, phases, user  *)
(* turns and faults, a request whose turn has run to its end is not worked *)
(* off again.                                                              *)
(*                                                                         *)
(* The lease has no part in the argument.  Whatever changes the status, the *)
(* phase or the mode of a run gives it a new version, and a turn that runs *)
(* to its end has either done that or finds it done: so a request is out   *)
(* of date before its turn is over, and the check under the lease refuses  *)
(* it, with whosever lease it is made.                                     *)
(***************************************************************************)
EXTENDS WorkflowTurns, SequenceTheorems, TLAPS

Run      == [status : {"RUNNING", "WAITING"} \cup Terminal, phase : 0..LastPhase,
             mode : {"AUTO", "MANUAL"}, version : Nat]
Lease    == [owner : Slots \cup {None}, expired : BOOLEAN]
Journal  == [phase : 1..LastPhase, version : Nat, reason : {"auto_continue", "user_resume"},
             outbox : {"pending", "delivered"}, overtaken : BOOLEAN, closed : BOOLEAN]
Dispatch == [at : Places, request : Nat, aborted : BOOLEAN, of : Turn]
Person   == [at : {"idle", "queued", "bound", "acting", "post", "decided"}, of : Turn,
             active : BOOLEAN]

(* The types, without the bounds of a run.                                 *)
Typed ==
  /\ run \in Run /\ (Open => run.phase # 0)
  /\ lease \in Lease
  /\ requests \in Seq(Journal)
  /\ dispatches \in [Slots -> Dispatch]
  /\ user \in Person
  /\ acting \in Slots \cup {None, "user"}

(***************************************************************************)
(* A request is made for the version the run has, while the run works; the *)
(* run that does not work any more has another version.                    *)
(***************************************************************************)
Moved(i) == run.version > requests[i].version

MovesOn(i) == run'.version > requests'[i].version    \* is so after the step

MadeForTheRun ==
  \A i \in DOMAIN requests : Moved(i) \/ (run.version = requests[i].version /\ run.status = "RUNNING")

(* What a dispatch works on is a request.                                  *)
Carried == \A s \in Slots : dispatches[s].at # "idle" => dispatches[s].request \in DOMAIN requests

(***************************************************************************)
(* The turn of a dispatch that may go on without changing the run has      *)
(* found it changed: it could not be bound to the run, has called a tool,  *)
(* or is left with nothing to decide.                                      *)
(***************************************************************************)
LeavesItMoved(s) ==
  LET d == dispatches[s]
      t == d.of
  IN
  /\ d.at \in {"bound", "acting", "post"} /\ ~t.linked => Moved(d.request)
  /\ d.at \in {"acting", "post"} /\ t.protocol # "none" => Moved(d.request)
  /\ d.at = "decided" /\ t.decision # "pause" => Moved(d.request)
  /\ d.at = "closed" => Moved(d.request)
  /\ d.at \in {"new", "fresh", "leased", "rechecked", "created", "bound"} => t.protocol = "none"
  /\ d.at = "acting" <=> acting = s

TurnsMoveOn == \A s \in Slots : LeavesItMoved(s)

ClosedIsMoved == \A i \in DOMAIN requests : requests[i].closed => Moved(i)

IInv == Typed /\ MadeForTheRun /\ Carried /\ TurnsMoveOn /\ ClosedIsMoved

(***************************************************************************)
(* What every step does with the run and the journal: a run that changes   *)
(* gets a new version; requests keep theirs, and a new one is made for the *)
(* run as it is.                                                           *)
(***************************************************************************)
Steady ==
  /\ run' \in Run /\ (Open' => run'.phase # 0)
  /\ run' = run \/ run'.version > run.version
  /\ requests' \in Seq(Journal) /\ DOMAIN requests \subseteq DOMAIN requests'
  /\ \A i \in DOMAIN requests :
       /\ requests'[i].version = requests[i].version
       /\ requests'[i].closed => requests[i].closed \/ Moved(i)
  /\ \A i \in DOMAIN requests' \ DOMAIN requests :
       requests'[i].version = run'.version /\ run'.status = "RUNNING" /\ ~requests'[i].closed

-----------------------------------------------------------------------------
LEMMA Initially == ASSUME WorkflowAssumption, Init, None \notin Slots PROVE IInv
<1>1. /\ run \in Run /\ run.phase \in 1..LastPhase /\ run.status = "RUNNING" /\ run.version = 1
  BY DEF Init, WorkflowAssumption, Run, Terminal
<1>2. NoTurn \in Turn /\ Idle \in Dispatch /\ Idle.at = "idle"
  BY DEF NoTurn, Turn, Protocol, Decision, Idle, Dispatch, Places
<1>3. /\ NewRequest("auto_continue") \in Journal /\ NewRequest("auto_continue").version = 1
      /\ NewRequest("auto_continue").closed = FALSE
  BY <1>1 DEF NewRequest, Journal, Run
<1>4. requests \in Seq(Journal) /\ DOMAIN requests = {1} /\ requests[1] = NewRequest("auto_continue")
  BY <1>3 DEF Init
<1>5. Typed
  BY <1>1, <1>2, <1>4 DEF Init, Typed, Open, Terminal, Lease, NoUser, Person
<1>6. MadeForTheRun /\ ClosedIsMoved
  BY <1>1, <1>3, <1>4 DEF MadeForTheRun, ClosedIsMoved
<1>7. Carried
  BY <1>2 DEF Init, Carried
<1>8. TurnsMoveOn
  BY <1>2 DEF Init, TurnsMoveOn, LeavesItMoved, None
<1> QED
  BY <1>5, <1>6, <1>7, <1>8 DEF IInv

LEMMA JournalOf ==
  ASSUME requests \in Seq(Journal)
  PROVE  /\ Len(requests) \in Nat /\ DOMAIN requests = 1..Len(requests)
         /\ \A i \in DOMAIN requests : requests[i] \in Journal /\ requests[i].version \in Nat
<1>1. Len(requests) \in Nat /\ DOMAIN requests = 1..Len(requests)
  BY LenProperties
<1>2. \A i \in DOMAIN requests : requests[i] \in Journal
  BY <1>1, ElementOfSeq
<1> QED
  BY <1>1, <1>2 DEF Journal

(* A journal of which each entry is replaced.                              *)
LEMMA JournalReplaced ==
  ASSUME requests \in Seq(Journal), NEW new, new = [i \in DOMAIN requests |-> new[i]],
         \A i \in DOMAIN requests : new[i] \in Journal
  PROVE  new \in Seq(Journal) /\ DOMAIN new = DOMAIN requests
<1>1. Len(requests) \in Nat /\ DOMAIN requests = 1..Len(requests)
  BY JournalOf
<1>2. new \in [1..Len(requests) -> Journal]
  BY <1>1
<1> QED
  BY <1>1, <1>2, SeqDef

LEMMA SteadyKeeps ==
  ASSUME IInv, Steady
  PROVE  /\ \A i \in DOMAIN requests : Moved(i) => MovesOn(i)
         /\ MadeForTheRun' /\ ClosedIsMoved'
<1>0. run \in Run /\ run' \in Run /\ run.version \in Nat /\ run'.version \in Nat
  BY DEF IInv, Typed, Steady, Run
<1>1. \A i \in DOMAIN requests : requests[i].version \in Nat
  BY JournalOf DEF IInv, Typed
<1>2. \A i \in DOMAIN requests : Moved(i) => MovesOn(i)
  BY <1>0, <1>1 DEF Steady, Moved, MovesOn
<1>3. MadeForTheRun'
  <2> SUFFICES ASSUME NEW i \in DOMAIN requests'
               PROVE  Moved(i)' \/ (run'.version = requests'[i].version /\ run'.status = "RUNNING")
    BY DEF MadeForTheRun
  <2>1. CASE i \notin DOMAIN requests
    BY <2>1 DEF Steady
  <2>2. CASE i \in DOMAIN requests
    BY <1>0, <1>1, <1>2, <2>2 DEF IInv, MadeForTheRun, Steady, Moved, MovesOn
  <2> QED
    BY <2>1, <2>2
<1>4. ClosedIsMoved'
  BY <1>2 DEF ClosedIsMoved, IInv, Steady, Moved, MovesOn
<1> QED
  BY <1>2, <1>3, <1>4

(* A step that leaves the run and the journal alone is steady.             *)
LEMMA Still == ASSUME IInv, UNCHANGED <<run, requests>> PROVE Steady
BY DEF IInv, Typed, Steady, Open

(* A dispatch moves, and the others stay where they are.                   *)
LEMMA SlotMoves ==
  ASSUME IInv, Steady, NEW s \in Slots, NEW d \in Dispatch,
         dispatches' = [dispatches EXCEPT ![s] = d],
         d.at # "idle" => d.request \in DOMAIN requests',
         LeavesItMoved(s)',
         \A r \in Slots \ {s} : acting' = r <=> acting = r,
         lease' \in Lease, user' \in Person, acting' \in Slots \cup {None, "user"}
  PROVE  IInv'
<1>1. dispatches' \in [Slots -> Dispatch] /\ dispatches'[s] = d
      /\ \A r \in Slots \ {s} : dispatches'[r] = dispatches[r]
  BY DEF IInv, Typed
<1>2. Typed'
  BY <1>1 DEF Typed, Steady
<1>3. Carried'
  BY <1>1 DEF IInv, Carried, Steady
<1>4. TurnsMoveOn'
  <2> SUFFICES ASSUME NEW r \in Slots \ {s} PROVE LeavesItMoved(r)'
    BY DEF TurnsMoveOn
  <2>1. LeavesItMoved(r) /\ dispatches'[r] = dispatches[r] /\ (acting' = r <=> acting = r)
    BY <1>1 DEF IInv, TurnsMoveOn
  <2>2. dispatches[r].at # "idle" => (Moved(dispatches[r].request) => MovesOn(dispatches[r].request))
    BY SteadyKeeps DEF IInv, Carried
  <2> QED
    BY <2>1, <2>2 DEF LeavesItMoved, Moved, MovesOn
<1> QED
  BY <1>2, <1>3, <1>4, SteadyKeeps DEF IInv

(* The dispatches stay where they are.                                     *)
LEMMA SlotsStay ==
  ASSUME IInv, Steady, UNCHANGED dispatches,
         \A r \in Slots : acting' = r <=> acting = r,
         lease' \in Lease, user' \in Person, acting' \in Slots \cup {None, "user"}
  PROVE  IInv'
<1>1. Typed' /\ Carried'
  BY DEF IInv, Typed, Carried, Steady
<1>2. TurnsMoveOn'
  <2> SUFFICES ASSUME NEW r \in Slots PROVE LeavesItMoved(r)'
    BY DEF TurnsMoveOn
  <2>1. LeavesItMoved(r) /\ dispatches'[r] = dispatches[r] /\ (acting' = r <=> acting = r)
    BY DEF IInv, TurnsMoveOn
  <2>2. dispatches[r].at # "idle" => (Moved(dispatches[r].request) => MovesOn(dispatches[r].request))
    BY SteadyKeeps DEF IInv, Carried
  <2> QED
    BY <2>1, <2>2 DEF LeavesItMoved, Moved, MovesOn
<1> QED
  BY <1>1, <1>2, SteadyKeeps DEF IInv

-----------------------------------------------------------------------------
(* What is delivered, bound or closed keeps the version it was made for.   *)
LEMMA BindIsSteady == ASSUME IInv, BindTurn, UNCHANGED run PROVE Steady
<1>0. requests \in Seq(Journal) /\ run \in Run
  BY DEF IInv, Typed
<1>1. requests' = [i \in DOMAIN requests |-> [requests[i] EXCEPT !.overtaken = TRUE]]
  BY DEF BindTurn
<1>2. \A i \in DOMAIN requests : /\ requests'[i] \in Journal
                                /\ requests'[i].version = requests[i].version
                                /\ requests'[i].closed = requests[i].closed
  BY <1>0, <1>1, JournalOf DEF Journal
<1>3. requests' \in Seq(Journal) /\ DOMAIN requests' = DOMAIN requests
  BY <1>0, <1>1, <1>2, JournalReplaced
<1> QED
  BY <1>2, <1>3 DEF IInv, Typed, Steady, Open

LEMMA EntryIsSteady ==
  ASSUME IInv, UNCHANGED run, NEW i \in DOMAIN requests, NEW entry \in Journal,
         entry.version = requests[i].version, entry.closed => requests[i].closed \/ Moved(i),
         requests' = [requests EXCEPT ![i] = entry]
  PROVE  Steady
<1>0. requests \in Seq(Journal) /\ run \in Run
  BY DEF IInv, Typed
<1>1. requests' = [k \in DOMAIN requests |-> requests'[k]]
  BY <1>0, JournalOf
<1>2. /\ requests'[i] = entry
      /\ \A k \in DOMAIN requests \ {i} : requests'[k] = requests[k]
  BY <1>0, JournalOf
<1>3. requests' \in Seq(Journal) /\ DOMAIN requests' = DOMAIN requests
  BY <1>0, <1>1, <1>2, JournalReplaced, JournalOf
<1> QED
  BY <1>2, <1>3 DEF IInv, Typed, Steady, Open

(* A tool gives the run a new version, whatever it does to it.             *)
LEMMA ToolIsSteady ==
  ASSUME IInv, WorkflowAssumption, UNCHANGED requests, NEW t, NEW action \in Actions,
         NEW mode \in {"AUTO", "MANUAL"}, Tool(t, action, mode)
  PROVE  Steady /\ run'.version > run.version
<1>0. run \in Run /\ Open /\ run.phase # 0 /\ run.version \in Nat /\ LastPhase \in Nat \ {0}
  BY DEF IInv, Typed, Tool, Run, WorkflowAssumption
<1> DEFINE Good == /\ run' \in Run /\ run'.version > run.version
                   /\ run'.phase = 0 => run'.status \in Terminal
<1>1. ASSUME NEW status \in {"RUNNING", "WAITING"} \cup Terminal, NEW phase \in 0..LastPhase,
             NEW m \in {"AUTO", "MANUAL"}, phase = 0 => status \in Terminal,
             run' = [run EXCEPT !.status = status, !.phase = phase, !.mode = m, !.version = run.version + 1]
      PROVE  Good
  <2>1. \A v \in Nat : [run EXCEPT !.status = status, !.phase = phase, !.mode = m, !.version = v] \in Run
    BY <1>0 DEF Run
  <2>2. run.version + 1 \in Nat /\ run.version + 1 > run.version
    BY <1>0
  <2>3. run'.version = run.version + 1 /\ run'.phase = phase /\ run'.status = status
    BY <1>0, <1>1 DEF Run
  <2> QED
    BY <1>1, <2>1, <2>2, <2>3
<1>2. Good
  <2>1. run' = ToolResult(t, action, mode)
    BY DEF Tool
  <2>2. CASE action \in {"UPDATE", "RESUME"}
    <3>1. run' = [run EXCEPT !.status = "RUNNING", !.phase = run.phase, !.mode = run.mode,
                             !.version = run.version + 1]
      BY <1>0, <2>1, <2>2 DEF ToolResult, Run
    <3> QED
      BY <1>0, <1>1, <3>1 DEF Run, Terminal
  <2>3. CASE action \in {"BLOCK", "PAUSE"}
    <3>1. run' = [run EXCEPT !.status = "WAITING", !.phase = run.phase, !.mode = run.mode,
                             !.version = run.version + 1]
      BY <1>0, <2>1, <2>3 DEF ToolResult, Run
    <3> QED
      BY <1>0, <1>1, <3>1 DEF Run, Terminal
  <2>4. CASE action = "CANCEL"
    <3>1. run' = [run EXCEPT !.status = "CANCELLED", !.phase = 0, !.mode = run.mode,
                             !.version = run.version + 1]
      BY <1>0, <2>1, <2>4 DEF ToolResult, Run
    <3>2. /\ "CANCELLED" \in {"RUNNING", "WAITING"} \cup Terminal /\ "CANCELLED" \in Terminal
          /\ 0 \in 0..LastPhase /\ run.mode \in {"AUTO", "MANUAL"}
      BY <1>0 DEF Run, Terminal
    <3> QED
      BY <1>1, <3>1, <3>2
  <2>5. CASE action = "SET_CONTINUATION"
    <3>1. run' = [run EXCEPT !.status = run.status, !.phase = run.phase, !.mode = mode,
                             !.version = run.version + 1]
      BY <1>0, <2>1, <2>5 DEF ToolResult, Run
    <3> QED
      BY <1>0, <1>1, <3>1 DEF Run, Terminal
  <2>6. CASE action = "COMPLETE" /\ run.phase = LastPhase
    <3>1. run' = [run EXCEPT !.status = "COMPLETED", !.phase = 0, !.mode = run.mode,
                             !.version = run.version + 1]
      BY <1>0, <2>1, <2>6 DEF ToolResult, Completed, Run
    <3>2. /\ "COMPLETED" \in {"RUNNING", "WAITING"} \cup Terminal /\ "COMPLETED" \in Terminal
          /\ 0 \in 0..LastPhase /\ run.mode \in {"AUTO", "MANUAL"}
      BY <1>0 DEF Run, Terminal
    <3> QED
      BY <1>1, <3>1, <3>2
  <2>7. CASE action = "COMPLETE" /\ run.phase # LastPhase
    <3>1. run' = [run EXCEPT !.status = "RUNNING", !.phase = run.phase + 1, !.mode = run.mode,
                             !.version = run.version + 1]
      BY <1>0, <2>1, <2>7 DEF ToolResult, Completed, Run
    <3>2. run.phase + 1 \in 0..LastPhase /\ run.phase + 1 # 0
      BY <1>0, <2>7 DEF Run
    <3> QED
      BY <1>0, <1>1, <3>1, <3>2 DEF Run, Terminal
  <2> QED
    BY <2>2, <2>3, <2>4, <2>5, <2>6, <2>7 DEF Actions
<1> QED
  BY <1>2 DEF IInv, Typed, Steady, Open

-----------------------------------------------------------------------------
(* The dispatches.  What a step of one needs to know of it.                *)
LEMMA SlotParts ==
  ASSUME IInv, NEW s \in Slots
  PROVE  /\ dispatches[s] \in Dispatch /\ LeavesItMoved(s)
         /\ dispatches[s].at # "idle" => dispatches[s].request \in DOMAIN requests
         /\ Idle \in Dispatch /\ Idle.at = "idle" /\ NoTurn \in Turn
         /\ lease \in Lease /\ user \in Person /\ acting \in Slots \cup {None, "user"}
<1>1. NoTurn \in Turn /\ Idle \in Dispatch /\ Idle.at = "idle"
  BY DEF NoTurn, Turn, Protocol, Decision, Idle, Dispatch, Places
<1> QED
  BY <1>1 DEF IInv, Typed, Carried, TurnsMoveOn

LEMMA EnqueueKeeps ==
  ASSUME IInv, Steady, NEW i \in DOMAIN requests, Enqueue(i),
         UNCHANGED <<lease, user, acting>>
  PROVE  IInv'
<1>1. PICK s \in Slots : /\ dispatches[s].at = "idle"
                         /\ dispatches' = [dispatches EXCEPT ![s] = [Idle EXCEPT !.at = "new", !.request = i]]
  BY DEF Enqueue
<1> DEFINE d == [Idle EXCEPT !.at = "new", !.request = i]
<1>2. i \in Nat
  BY JournalOf DEF IInv, Typed
<1>3. /\ d \in Dispatch /\ d.at = "new" /\ d.request = i /\ d.of.protocol = "none"
  BY <1>2, SlotParts, <1>1 DEF Idle, Dispatch, NoTurn, Places
<1>4. acting # s
  BY <1>1, SlotParts DEF LeavesItMoved
<1>5. dispatches'[s] = d
  BY <1>1 DEF IInv, Typed
<1>6. LeavesItMoved(s)'
  BY <1>3, <1>4, <1>5 DEF LeavesItMoved
<1>7. /\ d.request \in DOMAIN requests'
      /\ lease' \in Lease /\ user' \in Person /\ acting' \in Slots \cup {None, "user"}
      /\ \A r \in Slots \ {s} : acting' = r <=> acting = r
  BY <1>3, SlotParts, <1>1 DEF Steady
<1> HIDE DEF d
<1>8. dispatches' = [dispatches EXCEPT ![s] = d]
  BY <1>1 DEF d
<1> QED
  BY <1>3, <1>6, <1>7, <1>8, SlotMoves

LEMMA DeliverKeeps == ASSUME IInv, NEW i \in DOMAIN requests, Deliver(i) PROVE IInv'
<1>1. /\ requests' = [requests EXCEPT ![i].outbox = "delivered"]
      /\ UNCHANGED <<run, lease, user, acting>>
      /\ Enqueue(i) \/ UNCHANGED dispatches
  BY DEF Deliver
<1> DEFINE entry == [requests[i] EXCEPT !.outbox = "delivered"]
<1>2. /\ entry \in Journal /\ entry.version = requests[i].version
      /\ entry.closed = requests[i].closed
  BY JournalOf DEF IInv, Typed, Journal
<1>3. requests' = [requests EXCEPT ![i] = entry]
  BY <1>1
<1> HIDE DEF entry
<1>4. Steady
  BY <1>1, <1>2, <1>3, EntryIsSteady
<1> QED
  BY <1>1, <1>4, EnqueueKeeps, SlotsStay DEF IInv, Typed

LEMMA RecoverKeeps == ASSUME IInv, NEW i \in DOMAIN requests, Recover(i) PROVE IInv'
<1>1. Enqueue(i) /\ UNCHANGED <<run, requests, lease, user, acting>>
  BY DEF Recover
<1> QED
  BY <1>1, Still, EnqueueKeeps

(* The steps up to the turn, and those that give up, by what they make of  *)
(* the dispatch alone.                                                     *)
LEMMA DispatchGoesOn ==
  ASSUME IInv, NEW s \in Slots,
         CheckLink(s) \/ AcquireLease(s) \/ Recheck(s) \/ CreateInternalTurn(s)
  PROVE  IInv'
<1> DEFINE c == dispatches[s]
<1>0. /\ c \in Dispatch /\ LeavesItMoved(s) /\ Idle \in Dispatch /\ Idle.at = "idle"
      /\ lease \in Lease /\ user \in Person /\ acting \in Slots \cup {None, "user"}
      /\ c.at # "idle" => c.request \in DOMAIN requests
  BY SlotParts
<1>1. /\ UNCHANGED <<run, requests, user, acting>> /\ lease' \in Lease
      /\ c.at \in {"new", "fresh", "leased", "rechecked"}
  <2>1. CASE CheckLink(s) \/ Recheck(s) \/ CreateInternalTurn(s)
    BY <1>0, <2>1 DEF CheckLink, Recheck, CreateInternalTurn
  <2>2. CASE AcquireLease(s)
    <3>1. [owner |-> s, expired |-> FALSE] \in Lease
      BY DEF Lease
    <3>2. lease' = [owner |-> s, expired |-> FALSE] \/ lease' = lease
      BY <2>2, Zenon DEF AcquireLease
    <3> QED
      BY <1>0, <2>2, <3>1, <3>2, Zenon DEF AcquireLease
  <2> QED
    BY <2>1, <2>2
<1>2. \/ dispatches' = [dispatches EXCEPT ![s] = Idle]
      \/ \E place \in {"fresh", "leased", "rechecked", "created", "ended"} :
           dispatches' = [dispatches EXCEPT ![s] = [c EXCEPT !.at = place]]
  BY DEF CheckLink, AcquireLease, Recheck, CreateInternalTurn, Goto, Move
<1>3. acting # s
  BY <1>0, <1>1 DEF LeavesItMoved
<1>4. CASE dispatches' = [dispatches EXCEPT ![s] = Idle]
  <2>1. LeavesItMoved(s)'
    BY <1>0, <1>1, <1>3, <1>4 DEF LeavesItMoved, IInv, Typed
  <2> QED
    BY <1>0, <1>1, <1>4, <2>1, Still, SlotMoves
<1>5. ASSUME NEW place \in {"fresh", "leased", "rechecked", "created", "ended"},
             dispatches' = [dispatches EXCEPT ![s] = [c EXCEPT !.at = place]]
      PROVE  IInv'
  <2> DEFINE d == [c EXCEPT !.at = place]
  <2>1. d \in Dispatch /\ d.at = place /\ d.request = c.request /\ d.of = c.of
    BY <1>0 DEF Dispatch, Places
  <2>2. dispatches'[s] = d
    BY <1>5 DEF IInv, Typed
  <2> HIDE DEF d
  <2>3. LeavesItMoved(s)'
    BY <1>0, <1>1, <1>3, <2>1, <2>2 DEF LeavesItMoved
  <2>4. d.request \in DOMAIN requests
    BY <1>0, <1>1, <2>1
  <2>5. dispatches' = [dispatches EXCEPT ![s] = d]
    BY <1>5 DEF d
  <2> QED
    BY <1>0, <1>1, <2>1, <2>3, <2>4, <2>5, Still, SlotMoves
<1> QED
  BY <1>2, <1>4, <1>5

(* The turn is bound to the run, or finds it over.                         *)
LEMMA PrepareKeeps == ASSUME IInv, NEW s \in Slots, PrepareTurn(s) PROVE IInv'
<1> DEFINE c == dispatches[s]
<1>0. /\ c \in Dispatch /\ LeavesItMoved(s) /\ c.at = "created" /\ c.of \in Turn
      /\ lease' \in Lease /\ user' \in Person /\ acting' \in Slots \cup {None, "user"}
      /\ c.request \in DOMAIN requests /\ run \in Run
      /\ UNCHANGED <<run, lease, user, acting>>
  BY SlotParts DEF PrepareTurn, Dispatch, IInv, Typed
<1>1. acting # s
  BY <1>0 DEF LeavesItMoved
<1>2. ASSUME NEW d \in Dispatch, dispatches' = [dispatches EXCEPT ![s] = d], Steady,
             d.at = "bound", d.request = c.request, d.of.protocol = c.of.protocol,
             d.of.linked \/ Moved(c.request)
      PROVE  IInv'
  <2>1. dispatches'[s] = d
    BY <1>2 DEF IInv, Typed
  <2>2. Moved(c.request) => MovesOn(c.request)
    BY <1>0, <1>2, SteadyKeeps
  <2>3. LeavesItMoved(s)'
    BY <1>0, <1>1, <1>2, <2>1, <2>2 DEF LeavesItMoved, Moved, MovesOn
  <2>4. d.request \in DOMAIN requests'
    BY <1>0, <1>2 DEF Steady
  <2> QED
    BY <1>0, <1>2, <2>3, <2>4, SlotMoves
<1>3. CASE Open
  <2> DEFINE d == [c EXCEPT !.at = "bound", !.of.linked = TRUE, !.of.phase = run.phase]
  <2>1. dispatches' = [dispatches EXCEPT ![s] = d] /\ BindTurn
    BY <1>3 DEF PrepareTurn, Move
  <2>2. /\ d \in Dispatch /\ d.at = "bound" /\ d.request = c.request
        /\ d.of.protocol = c.of.protocol /\ d.of.linked
    <3>1. [c.of EXCEPT !.linked = TRUE, !.phase = run.phase] \in Turn
      <4>1. \A n \in Nat : [c.of EXCEPT !.linked = TRUE, !.phase = n] \in Turn
        BY <1>0 DEF Turn
      <4>2. run.phase \in Nat
        BY <1>0 DEF Run
      <4> QED
        BY <4>1, <4>2
    <3>2. d.of = [c.of EXCEPT !.linked = TRUE, !.phase = run.phase]
      BY <1>0 DEF Dispatch, Turn
    <3> QED
      BY <1>0, <3>1, <3>2 DEF Dispatch, Turn, Places
  <2> HIDE DEF d
  <2> QED
    BY <1>0, <1>2, <2>1, <2>2, BindIsSteady
<1>4. CASE ~Open
  <2> DEFINE d == [c EXCEPT !.at = "bound"]
  <2>1. dispatches' = [dispatches EXCEPT ![s] = d] /\ UNCHANGED requests
    BY <1>4 DEF PrepareTurn, Goto, Move
  <2>2. d \in Dispatch /\ d.at = "bound" /\ d.request = c.request /\ d.of = c.of
    BY <1>0 DEF Dispatch, Places
  <2>3. Moved(c.request)
    BY <1>0, <1>4 DEF IInv, MadeForTheRun, Open, Terminal
  <2> HIDE DEF d
  <2> QED
    BY <1>0, <1>2, <2>1, <2>2, <2>3, Still
<1> QED
  BY <1>3, <1>4

-----------------------------------------------------------------------------
(* A run with another version is past every request there is, and so is    *)
(* one that does not work any more.                                        *)
LEMMA NewVersionMoves ==
  ASSUME IInv, NEW i \in DOMAIN requests
  PROVE  /\ run'.version \in Nat /\ run'.version > run.version /\ requests'[i].version = requests[i].version
              => MovesOn(i)
         /\ run.status # "RUNNING" => Moved(i)
<1>1. requests[i].version \in Nat /\ run.version \in Nat
  BY JournalOf DEF IInv, Typed, Run
<1>2. Moved(i) \/ (run.version = requests[i].version /\ run.status = "RUNNING")
  BY DEF IInv, MadeForTheRun
<1> QED
  BY <1>1, <1>2 DEF Moved, MovesOn

(* What the manager makes of a decision.                                   *)
LEMMA ApplyIsSteady ==
  ASSUME IInv, NEW decision \in Decision, Apply(decision)
  PROVE  /\ Steady
         /\ decision = "pause" => \A i \in DOMAIN requests : MovesOn(i)
<1>0. run \in Run /\ run.version \in Nat /\ requests \in Seq(Journal)
  BY DEF IInv, Typed, Run
<1>1. CASE decision = "none"
  <2>1. UNCHANGED <<run, requests>>
    BY <1>1 DEF Apply
  <2> QED
    BY <1>1, <2>1, Still
<1>2. CASE decision = "pause"
  <2>1. UNCHANGED requests
    BY <1>2 DEF Apply
  <2>2. CASE ~Open
    <3>1. UNCHANGED run
      BY <1>2, <2>2 DEF Apply
    <3>2. \A i \in DOMAIN requests : Moved(i)
      BY <2>2, NewVersionMoves DEF Open, Terminal
    <3> QED
      BY <2>1, <3>1, <3>2, Still, SteadyKeeps
  <2>3. CASE Open
    <3>1. run' = [run EXCEPT !.status = "WAITING", !.version = run.version + 1]
      BY <1>2, <2>3 DEF Apply
    <3>2. \A v \in Nat : [run EXCEPT !.status = "WAITING", !.version = v] \in Run
      BY <1>0 DEF Run
    <3>3. run.version + 1 \in Nat /\ run.version + 1 > run.version
      BY <1>0
    <3>4. run'.version = run.version + 1 /\ run'.phase = run.phase
      BY <1>0, <3>1 DEF Run
    <3>5. run' \in Run /\ run'.phase # 0 /\ run'.version > run.version /\ run'.version \in Nat
      BY <2>3, <3>1, <3>2, <3>3, <3>4 DEF IInv, Typed
    <3>6. Steady
      BY <1>0, <2>1, <3>5 DEF Steady
    <3>7. \A i \in DOMAIN requests : MovesOn(i)
      BY <2>1, <3>5, NewVersionMoves
    <3> QED
      BY <3>6, <3>7
  <2> QED
    BY <2>2, <2>3
<1>3. CASE decision \in {"auto_continue", "user_resume"}
  <2> DEFINE new == NewRequest(decision)
  <2>1. /\ UNCHANGED run
        /\ \/ requests' = requests
           \/ run.status = "RUNNING" /\ requests' = Append(requests, new)
    BY <1>3 DEF Apply
  <2>2. CASE requests' = requests
    BY <1>3, <2>1, <2>2, Still
  <2>3. CASE run.status = "RUNNING" /\ requests' = Append(requests, new)
    <3>1. run.phase \in 1..LastPhase
      BY <1>0, <2>3 DEF IInv, Typed, Open, Terminal, Run
    <3>2. new \in Journal /\ new.version = run.version /\ new.closed = FALSE
      BY <1>0, <1>3, <3>1 DEF NewRequest, Journal
    <3> HIDE DEF new
    <3>3. /\ requests' \in Seq(Journal)
          /\ DOMAIN requests' = 1..(Len(requests) + 1)
          /\ \A i \in 1..Len(requests) : requests'[i] = requests[i]
          /\ requests'[Len(requests) + 1] = new
      BY <1>0, <2>3, <3>2, AppendProperties, LenProperties
    <3>4. DOMAIN requests = 1..Len(requests) /\ Len(requests) \in Nat
      BY <1>0, JournalOf
    <3>5. /\ DOMAIN requests \subseteq DOMAIN requests'
          /\ \A i \in DOMAIN requests : requests'[i] = requests[i]
          /\ \A i \in DOMAIN requests' \ DOMAIN requests : requests'[i] = new
      BY <3>3, <3>4
    <3> QED
      BY <1>0, <1>3, <2>1, <2>3, <3>2, <3>3, <3>5 DEF IInv, Typed, Steady, Open
  <2> QED
    BY <2>1, <2>2, <2>3
<1> QED
  BY <1>1, <1>2, <1>3 DEF Decision

(* A dispatch that goes on with what it knows of the run.                  *)
LEMMA TurnMoves ==
  ASSUME IInv, Steady, NEW s \in Slots, NEW d \in Dispatch,
         dispatches[s].at \notin {"idle", "new", "fresh"},
         dispatches' = [dispatches EXCEPT ![s] = d], d.request = dispatches[s].request,
         d.at = "bound" /\ ~d.of.linked => MovesOn(d.request),
         d.at \in {"acting", "post"} /\ (~d.of.linked \/ d.of.protocol # "none") => MovesOn(d.request),
         d.at = "decided" /\ d.of.decision # "pause" => MovesOn(d.request),
         d.at = "closed" => MovesOn(d.request),
         d.at \in {"new", "fresh", "leased", "rechecked", "created", "bound"} => d.of.protocol = "none",
         d.at = "acting" <=> acting' = s,
         \A r \in Slots \ {s} : acting' = r <=> acting = r,
         UNCHANGED <<lease, user>>, acting' \in Slots \cup {None, "user"}
  PROVE  IInv'
<1>1. d.request \in DOMAIN requests'
  BY SlotParts DEF Steady
<1>2. dispatches'[s] = d
  BY DEF IInv, Typed
<1>3. LeavesItMoved(s)'
  BY <1>2 DEF LeavesItMoved, Moved, MovesOn
<1> QED
  BY <1>1, <1>3, SlotMoves, SlotParts

LEMMA WatchKeeps == ASSUME IInv, NEW s \in Slots, Watch(s) PROVE IInv'
<1> DEFINE c == dispatches[s]
           d == [c EXCEPT !.aborted = TRUE]
<1>1. /\ c \in Dispatch /\ LeavesItMoved(s) /\ acting' = acting /\ acting \in Slots \cup {None, "user"}
      /\ UNCHANGED <<run, requests, lease, user>> /\ c.at \in {"created", "bound", "acting"}
      /\ dispatches' = [dispatches EXCEPT ![s] = d]
  BY SlotParts DEF Watch, Move
<1>2. d \in Dispatch /\ d.at = c.at /\ d.request = c.request /\ d.of = c.of
  BY <1>1 DEF Dispatch
<1>3. MovesOn(c.request) <=> Moved(c.request)
  BY <1>1 DEF Moved, MovesOn
<1> HIDE DEF d
<1> QED
  BY <1>1, <1>2, <1>3, Still, TurnMoves DEF LeavesItMoved

LEMMA EnterKeeps == ASSUME IInv, None \notin Slots, NEW s \in Slots, EnterTurn(s) PROVE IInv'
<1> DEFINE c == dispatches[s]
<1>0. /\ c \in Dispatch /\ LeavesItMoved(s) /\ c.at = "bound" /\ acting = None
      /\ UNCHANGED <<run, requests, lease, user>>
      /\ MovesOn(c.request) <=> Moved(c.request)
  BY SlotParts DEF EnterTurn, Moved, MovesOn
<1>1. ASSUME NEW place \in {"ended", "acting"}, dispatches' = [dispatches EXCEPT ![s] = [c EXCEPT !.at = place]],
             acting' = IF place = "acting" THEN s ELSE None
      PROVE  IInv'
  <2> DEFINE d == [c EXCEPT !.at = place]
  <2>1. d \in Dispatch /\ d.at = place /\ d.request = c.request /\ d.of = c.of
    BY <1>0 DEF Dispatch, Places
  <2>2. dispatches' = [dispatches EXCEPT ![s] = d]
    BY <1>1
  <2> HIDE DEF d
  <2> QED
    BY <1>0, <1>1, <2>1, <2>2, Still, TurnMoves DEF LeavesItMoved
<1> QED
  BY <1>0, <1>1 DEF EnterTurn, Goto, Move

LEMMA EndKeeps == ASSUME IInv, None \notin Slots, NEW s \in Slots, EndTurn(s) PROVE IInv'
<1> DEFINE c == dispatches[s]
<1>0. /\ c \in Dispatch /\ LeavesItMoved(s) /\ c.at = "acting" /\ acting = s /\ acting' = None
      /\ UNCHANGED <<run, requests, lease, user>>
      /\ MovesOn(c.request) <=> Moved(c.request)
  BY SlotParts DEF EndTurn, Moved, MovesOn, LeavesItMoved
<1>1. PICK place \in {"post", "ended"} :
        dispatches' = [dispatches EXCEPT ![s] = [c EXCEPT !.at = place, !.aborted = FALSE, !.of.phase = 0]]
  BY DEF EndTurn, Move
<1> DEFINE d == [c EXCEPT !.at = place, !.aborted = FALSE, !.of.phase = 0]
<1>2. /\ d \in Dispatch /\ d.at = place /\ d.request = c.request
      /\ d.of.linked = c.of.linked /\ d.of.protocol = c.of.protocol
  <2>1. [c.of EXCEPT !.phase = 0] \in Turn
    BY <1>0 DEF Dispatch, Turn
  <2>2. d.of = [c.of EXCEPT !.phase = 0]
    BY <1>0 DEF Dispatch, Turn
  <2> QED
    BY <1>0, <2>1, <2>2 DEF Dispatch, Turn, Places
<1>3. dispatches' = [dispatches EXCEPT ![s] = d]
  BY <1>1
<1> HIDE DEF d
<1> QED
  BY <1>0, <1>2, <1>3, Still, TurnMoves DEF LeavesItMoved

LEMMA FailKeeps == ASSUME IInv, None \notin Slots, NEW s \in Slots, FailTurn(s) PROVE IInv'
<1> DEFINE c == dispatches[s]
           d == [c EXCEPT !.at = "ended"]
<1>0. /\ c \in Dispatch /\ LeavesItMoved(s) /\ c.at \notin {"idle", "new", "fresh"}
      /\ acting' = IF acting = s THEN None ELSE acting
      /\ UNCHANGED <<run, requests, lease, user>> /\ dispatches' = [dispatches EXCEPT ![s] = d]
      /\ acting \in Slots \cup {None, "user"}
  BY SlotParts DEF FailTurn, Goto, Move
<1>1. d \in Dispatch /\ d.at = "ended" /\ d.request = c.request /\ d.of = c.of
  BY <1>0 DEF Dispatch, Places
<1> HIDE DEF d
<1> QED
  BY <1>0, <1>1, Still, TurnMoves DEF LeavesItMoved

LEMMA CallKeeps == ASSUME IInv, WorkflowAssumption, NEW s \in Slots, CallTool(s) PROVE IInv'
<1> DEFINE c == dispatches[s]
<1>0. /\ c \in Dispatch /\ c.of \in Turn /\ LeavesItMoved(s) /\ acting = s /\ c.at = "acting"
      /\ acting \in Slots \cup {None, "user"}
      /\ UNCHANGED <<lease, requests, user, acting>> /\ c.request \in DOMAIN requests
  BY SlotParts DEF CallTool, LeavesItMoved, Dispatch
<1>1. PICK action \in Actions, mode \in {"AUTO", "MANUAL"} :
        /\ Tool(c.of, action, mode)
        /\ dispatches' = [dispatches EXCEPT ![s] = [c EXCEPT !.of = Called(c.of, action)]]
  BY DEF CallTool, Move
<1>2. Steady /\ run'.version > run.version
  BY <1>0, <1>1, ToolIsSteady
<1>3. MovesOn(c.request)
  BY <1>0, <1>2, NewVersionMoves DEF Steady, Run
<1> DEFINE t == Called(c.of, action)
           d == [c EXCEPT !.of = t]
<1>4. t \in Turn
  <2>1. run.phase \in Nat
    BY DEF IInv, Typed, Run
  <2>2. \A p \in Protocol, n \in Nat : [c.of EXCEPT !.protocol = p, !.phase = n] \in Turn
    BY <1>0 DEF Turn
  <2>3. c.of.phase \in Nat /\ "CONTROL" \in Protocol
    BY <1>0 DEF Turn, Protocol
  <2> QED
    BY <2>1, <2>2, <2>3 DEF Called
<1> HIDE DEF t
<1>5. d \in Dispatch /\ d.at = "acting" /\ d.request = c.request
  BY <1>0, <1>4 DEF Dispatch
<1>6. dispatches' = [dispatches EXCEPT ![s] = d]
  BY <1>1 DEF t
<1> HIDE DEF d
<1> QED
  BY <1>0, <1>2, <1>3, <1>5, <1>6, TurnMoves

-----------------------------------------------------------------------------
(* After the turn.  Nothing but a pause is left to decide over a run that  *)
(* still stands where the request found it.                                *)
LEMMA DecisionsKnow ==
  ASSUME NEW t \in Turn, NEW d \in Decisions(t, FALSE), d # "pause",
         t.linked, t.protocol = "none"
  PROVE  run.status # "RUNNING"
BY DEF Decisions, Open, Terminal

LEMMA DecisionsTyped ==
  ASSUME run \in Run, NEW t \in Turn, NEW byUser \in BOOLEAN, NEW d \in Decisions(t, byUser)
  PROVE  d \in Decision
<1>1. t.protocol \in {"none", "UPDATE", "COMPLETE", "BLOCK", "RESUME", "CONTROL"}
  BY DEF Turn, Protocol
<1>2. CASE ~t.linked \/ ~Open
  BY <1>2 DEF Decisions, Decision
<1>3. CASE t.protocol \in {"none", "BLOCK", "RESUME", "CONTROL"}
  BY <1>2, <1>3 DEF Decisions, Decision
<1>4. CASE t.linked /\ Open /\ t.protocol \in {"UPDATE", "COMPLETE"}
  BY <1>4 DEF Decisions, Decision, Run, Open
<1> QED
  BY <1>1, <1>2, <1>3, <1>4

LEMMA AfterKeeps == ASSUME IInv, NEW s \in Slots, AfterTurn(s) PROVE IInv'
<1> DEFINE c == dispatches[s]
<1>0. /\ c \in Dispatch /\ c.of \in Turn /\ LeavesItMoved(s) /\ c.at = "post"
      /\ UNCHANGED <<run, requests, lease, user, acting>> /\ acting # s
      /\ acting \in Slots \cup {None, "user"} /\ c.request \in DOMAIN requests
      /\ MovesOn(c.request) <=> Moved(c.request)
  BY SlotParts DEF AfterTurn, Dispatch, LeavesItMoved, Moved, MovesOn
<1>1. PICK what \in Decisions(c.of, FALSE) :
        dispatches' = [dispatches EXCEPT ![s] = [c EXCEPT !.at = "decided", !.of.decision = what]]
  BY DEF AfterTurn, Move
<1> DEFINE d == [c EXCEPT !.at = "decided", !.of.decision = what]
<1>2. what \in Decision
  BY <1>0, DecisionsTyped DEF IInv, Typed
<1>3. /\ d \in Dispatch /\ d.at = "decided" /\ d.request = c.request /\ d.of.decision = what
  <2>1. [c.of EXCEPT !.decision = what] \in Turn
    BY <1>0, <1>2 DEF Turn
  <2>2. d.of = [c.of EXCEPT !.decision = what]
    BY <1>0 DEF Dispatch, Turn
  <2> QED
    BY <1>0, <2>1, <2>2 DEF Dispatch, Turn, Places
<1>4. what # "pause" => Moved(c.request)
  BY <1>0, DecisionsKnow, NewVersionMoves DEF LeavesItMoved
<1>5. dispatches' = [dispatches EXCEPT ![s] = d]
  BY <1>1
<1> HIDE DEF d
<1> QED
  BY <1>0, <1>3, <1>4, <1>5, Still, TurnMoves

LEMMA CloseKeeps == ASSUME IInv, NEW s \in Slots, CloseTurn(s) PROVE IInv'
<1> DEFINE c == dispatches[s]
           d == [c EXCEPT !.at = "closed", !.of = NoTurn]
<1>0. /\ c \in Dispatch /\ c.of \in Turn /\ LeavesItMoved(s) /\ c.at = "decided"
      /\ UNCHANGED <<lease, user, acting>> /\ acting # s
      /\ acting \in Slots \cup {None, "user"} /\ c.request \in DOMAIN requests
      /\ Apply(c.of.decision) /\ dispatches' = [dispatches EXCEPT ![s] = d] /\ NoTurn \in Turn
  BY SlotParts DEF CloseTurn, Dispatch, LeavesItMoved, Move
<1>1. c.of.decision \in Decision
  BY <1>0 DEF Turn
<1>2. Steady /\ MovesOn(c.request)
  <2>1. Steady /\ (c.of.decision = "pause" => MovesOn(c.request))
    BY <1>0, <1>1, ApplyIsSteady
  <2>2. c.of.decision # "pause" => Moved(c.request)
    BY <1>0 DEF LeavesItMoved
  <2> QED
    BY <1>0, <2>1, <2>2, SteadyKeeps
<1>3. d \in Dispatch /\ d.at = "closed" /\ d.request = c.request
  BY <1>0 DEF Dispatch, Places
<1> HIDE DEF d
<1> QED
  BY <1>0, <1>2, <1>3, TurnMoves

LEMMA ReleaseKeeps == ASSUME IInv, NEW s \in Slots, ReleaseLease(s) PROVE IInv'
<1> DEFINE c == dispatches[s]
           i == c.request
           entry == [requests[i] EXCEPT !.closed = TRUE]
<1>0. /\ c \in Dispatch /\ LeavesItMoved(s) /\ c.at \in {"closed", "ended"}
      /\ UNCHANGED <<run, user, acting>> /\ acting # s /\ i \in DOMAIN requests
      /\ dispatches' = [dispatches EXCEPT ![s] = Idle] /\ Idle \in Dispatch /\ Idle.at = "idle"
      /\ user \in Person /\ acting \in Slots \cup {None, "user"}
      /\ dispatches \in [Slots -> Dispatch]
  BY SlotParts DEF ReleaseLease, LeavesItMoved, Move, IInv, Typed
<1>1. lease' \in Lease
  <2>1. [owner |-> None, expired |-> FALSE] \in Lease
    BY DEF Lease
  <2> QED
    BY <2>1, SlotParts DEF ReleaseLease
<1>2. Steady
  <2>1. CASE requests' = requests
    BY <1>0, <2>1, Still
  <2>2. CASE c.at = "closed" /\ requests' = [requests EXCEPT ![i].closed = TRUE]
    <3>1. Moved(i)
      BY <1>0, <2>2 DEF LeavesItMoved
    <3>2. entry \in Journal /\ entry.version = requests[i].version
      BY <1>0, JournalOf DEF IInv, Typed, Journal
    <3>3. requests' = [requests EXCEPT ![i] = entry]
      BY <2>2
    <3> HIDE DEF entry
    <3> QED
      BY <1>0, <3>1, <3>2, <3>3, EntryIsSteady
  <2> QED
    BY <1>0, <2>1, <2>2 DEF ReleaseLease
<1>3. LeavesItMoved(s)'
  BY <1>0 DEF LeavesItMoved
<1> QED
  BY <1>0, <1>1, <1>2, <1>3, SlotMoves

-----------------------------------------------------------------------------
(* The user's turn, whose steps leave the dispatches alone.                *)
LEMMA UserKeeps ==
  ASSUME IInv, WorkflowAssumption, None \notin Slots, "user" \notin Slots,
         UserSubmits \/ UserStep
  PROVE  IInv'
<1>0. /\ user \in Person /\ user.of \in Turn /\ run \in Run /\ NoTurn \in Turn /\ lease \in Lease
      /\ acting \in Slots \cup {None, "user"}
  BY DEF IInv, Typed, Person, NoTurn, Turn, Protocol, Decision
<1>1. UNCHANGED <<lease, dispatches>>
  BY DEF UserSubmits, UserStep, UserPrepares, UserEnters, UserCallsTool, UserEnds, UserAfterTurn, UserCloses,
     UserReports
<1>2. /\ acting' \in Slots \cup {None, "user"}
      /\ \A r \in Slots : acting' = r <=> acting = r
  BY <1>0 DEF UserSubmits, UserStep, UserPrepares, UserEnters, UserCallsTool, UserEnds, UserAfterTurn,
     UserCloses, UserReports, None
<1>3. Steady /\ user' \in Person
  <2>1. CASE UserSubmits
    BY <1>0, <2>1, Still DEF UserSubmits, Person
  <2>2. CASE UserPrepares
    <3>1. CASE Open
      <4> DEFINE t == [user.of EXCEPT !.linked = TRUE, !.phase = run.phase]
      <4>1. user' = [user EXCEPT !.at = "bound", !.of = t] /\ BindTurn /\ UNCHANGED run
        BY <1>0, <2>2, <3>1 DEF UserPrepares, Person, Turn
      <4>2. t \in Turn
        <5>1. run.phase \in Nat
          BY <1>0 DEF Run
        <5>2. \A n \in Nat : [user.of EXCEPT !.linked = TRUE, !.phase = n] \in Turn
          BY <1>0 DEF Turn
        <5> QED
          BY <5>1, <5>2
      <4> HIDE DEF t
      <4> QED
        BY <1>0, <4>1, <4>2, BindIsSteady DEF Person
    <3>2. CASE ~Open
      <4>1. user' = [user EXCEPT !.at = "bound"] /\ UNCHANGED <<run, requests>>
        BY <2>2, <3>2 DEF UserPrepares
      <4> QED
        BY <1>0, <4>1, Still DEF Person
    <3> QED
      BY <3>1, <3>2
  <2>3. CASE UserEnters
    BY <1>0, <2>3, Still DEF UserEnters, Person
  <2>4. CASE UserCallsTool
    <3>1. PICK action \in Actions, mode \in {"AUTO", "MANUAL"} :
            Tool(user.of, action, mode) /\ user' = [user EXCEPT !.of = Called(user.of, action)]
      BY <2>4 DEF UserCallsTool
    <3>2. Called(user.of, action) \in Turn
      <4>1. run.phase \in Nat
        BY <1>0 DEF Run
      <4>2. \A p \in Protocol, n \in Nat : [user.of EXCEPT !.protocol = p, !.phase = n] \in Turn
        BY <1>0 DEF Turn
      <4>3. user.of.phase \in Nat /\ "CONTROL" \in Protocol
        BY <1>0 DEF Turn, Protocol
      <4> QED
        BY <4>1, <4>2, <4>3 DEF Called
    <3>3. UNCHANGED requests
      BY <2>4 DEF UserCallsTool
    <3>4. Steady
      BY <3>1, <3>3, ToolIsSteady
    <3> QED
      BY <1>0, <3>1, <3>2, <3>4 DEF Person
  <2>5. CASE UserEnds
    <3>1. user' = [user EXCEPT !.at = "post", !.of.phase = 0] /\ UNCHANGED <<run, requests>>
      BY <2>5 DEF UserEnds
    <3>2. [user.of EXCEPT !.phase = 0] \in Turn
      BY <1>0 DEF Turn
    <3>3. user' = [user EXCEPT !.at = "post", !.of = [user.of EXCEPT !.phase = 0]]
      BY <1>0, <3>1 DEF Person, Turn
    <3> QED
      BY <1>0, <3>1, <3>2, <3>3, Still DEF Person
  <2>6. CASE UserAfterTurn
    <3>1. PICK d \in Decisions(user.of, TRUE) :
            user' = [user EXCEPT !.at = "decided", !.of = [user.of EXCEPT !.decision = d]]
      BY <1>0, <2>6 DEF UserAfterTurn, Person, Turn
    <3>2. d \in Decision
      BY <1>0, DecisionsTyped
    <3>3. [user.of EXCEPT !.decision = d] \in Turn
      BY <1>0, <3>2 DEF Turn
    <3>4. UNCHANGED <<run, requests>>
      BY <2>6 DEF UserAfterTurn
    <3> QED
      BY <1>0, <3>1, <3>3, <3>4, Still DEF Person
  <2>7. CASE UserCloses
    <3>1. Apply(user.of.decision) /\ user' = [user EXCEPT !.at = "idle", !.of = NoTurn]
      BY <2>7 DEF UserCloses
    <3>2. user.of.decision \in Decision
      BY <1>0 DEF Turn
    <3> QED
      BY <1>0, <3>1, <3>2, ApplyIsSteady DEF Person
  <2>8. CASE UserReports
    BY <1>0, <2>8, Still DEF UserReports, Person
  <2> QED
    BY <2>1, <2>2, <2>3, <2>4, <2>5, <2>6, <2>7, <2>8 DEF UserStep
<1> QED
  BY <1>0, <1>1, <1>2, <1>3, SlotsStay

(* A process that is lost forgets its dispatches; leases come and go.      *)
LEMMA CrashKeeps == ASSUME IInv, None \notin Slots, Crash PROVE IInv'
<1>1. /\ dispatches' = [s \in Slots |-> Idle] /\ acting' = None
      /\ user' = NoUser /\ UNCHANGED <<run, lease, requests>>
  BY DEF Crash
<1>2. NoTurn \in Turn /\ Idle \in Dispatch /\ Idle.at = "idle"
  BY DEF NoTurn, Turn, Protocol, Decision, Idle, Dispatch, Places
<1>3. Typed'
  BY <1>1, <1>2 DEF IInv, Typed, Open, NoUser, Person
<1>4. Carried' /\ TurnsMoveOn'
  BY <1>1, <1>2 DEF Carried, TurnsMoveOn, LeavesItMoved
<1> QED
  BY <1>1, <1>3, <1>4, Still, SteadyKeeps DEF IInv

LEMMA LeaseKeeps == ASSUME IInv, LeaseExpires \/ LeaseLapses \/ Heartbeat PROVE IInv'
<1>0. lease \in Lease
  BY DEF IInv, Typed
<1>1. UNCHANGED <<run, requests, dispatches, user, acting>> /\ lease' \in Lease
  BY <1>0 DEF LeaseExpires, LeaseLapses, Heartbeat, Lease
<1> QED
  BY <1>1, Still, SlotsStay DEF IInv, Typed

-----------------------------------------------------------------------------
LEMMA Inductive ==
  ASSUME None \notin Slots, "user" \notin Slots, IInv, [Next]_vars
  PROVE  IInv'
<1>1. ASSUME NEW i \in DOMAIN requests, Deliver(i) \/ Recover(i) PROVE IInv'
  BY <1>1, DeliverKeeps, RecoverKeeps
<1>2. ASSUME NEW s \in Slots, DispatchStep(s) PROVE IInv'
  <2>1. CASE CheckLink(s) \/ AcquireLease(s) \/ Recheck(s) \/ CreateInternalTurn(s)
    BY <2>1, DispatchGoesOn
  <2>2. CASE PrepareTurn(s) \/ EnterTurn(s) \/ CallTool(s) \/ EndTurn(s)
    BY <2>2, WorkflowAssumption, PrepareKeeps, EnterKeeps, CallKeeps, EndKeeps
  <2>3. CASE AfterTurn(s) \/ CloseTurn(s) \/ ReleaseLease(s)
    BY <2>3, AfterKeeps, CloseKeeps, ReleaseKeeps
  <2> QED
    BY <1>2, <2>1, <2>2, <2>3 DEF DispatchStep
<1>3. ASSUME NEW s \in Slots, Watch(s) \/ FailTurn(s) PROVE IInv'
  BY <1>3, WatchKeeps, FailKeeps
<1>4. CASE UserSubmits \/ UserStep
  BY <1>4, WorkflowAssumption, UserKeeps
<1>5. CASE Crash \/ LeaseExpires \/ LeaseLapses \/ Heartbeat
  BY <1>5, CrashKeeps, LeaseKeeps
<1>6. CASE UNCHANGED vars
  <2>1. UNCHANGED <<run, requests, dispatches, lease, user, acting>>
    BY <1>6 DEF vars
  <2> QED
    BY <2>1, Still, SlotsStay DEF IInv, Typed
<1> QED
  BY <1>1, <1>2, <1>3, <1>4, <1>5, <1>6 DEF Next

LEMMA Invariance == ASSUME None \notin Slots, "user" \notin Slots PROVE Spec => []IInv
<1>1. Init => IInv
  BY WorkflowAssumption, Initially
<1>2. IInv /\ [Next]_vars => IInv'
  BY Inductive
<1> QED
  BY <1>1, <1>2, PTL DEF Spec

(* Only the check under the lease lets a dispatch through, and only with a *)
(* request of the run as it stands.                                        *)
LEMMA PassesTheCheck ==
  ASSUME IInv, Next, NEW s \in Slots, dispatches[s].at = "leased", dispatches'[s].at = "rechecked"
  PROVE  Current(Request(s))
<1>0. dispatches \in [Slots -> Dispatch] /\ dispatches'[s] # dispatches[s]
  BY DEF IInv, Typed
<1>1. ASSUME NEW i \in DOMAIN requests, Deliver(i) \/ Recover(i) PROVE FALSE
  BY <1>0, <1>1 DEF Deliver, Recover, Enqueue
<1>2. ASSUME NEW r \in Slots, DispatchStep(r) \/ Watch(r) \/ FailTurn(r) PROVE Current(Request(s))
  <2>1. PICK d : dispatches' = [dispatches EXCEPT ![r] = d]
    BY <1>2 DEF DispatchStep, Move, Goto, CheckLink, AcquireLease, Recheck, CreateInternalTurn, PrepareTurn,
       EnterTurn, CallTool, EndTurn, AfterTurn, CloseTurn, ReleaseLease, Watch, FailTurn
  <2>2. r = s
    BY <1>0, <2>1
  <2>3. Recheck(s)
    BY <1>0, <1>2, <2>2 DEF DispatchStep, Move, Goto, CheckLink, AcquireLease, CreateInternalTurn, PrepareTurn,
       EnterTurn, CallTool, EndTurn, AfterTurn, CloseTurn, ReleaseLease, Watch, FailTurn, LeavesItMoved,
       IInv, TurnsMoveOn
  <2> QED
    BY <1>0, <2>3 DEF Recheck, Goto, Move, Dispatch
<1>3. ASSUME UNCHANGED dispatches PROVE FALSE
  BY <1>0, <1>3
<1>4. ASSUME UserSubmits \/ UserStep \/ LeaseExpires \/ LeaseLapses \/ Heartbeat PROVE FALSE
  BY <1>3, <1>4 DEF UserSubmits, UserStep, UserPrepares, UserEnters, UserCallsTool, UserEnds, UserAfterTurn,
     UserCloses, UserReports, LeaseExpires, LeaseLapses, Heartbeat
<1>5. ASSUME Crash PROVE FALSE
  BY <1>5 DEF Crash, Idle
<1> QED
  BY <1>1, <1>2, <1>4, <1>5 DEF Next

(***************************************************************************)
(* A request is worked off once: after the turn it brought about has run   *)
(* to its end, no dispatch that still carries it passes the check under    *)
(* the lease (WorkflowAutoTurnService.dispatchRequest), however often the  *)
(* outbox and the recovery hand it over, whoever holds the lease, and      *)
(* whatever crashes and lapsed leases come between.                        *)
(***************************************************************************)
THEOREM NoSecondTurnHolds ==
  ASSUME None \notin Slots, "user" \notin Slots
  PROVE  Spec => NoSecondTurn
<1> DEFINE Passes(s) == dispatches[s].at = "leased" /\ dispatches'[s].at = "rechecked"
           Once == \A s \in Slots : Passes(s) => ~Request(s).closed
<1>1. ASSUME IInv, [Next]_vars PROVE [Once]_vars
  <2> SUFFICES ASSUME NEW s \in Slots, Passes(s), Next PROVE ~Request(s).closed
    BY <1>1
  <2>1. Current(Request(s))
    BY PassesTheCheck, <1>1
  <2>2. dispatches[s].request \in DOMAIN requests
    BY <1>1 DEF IInv, Carried
  <2>3. ~Moved(dispatches[s].request)
    BY <1>1, <2>1, <2>2, JournalOf DEF Current, Request, Moved, IInv, Typed
  <2> QED
    BY <1>1, <2>2, <2>3 DEF IInv, ClosedIsMoved, Request
<1>2. Spec => []IInv
  BY Invariance
<1> QED
  BY <1>1, <1>2, PTL DEF Spec, NoSecondTurn

(* The types of the variables, with the bounds of the counters.            *)
THEOREM TypeCorrect ==
  ASSUME None \notin Slots, "user" \notin Slots
  PROVE  Spec => []TypeOK
<1> DEFINE Bounds == used \in [faults : 0..MaxFaults, submits : 0..MaxUserTurns]
<1>1. Init => Bounds
  BY WorkflowAssumption DEF Init, WorkflowAssumption
<1>2. Bounds /\ [Next]_vars => Bounds'
  <2> SUFFICES ASSUME Bounds, [Next]_vars PROVE Bounds'
    OBVIOUS
  <2>0. MaxFaults \in Nat /\ MaxUserTurns \in Nat
    BY WorkflowAssumption DEF WorkflowAssumption
  <2>1. \/ used' = used
        \/ used.faults < MaxFaults /\ used' = [used EXCEPT !.faults = @ + 1]
        \/ used.submits < MaxUserTurns /\ used' = [used EXCEPT !.submits = @ + 1]
    BY DEF Next, vars, Deliver, Recover, DispatchStep, CheckLink, AcquireLease, Recheck, CreateInternalTurn,
       PrepareTurn, EnterTurn, CallTool, EndTurn, AfterTurn, CloseTurn, ReleaseLease, Watch, FailTurn,
       UserSubmits, UserStep, UserPrepares, UserEnters, UserCallsTool, UserEnds, UserAfterTurn, UserCloses,
       UserReports, Crash, LeaseExpires, LeaseLapses, Heartbeat
  <2>2. ASSUME used.faults < MaxFaults, used' = [used EXCEPT !.faults = @ + 1] PROVE Bounds'
    <3>1. used.faults + 1 \in 0..MaxFaults
      BY <2>0, <2>2
    <3>2. \A n \in 0..MaxFaults : [used EXCEPT !.faults = n] \in [faults : 0..MaxFaults, submits : 0..MaxUserTurns]
      OBVIOUS
    <3> QED
      BY <2>2, <3>1, <3>2
  <2>3. ASSUME used.submits < MaxUserTurns, used' = [used EXCEPT !.submits = @ + 1] PROVE Bounds'
    <3>1. used.submits + 1 \in 0..MaxUserTurns
      BY <2>0, <2>3
    <3>2. \A n \in 0..MaxUserTurns : [used EXCEPT !.submits = n] \in [faults : 0..MaxFaults, submits : 0..MaxUserTurns]
      OBVIOUS
    <3> QED
      BY <2>3, <3>1, <3>2
  <2> QED
    BY <2>1, <2>2, <2>3
<1>3. IInv /\ Bounds => TypeOK
  BY DEF IInv, Typed, TypeOK, Run, Lease, Journal, Dispatch, Person
<1>4. Spec => []IInv
  BY Invariance
<1> QED
  BY <1>1, <1>2, <1>3, <1>4, PTL DEF Spec
=============================================================================
