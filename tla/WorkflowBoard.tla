--------------------------- MODULE WorkflowBoard ---------------------------
(***************************************************************************)
(* The phases of a workflow run and the run's status, as the operations of *)
(* workflow-manager.service.ts leave them.  Every operation is one         *)
(* transaction under the conversation's advisory lock, and a check that    *)
(* throws rolls all of it back: it is a guard here.                        *)
(*                                                                         *)
(* The agent orders phases by a position it may patch at any time, so the  *)
(* "next" phase is any executable one.  Titles, summaries, events and the  *)
(* version are left out; the version is in WorkflowTurns.                  *)
(***************************************************************************)
EXTENDS FiniteSets, Naturals

CONSTANTS
  PhaseIds,       \* the phases that can ever be on the board
  None,           \* null: no parent, no current phase
  MaxChanges,     \* bound of a run: changes made by one workflow.update
  MaxDependencies \* bound of a run: dependencies of one phase

ASSUME PhasesAssumption ==
  IsFiniteSet(PhaseIds) /\ None \notin PhaseIds
  /\ MaxChanges \in Nat /\ MaxDependencies \in Nat

VARIABLES
  phases,       \* the rows of workflowPhase
  status,       \* the run's status, "none" before workflow.start
  current       \* the run's currentPhaseId

vars == <<phases, status, current>>

PhaseStatus == {"ABSENT", "PENDING", "ACTIVE", "BLOCKED", "COMPLETED",
                "FAILED", "SKIPPED", "CANCELLED"}
Phase       == [status : PhaseStatus, parent : PhaseIds \cup {None}, dependencies : SUBSET PhaseIds]
RunStatus   == {"RUNNING", "WAITING", "BLOCKED", "COMPLETED", "FAILED", "CANCELLED"}
Open        == {"RUNNING", "WAITING", "BLOCKED"}

TypeOK ==
  /\ phases \in [PhaseIds -> Phase]
  /\ status \in RunStatus \cup {"none"}
  /\ current \in PhaseIds \cup {None}

Absent == [status |-> "ABSENT", parent |-> None, dependencies |-> {}]

Init == phases = [p \in PhaseIds |-> Absent] /\ status = "none" /\ current = None

-----------------------------------------------------------------------------
(* The phase policy.  A board is a value of the variable phases.           *)
Terminal  == {"COMPLETED", "FAILED", "SKIPPED", "CANCELLED"}
Done      == {"COMPLETED", "SKIPPED", "CANCELLED"}
Satisfied == {"COMPLETED", "SKIPPED"}

Present(board)        == {p \in PhaseIds : board[p].status # "ABSENT"}
With(board, st)       == {p \in PhaseIds : board[p].status = st}
Children(p, board)    == {c \in Present(board) : board[c].parent = p}
IsContainer(p, board) == Children(p, board) # {}
AllDone(board) == Present(board) # {} /\ \A p \in Present(board) : board[p].status \in Done

DependenciesSatisfied(p, board) ==
  \A d \in board[p].dependencies : board[d].status \in Satisfied

Executable(board) ==
  {p \in With(board, "PENDING") : ~IsContainer(p, board) /\ DependenciesSatisfied(p, board)}

Acyclic(edges) ==       \* no set of phases in which everybody has an edge to another
  {S \in (SUBSET PhaseIds) \ {{}} : \A p \in S : edges[p] \cap S # {}} = {}

ValidGraph(board) ==
  /\ Present(board) # {}
  /\ \A p \in Present(board) :
       board[p].dependencies \cup ({board[p].parent} \ {None}) \subseteq Present(board) \ {p}
  /\ Acyclic([p \in PhaseIds |-> {board[p].parent} \ {None}])
  /\ Acyclic([p \in PhaseIds |-> board[p].dependencies])

Set(board, S, st) == [p \in PhaseIds |-> IF p \in S THEN [board[p] EXCEPT !.status = st] ELSE board[p]]

(* The parents whose children are all done are completed, level by level.  *)
CompleteReadyParents(board, start) ==
  LET Ready(p, b) == /\ b[p].status \notin Terminal
                     /\ \A c \in Children(p, b) : b[c].status \in Done
      climb[n \in 0..Cardinality(PhaseIds)] ==
        IF n = 0 THEN [board |-> board, cursors |-> start]
        ELSE LET b     == climb[n - 1].board
                 ready == {p \in climb[n - 1].cursors \ {None} : Ready(p, b)}
             IN  [board |-> Set(b, ready, "COMPLETED"), cursors |-> {b[p].parent : p \in ready}]
  IN  climb[Cardinality(PhaseIds)].board

(* nextExecutable: the first executable phase, None if there is none.      *)
NextPhases(board) == IF Executable(board) = {} THEN {None} ELSE Executable(board)

(* Mutant: the phase that was active is left active. *)
ActivatedBeside(board, p) == IF p = None THEN board ELSE Set(board, {p}, "ACTIVE")

(* The only active phase of the board, when there is a phase to activate.  *)
Activated(board, p) ==
  IF p = None THEN board ELSE Set(Set(board, With(board, "ACTIVE"), "PENDING"), {p}, "ACTIVE")

-----------------------------------------------------------------------------
Drafts == {d \in SUBSET PhaseIds : Cardinality(d) <= MaxDependencies}

(* workflow.start without an open run of the conversation                  *)
Start ==
  /\ status = "none"
  /\ \E parent \in [PhaseIds -> PhaseIds \cup {None}], dependencies \in [PhaseIds -> Drafts],
        S \in SUBSET PhaseIds :
       LET drafted == [p \in PhaseIds |-> IF p \notin S THEN Absent
                         ELSE [status |-> "PENDING", parent |-> parent[p],
                               dependencies |-> dependencies[p]]]
       IN  /\ \A p \in PhaseIds \ S : parent[p] = None /\ dependencies[p] = {}
           /\ ValidGraph(drafted)
           /\ \E first \in Executable(drafted) :
                /\ phases' = Set(drafted, {first}, "ACTIVE")
                /\ current' = first
  /\ status' = "RUNNING"

(* What a board without a current phase makes of the run, in update.       *)
StatusAfterUpdate(board, p) ==
  CASE AllDone(board)                      -> "COMPLETED"
    [] ~AllDone(board) /\ p # None         -> "RUNNING"
    [] ~AllDone(board) /\ p = None         -> IF With(board, "BLOCKED") # {} THEN "BLOCKED" ELSE "WAITING"

Settle(board, p) ==
  /\ phases' = board
  /\ status' = StatusAfterUpdate(board, p)
  /\ current' = IF AllDone(board) THEN None ELSE p

(* The graph after additions, patches and removals: one phase is added or  *)
(* patched, the phases of gone are removed.                                *)
Edited(p, parent, dependencies, gone) ==
  [q \in PhaseIds |->
     CASE q \in gone -> Absent
       [] q = p /\ q \notin gone ->
            [status |-> IF phases[q].status = "ABSENT" THEN "PENDING" ELSE phases[q].status,
             parent |-> parent, dependencies |-> dependencies]
       [] q # p /\ q \notin gone -> phases[q]]

(* workflow.update.  want is the input's currentPhaseId, the run's own when *)
(* the input has none.                                                     *)
Update(edited, skipped, cancelled, completed, want) ==
  LET shelved == Set(Set(edited, skipped, "SKIPPED"), cancelled, "CANCELLED")
      fresh   == {p \in completed : shelved[p].status # "COMPLETED"}
      board   == CompleteReadyParents(Set(shelved, fresh, "COMPLETED"),
                                      {shelved[p].parent : p \in fresh})
      target  == IF want = None \/ board[want].status \in Terminal \cup {"ABSENT"} THEN None ELSE want
  IN  /\ skipped \cup cancelled \subseteq Present(phases) \cap Present(edited)
      /\ completed \subseteq Present(phases) \cap Present(edited)
      /\ \A p \in completed : ~IsContainer(p, shelved)
      /\ \A p \in fresh :
           /\ shelved[p].status \notin Terminal
           /\ {d \in shelved[p].dependencies : shelved[d].status \notin Satisfied} \subseteq completed
      /\ target # None => ~IsContainer(target, board) /\ DependenciesSatisfied(target, board)
      /\ \E p \in IF target # None THEN {target} ELSE NextPhases(board) : Settle(Activated(board, p), p)

(* The inputs of one update: the phases edited and the phases named count  *)
(* as changes.                                                             *)
UpdateSomething ==
  /\ status \in Open
  /\ \E edited \in {Edited(p, parent, dependencies, gone) :
                      p \in PhaseIds, parent \in PhaseIds \cup {None}, dependencies \in Drafts,
                      gone \in SUBSET With(phases, "PENDING")} :
       LET left  == MaxChanges - Cardinality({p \in PhaseIds : edited[p] # phases[p]})
           Named == {S \in SUBSET Present(phases) : Cardinality(S) <= left}
       IN  /\ left >= 0 /\ ValidGraph(edited)
           /\ \E skipped, cancelled, completed \in Named :
                /\ Cardinality(skipped) + Cardinality(cancelled) + Cardinality(completed) <= left
                /\ \E want \in PhaseIds \cup {None} :
                     Update(edited, skipped, cancelled, completed, want)

(* workflow.complete by a turn bound to the run's current phase            *)
Complete ==
  /\ status \in Open /\ current # None
  /\ phases[current].status \notin Terminal
  /\ LET board == CompleteReadyParents(Set(phases, {current}, "COMPLETED"), {phases[current].parent})
     IN  \E p \in NextPhases(board) :
           LET after == IF p = None THEN board ELSE Set(board, {p}, "ACTIVE")
           IN  /\ phases' = after
               /\ current' = IF AllDone(after) THEN None ELSE p
               /\ status' = CASE AllDone(after) -> "COMPLETED"
                              [] ~AllDone(after) /\ p = None /\ With(after, "PENDING") # {} -> "WAITING"
                              [] ~AllDone(after) /\ (p # None \/ With(after, "PENDING") = {}) -> "RUNNING"

(* Mutant: the phase gets the status of the run. *)
BlockVerbatim ==
  /\ status \in Open /\ current # None
  /\ \E st \in {"WAITING", "BLOCKED", "FAILED"} :
       status' = st /\ phases' = Set(phases, {current}, st)
  /\ UNCHANGED current

(* workflow.block of the current phase                                     *)
Block ==
  /\ status \in Open /\ current # None
  /\ \E st \in {"WAITING", "BLOCKED", "FAILED"} :
       /\ status' = st
       /\ phases' = Set(phases, {current}, IF st = "FAILED" THEN "FAILED" ELSE "BLOCKED")
  /\ UNCHANGED current

(* workflow.control CANCEL; the transition table refuses settled runs.     *)
Cancel ==
  /\ status \in Open
  /\ phases' = Set(phases, {p \in Present(phases) : phases[p].status \notin Terminal}, "CANCELLED")
  /\ status' = "CANCELLED" /\ current' = None

(* workflow.control PAUSE, also after a turn, and markPausedByAgent        *)
Pause == status \in Open /\ status' = "WAITING" /\ UNCHANGED <<phases, current>>

(* Mutant: a blocked current phase is resumed as it is. *)
ResumeBlocked ==
  /\ status \in Open /\ current # None
  /\ status' = "RUNNING" /\ UNCHANGED <<phases, current>>

(* workflow.control RESUME                                                 *)
Resume ==
  /\ status \in Open
  /\ IF current # None /\ phases[current].status \notin Terminal
     THEN /\ phases' = IF phases[current].status = "BLOCKED"
                       THEN Set(phases, {current}, "ACTIVE") ELSE phases
          /\ status' = "RUNNING" /\ UNCHANGED current
     ELSE \E p \in NextPhases(phases) :
            LET board == IF p = None THEN phases ELSE Set(phases, {p}, "ACTIVE")
                found == IF p = None THEN current ELSE p
            IN  /\ phases' = board
                /\ current' = IF AllDone(board) THEN None ELSE found
                /\ status' = StatusAfterUpdate(board, found)

Next ==
  \/ Start
  \/ UpdateSomething
  \/ Complete
  \/ Block
  \/ Cancel
  \/ Pause
  \/ Resume

Spec == Init /\ [][Next]_vars

-----------------------------------------------------------------------------
(* The agent works at one phase: at most one is active, it is a leaf of    *)
(* the tree, and everything it depends on is done, however the graph was   *)
(* patched and whatever was cancelled, resumed or completed before.        *)
OneActivePhase ==
  /\ Cardinality(With(phases, "ACTIVE")) <= 1
  /\ \A p \in With(phases, "ACTIVE") :
       current # None => current = p /\ ~IsContainer(p, phases) /\ DependenciesSatisfied(p, phases)

(* A run that is RUNNING works at its current phase, or there is nothing   *)
(* it could work at; it does not idle over an executable phase.            *)
RunningWorks ==
  status = "RUNNING" =>
    IF current # None THEN phases[current].status = "ACTIVE" ELSE Executable(phases) = {}
=============================================================================
