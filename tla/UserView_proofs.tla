--------------------------- MODULE UserView_proofs ---------------------------
(***************************************************************************)
(* Proofs about what a user sees of a turn.                                *)
(*                                                                         *)
(* WorkflowBoard: for any finite set of phases and any tree and            *)
(* dependencies of them, one phase is worked at, and a run that is RUNNING *)
(* works at its current phase or has nothing it could work at.             *)
(*                                                                         *)
(* Timeline: for any calls, lost connections, reloads, bootstraps and      *)
(* restarts, a client shows what is stored up to its cursor, and after a   *)
(* replay all that was sent.                                               *)
(*                                                                         *)
(* Both need an induction: over the levels on which parents are completed, *)
(* over the events an answer brings.  The induction theorems of the        *)
(* library are about operators; Induction states the principle for a set   *)
(* of numbers.                                                             *)
(***************************************************************************)
EXTENDS MCUserView, FiniteSetTheorems, SequenceTheorems, TLAPS

LEMMA Induction ==
  ASSUME NEW N \in Nat, NEW S, 0 \in S,
         \A n \in 0..N : n # N /\ n \in S => n + 1 \in S
  PROVE  0..N \subseteq S
<1> DEFINE UpTo(k) == {j \in 0..N : j <= k}
           Bad == {UpTo(k) : k \in (0..N) \ S}
           R == StrictSubsetOrdering(0..N)
<1> SUFFICES ASSUME Bad # {} PROVE FALSE
  OBVIOUS
<1>1. IsFiniteSet(0..N)
  BY FS_Interval
<1>2. Bad \subseteq FiniteSubsetsOf(0..N)
  <2>1. FiniteSubsetsOf(0..N) = SUBSET (0..N)
    BY <1>1, FS_FiniteSubsetsOfFinite
  <2> QED
    BY <2>1
<1>3. IsWellFoundedOn(R, FiniteSubsetsOf(0..N))
  BY FS_StrictSubsetOrderingWellFounded
<1>4. PICK x \in Bad : \A y \in Bad : ~(<<y, x>> \in R)
  <2> HIDE DEF Bad, R
  <2> QED
    BY <1>2, <1>3, WFMin
<1>5. PICK k \in (0..N) \ S : x = UpTo(k)
  OBVIOUS
<1>6. k - 1 \in 0..N /\ k - 1 # N /\ k = (k - 1) + 1
  OBVIOUS
<1>7. k - 1 \notin S
  BY <1>5, <1>6
<1>8. UpTo(k - 1) \in Bad
  BY <1>6, <1>7
<1>9. UpTo(k - 1) \subseteq UpTo(k) /\ k \in UpTo(k) /\ k \notin UpTo(k - 1)
  BY <1>6
<1>10. <<UpTo(k - 1), UpTo(k)>> \in R
  BY <1>9 DEF StrictSubsetOrdering
<1> QED
  BY <1>4, <1>5, <1>8, <1>10

-----------------------------------------------------------------------------
(* A step function can be iterated: the function a recursive definition    *)
(* over the levels chooses exists.                                         *)
LEMMA Iterates ==
  ASSUME NEW N \in Nat, NEW V, NEW first \in V, NEW step \in [V -> V]
  PROVE  \E g \in [0..N -> V] :
           \A n \in 0..N : g[n] = IF n = 0 THEN first ELSE step[g[n - 1]]
<1> DEFINE Reaches(m, g) == \A n \in 0..m : g[n] = IF n = 0 THEN first ELSE step[g[n - 1]]
           S == {m \in 0..N : \E g \in [0..m -> V] : Reaches(m, g)}
<1>1. 0 \in S
  <2> DEFINE g == [n \in 0..0 |-> first]
  <2>1. g \in [0..0 -> V] /\ g[0] = first
    OBVIOUS
  <2>2. Reaches(0, g)
    BY <2>1
  <2> HIDE DEF Reaches, g
  <2> QED
    BY <2>1, <2>2
<1>2. ASSUME NEW m \in 0..N, m # N, m \in S PROVE m + 1 \in S
  <2>1. PICK g \in [0..m -> V] : Reaches(m, g)
    BY <1>2
  <2> DEFINE h == [n \in 0..(m + 1) |-> IF n = m + 1 THEN step[g[m]] ELSE g[n]]
  <2>2. h \in [0..(m + 1) -> V]
    OBVIOUS
  <2>3. ASSUME NEW n \in 0..(m + 1)
        PROVE  h[n] = IF n = 0 THEN first ELSE step[h[n - 1]]
    <3>1. CASE n = m + 1
      <4>1. n - 1 = m /\ n # 0 /\ m \in 0..(m + 1) /\ m # m + 1
        BY <3>1
      <4>2. h[n] = step[g[m]] /\ h[m] = g[m]
        BY <3>1, <4>1
      <4> QED
        BY <4>1, <4>2
    <3>2. CASE n # m + 1
      <4>1. n \in 0..m /\ h[n] = g[n]
        BY <3>2
      <4>2. n # 0 => n - 1 \in 0..(m + 1) /\ n - 1 # m + 1
        BY <3>2
      <4>3. n # 0 => h[n - 1] = g[n - 1]
        BY <4>2
      <4>4. g[n] = IF n = 0 THEN first ELSE step[g[n - 1]]
        BY <2>1, <4>1
      <4> QED
        BY <4>1, <4>3, <4>4
    <3> QED
      BY <3>1, <3>2
  <2>4. m + 1 \in 0..N
    BY <1>2
  <2> HIDE DEF h
  <2> QED
    BY <2>2, <2>3, <2>4
<1>3. N \in S
  <2> HIDE DEF S
  <2>1. 0..N \subseteq S
    BY <1>1, <1>2, Induction
  <2> QED
    BY <2>1
<1> QED
  BY <1>3

-----------------------------------------------------------------------------
Boards == [PhaseIds -> Phase]
Cursors == SUBSET (PhaseIds \cup {None})

(* What of an old board is left on a new one by completing parents: the    *)
(* phase as it was, or COMPLETED now, open before, and over children that  *)
(* are done.                                                               *)
Completes(old, new) ==
  \A p \in PhaseIds :
    \/ new[p] = old[p]
    \/ /\ old[p].status \notin Terminal
       /\ new[p] = [old[p] EXCEPT !.status = "COMPLETED"]
       /\ \A c \in Children(p, new) : new[c].status \in Done

LEMMA ReadyCompletes ==
  ASSUME NEW old \in Boards, NEW b \in Boards, Completes(old, b), NEW R \in SUBSET PhaseIds,
         \A p \in R : b[p].status \notin Terminal /\ \A c \in Children(p, b) : b[c].status \in Done
  PROVE  Completes(old, Set(b, R, "COMPLETED"))
<1> DEFINE new == Set(b, R, "COMPLETED")
<1>1. ASSUME NEW p \in PhaseIds
      PROVE  new[p] = IF p \in R THEN [b[p] EXCEPT !.status = "COMPLETED"] ELSE b[p]
  BY DEF Set
<1>2. ASSUME NEW p \in PhaseIds
      PROVE  /\ old[p] \in Phase /\ b[p] \in Phase
             /\ new[p].parent = b[p].parent /\ (p \in R => new[p].status = "COMPLETED")
  BY <1>1 DEF Boards, Phase
<1>3. ASSUME NEW p \in PhaseIds, \A c \in Children(p, b) : b[c].status \in Done,
             NEW c \in Children(p, new)
      PROVE  new[c].status \in Done
  <2>1. c \in PhaseIds /\ new[c].status # "ABSENT" /\ new[c].parent = p
    BY DEF Children, Present
  <2>2. CASE c \in R
    BY <1>2, <2>1, <2>2 DEF Done
  <2>3. CASE c \notin R
    <3>1. new[c] = b[c]
      BY <1>1, <2>1, <2>3
    <3>2. c \in Children(p, b)
      BY <2>1, <3>1 DEF Children, Present
    <3> QED
      BY <1>3, <3>1, <3>2
  <2> QED
    BY <2>2, <2>3
<1> HIDE DEF new
<1>4. ASSUME NEW p \in R
      PROVE  /\ old[p].status \notin Terminal
             /\ new[p] = [old[p] EXCEPT !.status = "COMPLETED"]
  <2>1. [old[p] EXCEPT !.status = "COMPLETED"].status = "COMPLETED"
    BY <1>2 DEF Phase
  <2>2. b[p].status # "COMPLETED"
    BY DEF Terminal
  <2>3. b[p] = old[p]
    BY <2>1, <2>2 DEF Completes
  <2> QED
    BY <1>1, <2>3
<1>5. ASSUME NEW p \in PhaseIds
      PROVE  \/ new[p] = old[p]
             \/ /\ old[p].status \notin Terminal
                /\ new[p] = [old[p] EXCEPT !.status = "COMPLETED"]
                /\ \A c \in Children(p, new) : new[c].status \in Done
  <2>1. CASE p \in R
    BY <1>3, <1>4, <2>1
  <2>2. CASE p \notin R
    <3>1. new[p] = b[p]
      BY <1>1, <2>2
    <3>2. \/ b[p] = old[p]
          \/ /\ old[p].status \notin Terminal
             /\ b[p] = [old[p] EXCEPT !.status = "COMPLETED"]
             /\ \A c \in Children(p, b) : b[c].status \in Done
      BY DEF Completes
    <3> QED
      BY <1>3, <3>1, <3>2
  <2> QED
    BY <2>1, <2>2
<1>6. Completes(old, new)
  BY <1>5 DEF Completes
<1> QED
  BY <1>6 DEF new

(* Completing parents level by level gives a board on which parents were   *)
(* completed, and nothing else: no phase is active that was not.           *)
THEOREM ParentsComplete ==
  ASSUME NEW board \in Boards, NEW start \in Cursors
  PROVE  /\ CompleteReadyParents(board, start) \in Boards
         /\ Completes(board, CompleteReadyParents(board, start))
         /\ With(CompleteReadyParents(board, start), "ACTIVE") \subseteq With(board, "ACTIVE")
<1> DEFINE N == Cardinality(PhaseIds)
           Level == [board : Boards, cursors : Cursors]
           Ready(p, b) == /\ b[p].status \notin Terminal
                          /\ \A c \in Children(p, b) : b[c].status \in Done
           Risen(v) == {p \in v.cursors \ {None} : Ready(p, v.board)}
           Up(v) == [board |-> Set(v.board, Risen(v), "COMPLETED"),
                     cursors |-> {v.board[p].parent : p \in Risen(v)}]
           Bottom == [board |-> board, cursors |-> start]
           Climbs(h) == h = [n \in 0..N |-> IF n = 0 THEN Bottom ELSE Up(h[n - 1])]
           climb == CHOOSE h : Climbs(h)
<1>1. N \in Nat
  BY PhasesAssumption, FS_CardinalityType
<1>2. CompleteReadyParents(board, start) = climb[N].board
  BY DEF CompleteReadyParents
<1>3. ASSUME NEW v \in Level
      PROVE  /\ Up(v) \in Level
             /\ Completes(board, v.board) => Completes(board, Up(v).board)
  <2>1. /\ Risen(v) \subseteq PhaseIds
        /\ \A p \in Risen(v) : /\ v.board[p].status \notin Terminal
                              /\ \A c \in Children(p, v.board) : v.board[c].status \in Done
    BY DEF Cursors
  <2> HIDE DEF Risen
  <2>2. Set(v.board, Risen(v), "COMPLETED") \in Boards
    BY <2>1 DEF Set, Boards, Phase, PhaseStatus
  <2>3. {v.board[p].parent : p \in Risen(v)} \in Cursors
    BY <2>1 DEF Boards, Cursors, Phase
  <2>4. ASSUME Completes(board, v.board)
        PROVE  Completes(board, Set(v.board, Risen(v), "COMPLETED"))
    BY <2>1, <2>4, ReadyCompletes
  <2> QED
    BY <2>2, <2>3, <2>4
<1>4. Bottom \in Level
  OBVIOUS
<1>5. Climbs(climb)
  <2> DEFINE step == [v \in Level |-> Up(v)]
  <2>1. step \in [Level -> Level]
    BY <1>3
  <2>2. PICK g \in [0..N -> Level] :
               \A n \in 0..N : g[n] = IF n = 0 THEN Bottom ELSE step[g[n - 1]]
    <3> HIDE DEF step, Level, Bottom, N
    <3> QED
      BY <1>1, <1>4, <2>1, Iterates
  <2>3. ASSUME NEW n \in 0..N, n # 0 PROVE step[g[n - 1]] = Up(g[n - 1])
    <3>1. n - 1 \in 0..N
      BY <1>1, <2>3
    <3> HIDE DEF Up, Level, N
    <3>2. g[n - 1] \in Level
      BY <3>1
    <3> QED
      BY <3>2
  <2>4. Climbs(g)
    <3> HIDE DEF step, Up, Bottom, Level, N
    <3> QED
      BY <2>2, <2>3
  <2> HIDE DEF Climbs
  <2> QED
    BY <2>4
<1> DEFINE Fine(v) == v \in Level /\ Completes(board, v.board)
           S == {m \in 0..N : Fine(climb[m])}
<1>6. 0 \in S
  <2>1. 0 \in 0..N
    BY <1>1
  <2> HIDE DEF climb, N
  <2>2. climb[0] = Bottom
    BY <1>5, <2>1
  <2>3. Completes(board, Bottom.board)
    BY DEF Completes
  <2> QED
    BY <1>4, <2>1, <2>2, <2>3
<1>7. ASSUME NEW m \in 0..N, m # N, m \in S PROVE m + 1 \in S
  <2>1. m + 1 \in 0..N /\ m + 1 # 0 /\ (m + 1) - 1 = m
    <3>1. \A n \in Nat : \A j \in 0..n :
            j # n => j + 1 \in 0..n /\ j + 1 # 0 /\ (j + 1) - 1 = j
      OBVIOUS
    <3> HIDE DEF N
    <3> QED
      BY <1>1, <1>7, <3>1
  <2>2. climb[m + 1] = Up(climb[m])
    <3> HIDE DEF climb, N, Up, Bottom
    <3> QED
      BY <1>5, <2>1
  <2>3. Fine(climb[m])
    BY <1>7
  <2>4. Fine(Up(climb[m]))
    <3> HIDE DEF climb, Up, Level
    <3> QED
      BY <1>3, <2>3
  <2> HIDE DEF climb, Up, Fine, N
  <2> QED
    BY <2>1, <2>2, <2>4
<1>8. Fine(climb[N])
  <2> HIDE DEF Fine, climb, N
  <2>1. 0..N \subseteq S
    <3> HIDE DEF S
    <3> QED
      BY <1>1, <1>6, <1>7, Induction
  <2>2. N \in 0..N
    BY <1>1
  <2> QED
    BY <2>1, <2>2
<1> HIDE DEF climb, N
<1>9. ASSUME NEW new, Completes(board, new)
      PROVE  With(new, "ACTIVE") \subseteq With(board, "ACTIVE")
  BY <1>9 DEF Completes, With, Boards, Phase
<1> QED
  BY <1>2, <1>8, <1>9

-----------------------------------------------------------------------------
(* Giving phases a status keeps the rest of the board.                     *)
LEMMA SetPhases ==
  ASSUME NEW board \in Boards, NEW S, NEW st \in PhaseStatus
  PROVE  /\ Set(board, S, st) \in Boards
         /\ \A p \in PhaseIds :
              /\ Set(board, S, st)[p].status = IF p \in S THEN st ELSE board[p].status
              /\ Set(board, S, st)[p].parent = board[p].parent
              /\ Set(board, S, st)[p].dependencies = board[p].dependencies
BY DEF Set, Boards, Phase, PhaseStatus

LEMMA SetNothing ==
  ASSUME NEW board \in Boards, NEW st
  PROVE  Set(board, {}, st) = board
BY DEF Set, Boards

(* The board works at p: p alone is active, a leaf, its dependencies done. *)
WorksAt(board, p) ==
  /\ With(board, "ACTIVE") = {p}
  /\ ~IsContainer(p, board)
  /\ DependenciesSatisfied(p, board)

(* Activating a phase that may be worked at, while every other active one  *)
(* is put back, makes the board work at it.                                *)
LEMMA TakeUp ==
  ASSUME NEW board \in Boards, NEW p \in PhaseIds, NEW S,
         S \subseteq With(board, "ACTIVE"), With(board, "ACTIVE") \ S \subseteq {p},
         board[p].status \notin Terminal \cup {"ABSENT"},
         ~IsContainer(p, board), DependenciesSatisfied(p, board)
  PROVE  LET after == Set(Set(board, S, "PENDING"), {p}, "ACTIVE")
         IN  after \in Boards /\ WorksAt(after, p) /\ ~AllDone(after) /\ ~AllDone(board)
<1> DEFINE put == Set(board, S, "PENDING")
           after == Set(put, {p}, "ACTIVE")
<1>1. put \in Boards /\ after \in Boards
  BY SetPhases DEF PhaseStatus
<1>2. \A q \in PhaseIds :
        /\ after[q].status = IF q = p THEN "ACTIVE" ELSE IF q \in S THEN "PENDING" ELSE board[q].status
        /\ after[q].parent = board[q].parent
        /\ after[q].dependencies = board[q].dependencies
  <2>1. \A q \in PhaseIds :
          /\ put[q].status = IF q \in S THEN "PENDING" ELSE board[q].status
          /\ put[q].parent = board[q].parent
          /\ put[q].dependencies = board[q].dependencies
    BY SetPhases DEF PhaseStatus
  <2>2. \A q \in PhaseIds :
          /\ after[q].status = IF q \in {p} THEN "ACTIVE" ELSE put[q].status
          /\ after[q].parent = put[q].parent
          /\ after[q].dependencies = put[q].dependencies
    <3> HIDE DEF put
    <3> QED
      BY <1>1, SetPhases DEF PhaseStatus
  <2> HIDE DEF put, after
  <2> QED
    BY <2>1, <2>2
<1> HIDE DEF put, after
<1>3. With(after, "ACTIVE") = {p}
  BY <1>2 DEF With
<1>4. ~IsContainer(p, after)
  BY <1>2 DEF IsContainer, Children, Present, With
<1>5. DependenciesSatisfied(p, after)
  BY <1>2 DEF DependenciesSatisfied, Satisfied, Terminal, With, Boards, Phase
<1>6. ~AllDone(after)
  BY <1>2 DEF AllDone, Present, Done
<1>7. ~AllDone(board)
  BY DEF AllDone, Present, Done, Terminal
<1> QED
  BY <1>1, <1>3, <1>4, <1>5, <1>6, <1>7 DEF WorksAt, put, after

(* The same for an executable phase of a board on which none is active.    *)
LEMMA TakeUpNext ==
  ASSUME NEW board \in Boards, NEW p \in Executable(board), With(board, "ACTIVE") = {}
  PROVE  LET after == Set(board, {p}, "ACTIVE")
         IN  after \in Boards /\ WorksAt(after, p) /\ ~AllDone(after) /\ ~AllDone(board)
<1>1. /\ p \in PhaseIds /\ board[p].status = "PENDING"
      /\ ~IsContainer(p, board) /\ DependenciesSatisfied(p, board)
  BY DEF Executable, With
<1>2. board[p].status \notin Terminal \cup {"ABSENT"}
  BY <1>1 DEF Terminal
<1>3. Set(board, {}, "PENDING") = board
  BY SetNothing
<1> QED
  BY <1>1, <1>2, <1>3, TakeUp

-----------------------------------------------------------------------------
(* At most one phase is active; with a current phase, no other is.  While  *)
(* the run is open its current phase is a leaf in work or blocked, with    *)
(* its dependencies done, or there is none and nothing is executable.      *)
OneActive(board) == \A p, q \in With(board, "ACTIVE") : p = q
AtCurrent(board, cur) == cur # None => With(board, "ACTIVE") \subseteq {cur}
InWork(board, st, cur) ==
  st \in Open /\ cur # None =>
    /\ board[cur].status \in {"ACTIVE", "BLOCKED"}
    /\ st = "RUNNING" => board[cur].status = "ACTIVE"
    /\ ~IsContainer(cur, board) /\ DependenciesSatisfied(cur, board)
Idle(board, st, cur) == st \in Open /\ cur = None => Executable(board) = {}
AtRest(board, st) == st \notin Open => With(board, "ACTIVE") = {}

BoardInv ==
  /\ TypeOK
  /\ OneActive(phases)
  /\ AtCurrent(phases, current)
  /\ InWork(phases, status, current)
  /\ Idle(phases, status, current)
  /\ AtRest(phases, status)

(* The two boards the operations leave: one worked at its current phase,   *)
(* and one without a current phase.                                        *)
LEMMA Working ==
  ASSUME phases' \in Boards, status' = "RUNNING", current' \in PhaseIds,
         WorksAt(phases', current')
  PROVE  BoardInv'
<1>1. phases'[current'].status = "ACTIVE" /\ current' # None
  BY PhasesAssumption DEF WorksAt, With
<1>2. TypeOK'
  BY DEF TypeOK, Boards, RunStatus
<1>3. OneActive(phases') /\ AtCurrent(phases', current')
  BY DEF OneActive, AtCurrent, WorksAt
<1>4. InWork(phases', status', current')
  BY <1>1 DEF InWork, WorksAt
<1>5. Idle(phases', status', current') /\ AtRest(phases', status')
  BY <1>1 DEF Idle, AtRest, Open
<1> QED
  BY <1>2, <1>3, <1>4, <1>5 DEF BoardInv

LEMMA Resting ==
  ASSUME phases' \in Boards, status' \in RunStatus, current' = None,
         OneActive(phases'), Executable(phases') = {},
         status' \notin Open => With(phases', "ACTIVE") = {}
  PROVE  BoardInv'
BY DEF BoardInv, TypeOK, Boards, AtCurrent, InWork, Idle, AtRest

-----------------------------------------------------------------------------
LEMMA BoardInitially == Init => BoardInv
<1> SUFFICES ASSUME Init PROVE BoardInv
  OBVIOUS
<1>1. phases \in Boards /\ status = "none" /\ current = None
  BY DEF Init, Absent, Boards, Phase, PhaseStatus
<1>2. With(phases, "ACTIVE") = {}
  BY DEF Init, Absent, With
<1> QED
  BY <1>1, <1>2
     DEF BoardInv, TypeOK, Boards, OneActive, AtCurrent, InWork, Idle, AtRest, Open

LEMMA StartKeeps == BoardInv /\ Start => BoardInv'
<1> SUFFICES ASSUME BoardInv, Start PROVE BoardInv'
  OBVIOUS
<1>1. PICK parent \in [PhaseIds -> PhaseIds \cup {None}], dependencies \in [PhaseIds -> Drafts],
           S \in SUBSET PhaseIds :
        LET drafted == [p \in PhaseIds |-> IF p \notin S THEN Absent
                          ELSE [status |-> "PENDING", parent |-> parent[p],
                                dependencies |-> dependencies[p]]]
        IN  \E first \in Executable(drafted) :
              /\ phases' = Set(drafted, {first}, "ACTIVE")
              /\ current' = first
  BY DEF Start
<1> DEFINE drafted == [p \in PhaseIds |-> IF p \notin S THEN Absent
                         ELSE [status |-> "PENDING", parent |-> parent[p],
                               dependencies |-> dependencies[p]]]
<1>2. drafted \in Boards
  <2>1. \A p \in PhaseIds : dependencies[p] \in SUBSET PhaseIds
    BY DEF Drafts
  <2> QED
    BY <2>1 DEF Absent, Boards, Phase, PhaseStatus
<1>3. With(drafted, "ACTIVE") = {}
  BY DEF With, Absent
<1>4. PICK first \in Executable(drafted) :
        phases' = Set(drafted, {first}, "ACTIVE") /\ current' = first
  BY <1>1
<1> HIDE DEF drafted
<1>5. first \in PhaseIds
  BY DEF Executable, With
<1>6. phases' \in Boards /\ WorksAt(phases', current')
  BY <1>2, <1>3, <1>4, TakeUpNext
<1>7. status' = "RUNNING"
  BY DEF Start
<1> QED
  BY <1>4, <1>5, <1>6, <1>7, Working

(* An edit of the graph changes the status of no phase that is active.     *)
LEMMA EditedBoard ==
  ASSUME TypeOK, NEW p \in PhaseIds, NEW parent \in PhaseIds \cup {None},
         NEW dependencies \in Drafts, NEW gone \in SUBSET With(phases, "PENDING")
  PROVE  /\ Edited(p, parent, dependencies, gone) \in Boards
         /\ With(Edited(p, parent, dependencies, gone), "ACTIVE") \subseteq With(phases, "ACTIVE")
<1> DEFINE edited == Edited(p, parent, dependencies, gone)
<1>1. dependencies \in SUBSET PhaseIds
  BY DEF Drafts
<1>2. ASSUME NEW q \in PhaseIds
      PROVE  edited[q] \in Phase /\ (edited[q].status = "ACTIVE" => phases[q].status = "ACTIVE")
  <2>1. phases[q] \in Phase
    BY DEF TypeOK
  <2>2. CASE q \in gone
    BY <2>2 DEF Edited, Absent, Phase, PhaseStatus
  <2>3. CASE q \notin gone /\ q = p
    <3>1. edited[q] = [status |-> IF phases[q].status = "ABSENT" THEN "PENDING" ELSE phases[q].status,
                       parent |-> parent, dependencies |-> dependencies]
      BY <2>3 DEF Edited
    <3> QED
      BY <1>1, <2>1, <3>1 DEF Phase, PhaseStatus
  <2>4. CASE q \notin gone /\ q # p
    BY <2>1, <2>4 DEF Edited
  <2> QED
    BY <2>2, <2>3, <2>4
<1>3. edited \in Boards
  <2>1. edited = [q \in PhaseIds |-> edited[q]]
    BY DEF Edited
  <2> HIDE DEF edited
  <2> QED
    BY <1>2, <2>1 DEF Boards
<1> HIDE DEF edited
<1>4. With(edited, "ACTIVE") \subseteq With(phases, "ACTIVE")
  BY <1>2 DEF With
<1> QED
  BY <1>3, <1>4 DEF edited

LEMMA UpdateKeeps ==
  ASSUME BoardInv, status \in Open,
         NEW edited \in Boards, With(edited, "ACTIVE") \subseteq With(phases, "ACTIVE"),
         NEW skipped, NEW cancelled, NEW completed \in SUBSET PhaseIds,
         NEW want \in PhaseIds \cup {None},
         Update(edited, skipped, cancelled, completed, want)
  PROVE  BoardInv'
<1> DEFINE shelved == Set(Set(edited, skipped, "SKIPPED"), cancelled, "CANCELLED")
           fresh   == {p \in completed : shelved[p].status # "COMPLETED"}
           marked  == Set(shelved, fresh, "COMPLETED")
           start   == {shelved[p].parent : p \in fresh}
           board   == CompleteReadyParents(marked, start)
           target  == IF want = None \/ board[want].status \in Terminal \cup {"ABSENT"} THEN None ELSE want
<1>1. shelved \in Boards /\ With(shelved, "ACTIVE") \subseteq With(phases, "ACTIVE")
  <2> DEFINE left == Set(edited, skipped, "SKIPPED")
  <2>1. left \in Boards /\ With(left, "ACTIVE") \subseteq With(edited, "ACTIVE")
    BY SetPhases DEF PhaseStatus, With
  <2> HIDE DEF left
  <2>2. Set(left, cancelled, "CANCELLED") \in Boards
        /\ With(Set(left, cancelled, "CANCELLED"), "ACTIVE") \subseteq With(left, "ACTIVE")
    BY <2>1, SetPhases DEF PhaseStatus, With
  <2> QED
    BY <2>1, <2>2 DEF left
<1> HIDE DEF shelved
<1>2. start \in Cursors
  BY <1>1 DEF Boards, Phase, Cursors
<1> HIDE DEF fresh
<1>3. marked \in Boards /\ With(marked, "ACTIVE") \subseteq With(shelved, "ACTIVE")
  BY <1>1, SetPhases DEF PhaseStatus, With
<1> HIDE DEF marked, start
<1>4. board \in Boards /\ With(board, "ACTIVE") \subseteq With(phases, "ACTIVE")
  BY <1>1, <1>2, <1>3, ParentsComplete
<1>5. /\ target # None => ~IsContainer(target, board) /\ DependenciesSatisfied(target, board)
      /\ \E p \in IF target # None THEN {target} ELSE NextPhases(board) : Settle(Activated(board, p), p)
  BY DEF Update, shelved, fresh, marked, start
<1> HIDE DEF board
<1>6. target # None => target \in PhaseIds /\ board[target].status \notin Terminal \cup {"ABSENT"}
  OBVIOUS
<1> HIDE DEF target
<1>7. PICK p \in IF target # None THEN {target} ELSE NextPhases(board) : Settle(Activated(board, p), p)
  BY <1>5
<1>8. None \notin PhaseIds
  BY PhasesAssumption
<1>9. CASE p # None
  <2>1. /\ p \in PhaseIds /\ board[p].status \notin Terminal \cup {"ABSENT"}
        /\ ~IsContainer(p, board) /\ DependenciesSatisfied(p, board)
    <3>1. CASE target # None
      BY <1>5, <1>6, <1>7, <3>1
    <3>2. CASE target = None
      BY <1>7, <1>9, <3>2 DEF NextPhases, Executable, With, Terminal
    <3> QED
      BY <3>1, <3>2
  <2> DEFINE S == With(board, "ACTIVE")
             after == Set(Set(board, S, "PENDING"), {p}, "ACTIVE")
  <2>2. after \in Boards /\ WorksAt(after, p) /\ ~AllDone(after)
    <3> HIDE DEF S
    <3>1. S \subseteq With(board, "ACTIVE") /\ With(board, "ACTIVE") \ S \subseteq {p}
      BY DEF S
    <3> QED
      BY <1>4, <2>1, <3>1, TakeUp
  <2>3. Activated(board, p) = after
    BY <1>9 DEF Activated
  <2> HIDE DEF after
  <2>4. phases' = after /\ status' = "RUNNING" /\ current' = p
    BY <1>7, <1>9, <2>2, <2>3 DEF Settle, StatusAfterUpdate
  <2> QED
    BY <2>1, <2>2, <2>4, Working
<1>10. CASE p = None
  <2>1. Executable(board) = {}
    BY <1>7, <1>8, <1>10 DEF NextPhases, Executable, With
  <2>2. phases' = board /\ current' = None /\ status' = StatusAfterUpdate(board, None)
    BY <1>7, <1>10 DEF Settle, Activated
  <2>3. /\ AllDone(board) => status' = "COMPLETED"
        /\ ~AllDone(board) => status' \in {"BLOCKED", "WAITING"}
    BY <2>2 DEF StatusAfterUpdate
  <2>4. status' \in RunStatus /\ (status' \notin Open => AllDone(board))
    BY <2>3 DEF RunStatus, Open
  <2>5. AllDone(board) => With(board, "ACTIVE") = {}
    BY DEF AllDone, Present, With, Done
  <2>6. OneActive(board)
    BY <1>4 DEF BoardInv, OneActive
  <2> QED
    BY <1>4, <2>1, <2>2, <2>4, <2>5, <2>6, Resting
<1> QED
  BY <1>9, <1>10

LEMMA UpdateSomethingKeeps == BoardInv /\ UpdateSomething => BoardInv'
<1> SUFFICES ASSUME BoardInv, UpdateSomething PROVE BoardInv'
  OBVIOUS
<1>1. PICK edited \in {Edited(p, parent, dependencies, gone) :
                        p \in PhaseIds, parent \in PhaseIds \cup {None}, dependencies \in Drafts,
                        gone \in SUBSET With(phases, "PENDING")} :
        \E skipped, cancelled, completed \in SUBSET Present(phases) :
          \E want \in PhaseIds \cup {None} :
            Update(edited, skipped, cancelled, completed, want)
  BY DEF UpdateSomething
<1>2. PICK skipped, cancelled, completed \in SUBSET Present(phases),
           want \in PhaseIds \cup {None} :
        Update(edited, skipped, cancelled, completed, want)
  BY <1>1
<1>3. completed \in SUBSET PhaseIds
  BY DEF Present
<1>4. edited \in Boards /\ With(edited, "ACTIVE") \subseteq With(phases, "ACTIVE")
  BY EditedBoard DEF BoardInv
<1>5. status \in Open
  BY DEF UpdateSomething
<1> QED
  BY <1>2, <1>3, <1>4, <1>5, UpdateKeeps

LEMMA CompleteKeeps == BoardInv /\ Complete => BoardInv'
<1> SUFFICES ASSUME BoardInv, Complete PROVE BoardInv'
  OBVIOUS
<1> DEFINE marked == Set(phases, {current}, "COMPLETED")
           start == {phases[current].parent}
           board == CompleteReadyParents(marked, start)
<1>1. phases \in Boards /\ current \in PhaseIds /\ None \notin PhaseIds
  BY PhasesAssumption DEF BoardInv, TypeOK, Boards, Complete
<1>2. marked \in Boards /\ start \in Cursors
  BY <1>1, SetPhases DEF PhaseStatus, Boards, Phase, Cursors
<1>3. With(marked, "ACTIVE") = {}
  BY <1>1, SetPhases DEF PhaseStatus, With, BoardInv, AtCurrent
<1> HIDE DEF marked, start
<1>4. board \in Boards /\ With(board, "ACTIVE") = {}
  BY <1>2, <1>3, ParentsComplete
<1>5. PICK p \in NextPhases(board) :
        LET after == IF p = None THEN board ELSE Set(board, {p}, "ACTIVE")
        IN  /\ phases' = after
            /\ current' = IF AllDone(after) THEN None ELSE p
            /\ status' = CASE AllDone(after) -> "COMPLETED"
                           [] ~AllDone(after) /\ p = None /\ With(after, "PENDING") # {} -> "WAITING"
                           [] ~AllDone(after) /\ (p # None \/ With(after, "PENDING") = {}) -> "RUNNING"
  BY DEF Complete, marked, start
<1> HIDE DEF board
<1>6. CASE p # None
  <2> DEFINE after == Set(board, {p}, "ACTIVE")
  <2>1. p \in Executable(board) /\ p \in PhaseIds
    BY <1>5, <1>6 DEF NextPhases, Executable, With
  <2>2. after \in Boards /\ WorksAt(after, p) /\ ~AllDone(after)
    BY <1>4, <2>1, TakeUpNext
  <2> HIDE DEF after
  <2>3. phases' = after /\ current' = p /\ status' = "RUNNING"
    BY <1>5, <1>6, <2>2 DEF after
  <2> QED
    BY <2>1, <2>2, <2>3, Working
<1>7. CASE p = None
  <2>1. Executable(board) = {}
    BY <1>1, <1>5, <1>7 DEF NextPhases, Executable, With
  <2>2. phases' = board /\ current' = None
    BY <1>5, <1>7
  <2>3. status' \in RunStatus
    BY <1>5, <1>7 DEF RunStatus
  <2>4. OneActive(board)
    BY <1>4 DEF OneActive
  <2> QED
    BY <1>4, <2>1, <2>2, <2>3, <2>4, Resting
<1> QED
  BY <1>6, <1>7

LEMMA BlockKeeps == BoardInv /\ Block => BoardInv'
<1> SUFFICES ASSUME BoardInv, Block PROVE BoardInv'
  OBVIOUS
<1>1. PICK st \in {"WAITING", "BLOCKED", "FAILED"} :
        /\ status' = st
        /\ phases' = Set(phases, {current}, IF st = "FAILED" THEN "FAILED" ELSE "BLOCKED")
  BY DEF Block
<1> DEFINE mark == IF st = "FAILED" THEN "FAILED" ELSE "BLOCKED"
<1>2. /\ phases \in Boards /\ current \in PhaseIds /\ current' = current
      /\ None \notin PhaseIds /\ status \in Open
  BY PhasesAssumption DEF BoardInv, TypeOK, Boards, Block
<1>3. /\ phases' \in Boards
      /\ \A p \in PhaseIds :
           /\ phases'[p].status = IF p = current THEN mark ELSE phases[p].status
           /\ phases'[p].parent = phases[p].parent
           /\ phases'[p].dependencies = phases[p].dependencies
  <2>1. mark \in PhaseStatus
    BY DEF PhaseStatus
  <2> HIDE DEF mark
  <2>2. phases' = Set(phases, {current}, mark)
    BY <1>1 DEF mark
  <2> QED
    BY <1>2, <2>1, <2>2, SetPhases
<1>4. With(phases', "ACTIVE") = {}
  BY <1>2, <1>3 DEF With, BoardInv, AtCurrent
<1>5. TypeOK' /\ OneActive(phases') /\ AtCurrent(phases', current')
  BY <1>1, <1>2, <1>3, <1>4 DEF TypeOK, RunStatus, Boards, OneActive, AtCurrent
<1>6. InWork(phases', status', current')
  <2> SUFFICES ASSUME status' \in Open
               PROVE  /\ phases'[current].status = "BLOCKED" /\ status' # "RUNNING"
                      /\ ~IsContainer(current, phases') /\ DependenciesSatisfied(current, phases')
    BY <1>2 DEF InWork
  <2>1. st # "FAILED"
    BY <1>1 DEF Open
  <2>2. phases'[current].status = "BLOCKED" /\ status' # "RUNNING"
    BY <1>1, <1>2, <1>3, <2>1
  <2>3. /\ phases[current].status \in {"ACTIVE", "BLOCKED"}
        /\ ~IsContainer(current, phases) /\ DependenciesSatisfied(current, phases)
    BY <1>2 DEF BoardInv, InWork
  <2>4. ~IsContainer(current, phases')
    BY <1>2, <1>3, <2>2, <2>3 DEF IsContainer, Children, Present
  <2>5. DependenciesSatisfied(current, phases')
    BY <1>2, <1>3, <2>3 DEF DependenciesSatisfied, Satisfied, Boards, Phase
  <2> QED
    BY <2>2, <2>4, <2>5
<1>7. Idle(phases', status', current') /\ AtRest(phases', status')
  BY <1>2, <1>4 DEF Idle, AtRest
<1> QED
  BY <1>5, <1>6, <1>7 DEF BoardInv

LEMMA CancelKeeps == BoardInv /\ Cancel => BoardInv'
<1> SUFFICES ASSUME BoardInv, Cancel PROVE BoardInv'
  OBVIOUS
<1> DEFINE S == {p \in Present(phases) : phases[p].status \notin Terminal}
<1>1. phases \in Boards
  BY DEF BoardInv, TypeOK, Boards
<1>2. phases' = Set(phases, S, "CANCELLED") /\ status' = "CANCELLED" /\ current' = None
  BY DEF Cancel
<1>3. phases' \in Boards
  BY <1>1, <1>2, SetPhases DEF PhaseStatus
<1>4. \A p \in PhaseIds : phases'[p].status = IF p \in S THEN "CANCELLED" ELSE phases[p].status
  <2> HIDE DEF S
  <2> QED
    BY <1>1, <1>2, SetPhases DEF PhaseStatus
<1>5. With(phases', "ACTIVE") = {} /\ With(phases', "PENDING") = {}
  BY <1>4 DEF With, Present, Terminal
<1>6. Executable(phases') = {} /\ OneActive(phases')
  BY <1>5 DEF Executable, OneActive
<1>7. status' \in RunStatus
  BY <1>2 DEF RunStatus
<1> QED
  BY <1>2, <1>3, <1>5, <1>6, <1>7, Resting

LEMMA PauseKeeps == BoardInv /\ Pause => BoardInv'
BY DEF BoardInv, Pause, TypeOK, RunStatus, Open, OneActive, AtCurrent, InWork, Idle, AtRest,
       With, Executable, IsContainer, Children, Present, DependenciesSatisfied

LEMMA ResumeKeeps == BoardInv /\ Resume => BoardInv'
<1> SUFFICES ASSUME BoardInv, Resume PROVE BoardInv'
  OBVIOUS
<1>1. /\ phases \in Boards /\ status \in Open /\ current \in PhaseIds \cup {None}
      /\ None \notin PhaseIds
  BY PhasesAssumption DEF BoardInv, TypeOK, Boards, Resume
<1>2. CASE current # None
  <2>1. /\ current \in PhaseIds /\ phases[current].status \in {"ACTIVE", "BLOCKED"}
        /\ ~IsContainer(current, phases) /\ DependenciesSatisfied(current, phases)
    BY <1>1, <1>2 DEF BoardInv, InWork
  <2>2. phases[current].status \notin Terminal \cup {"ABSENT"}
    BY <2>1 DEF Terminal
  <2>3. /\ phases' = IF phases[current].status = "BLOCKED"
                     THEN Set(phases, {current}, "ACTIVE") ELSE phases
        /\ status' = "RUNNING" /\ current' = current
    BY <1>2, <2>2 DEF Resume
  <2>4. phases' \in Boards /\ WorksAt(phases', current)
    <3>1. CASE phases[current].status = "BLOCKED"
      <4>1. With(phases, "ACTIVE") \ {} \subseteq {current} /\ {} \subseteq With(phases, "ACTIVE")
        BY <1>2 DEF BoardInv, AtCurrent
      <4>2. Set(Set(phases, {}, "PENDING"), {current}, "ACTIVE") \in Boards
            /\ WorksAt(Set(Set(phases, {}, "PENDING"), {current}, "ACTIVE"), current)
        BY <1>1, <2>1, <2>2, <4>1, TakeUp
      <4> QED
        BY <1>1, <2>3, <3>1, <4>2, SetNothing
    <3>2. CASE phases[current].status = "ACTIVE"
      <4>1. With(phases, "ACTIVE") = {current}
        BY <1>2, <2>1, <3>2 DEF BoardInv, AtCurrent, With
      <4> QED
        BY <1>1, <2>1, <2>3, <3>2, <4>1 DEF WorksAt
    <3> QED
      BY <2>1, <3>1, <3>2
  <2> QED
    BY <2>1, <2>3, <2>4, Working
<1>3. CASE current = None
  <2>1. Executable(phases) = {}
    BY <1>1, <1>3 DEF BoardInv, Idle
  <2>2. phases' = phases /\ current' = None /\ status' = StatusAfterUpdate(phases, None)
    BY <1>3, <2>1 DEF Resume, NextPhases
  <2>3. /\ AllDone(phases) => status' = "COMPLETED"
        /\ ~AllDone(phases) => status' \in {"BLOCKED", "WAITING"}
    BY <2>2 DEF StatusAfterUpdate
  <2>4. status' \in RunStatus /\ (status' \notin Open => AllDone(phases))
    BY <2>3 DEF RunStatus, Open
  <2>5. AllDone(phases) => With(phases, "ACTIVE") = {}
    BY DEF AllDone, Present, With, Done
  <2>6. OneActive(phases)
    BY DEF BoardInv
  <2> QED
    BY <1>1, <2>1, <2>2, <2>4, <2>5, <2>6, Resting
<1> QED
  BY <1>2, <1>3

LEMMA StutterKeeps == BoardInv /\ UNCHANGED vars => BoardInv'
BY DEF BoardInv, vars, TypeOK, OneActive, AtCurrent, InWork, Idle, AtRest,
       With, Executable, IsContainer, Children, Present, DependenciesSatisfied

LEMMA BoardInvariance == Spec => []BoardInv
<1>1. BoardInv /\ [Next]_vars => BoardInv'
  BY StartKeeps, UpdateSomethingKeeps, CompleteKeeps, BlockKeeps, CancelKeeps, PauseKeeps,
     ResumeKeeps, StutterKeeps DEF Next
<1> QED
  BY BoardInitially, <1>1, PTL DEF Spec

(* The board, the run's status and its current phase keep their types, for *)
(* every finite set of phases.                                             *)
THEOREM BoardTypeCorrect == Spec => []TypeOK
<1>1. BoardInv => TypeOK
  BY DEF BoardInv
<1> QED
  BY BoardInvariance, <1>1, PTL

(* The agent works at one phase: at most one is active, and with a current *)
(* phase it is that one, a leaf whose dependencies are done.               *)
THEOREM WorksAtOnePhase == Spec => []OneActivePhase
<1>1. ASSUME BoardInv PROVE OneActivePhase
  <2>1. Cardinality(With(phases, "ACTIVE")) <= 1
    <3>1. CASE With(phases, "ACTIVE") = {}
      BY <3>1, FS_EmptySet
    <3>2. ASSUME NEW p \in With(phases, "ACTIVE")
          PROVE  Cardinality(With(phases, "ACTIVE")) = 1
      <4>1. With(phases, "ACTIVE") = {p}
        BY <1>1 DEF BoardInv, OneActive
      <4> QED
        BY <4>1, FS_Singleton
    <3> QED
      BY <3>1, <3>2
  <2>2. ASSUME NEW p \in With(phases, "ACTIVE"), current # None
        PROVE  current = p /\ ~IsContainer(p, phases) /\ DependenciesSatisfied(p, phases)
    <3>1. current = p
      BY <1>1, <2>2 DEF BoardInv, AtCurrent
    <3>2. status \in Open
      BY <1>1 DEF BoardInv, AtRest
    <3> QED
      BY <1>1, <2>2, <3>1, <3>2 DEF BoardInv, InWork
  <2> QED
    BY <2>1, <2>2 DEF OneActivePhase
<1> QED
  BY BoardInvariance, <1>1, PTL

(* A run that is RUNNING works at its current phase, or nothing of it is   *)
(* executable.                                                             *)
THEOREM RunningRunWorks == Spec => []RunningWorks
<1>1. BoardInv => RunningWorks
  BY DEF BoardInv, InWork, Idle, RunningWorks, Open
<1> QED
  BY BoardInvariance, <1>1, PTL

-----------------------------------------------------------------------------
(* A set of numbers up to n has a largest one.                             *)
LEMMA Maximum ==
  ASSUME NEW n \in Nat, NEW T \in SUBSET (0..n), T # {}
  PROVE  Max(T) \in T /\ \A k \in T : k <= Max(T)
<1> DEFINE HasMax(U) == U # {} => \E x \in U : \A y \in U : x >= y
           S == {m \in 0..n : \A U \in SUBSET (0..m) : HasMax(U)}
<1>1. 0 \in S
  <2>1. 0..0 = {0} /\ 0 \in 0..n
    OBVIOUS
  <2>2. ASSUME NEW U \in SUBSET (0..0) PROVE HasMax(U)
    <3>1. U = {} \/ U = {0}
      BY <2>1
    <3>2. 0 >= 0
      OBVIOUS
    <3> QED
      BY <3>1, <3>2
  <2> HIDE DEF HasMax
  <2> QED
    BY <2>1, <2>2
<1>2. ASSUME NEW m \in 0..n, m # n, m \in S PROVE m + 1 \in S
  <2>1. m + 1 \in 0..n
    BY <1>2
  <2>2. ASSUME NEW U \in SUBSET (0..(m + 1)) PROVE HasMax(U)
    <3>1. CASE m + 1 \in U
      <4>1. \A y \in U : m + 1 >= y
        OBVIOUS
      <4> QED
        BY <3>1, <4>1
    <3>2. CASE m + 1 \notin U
      <4>1. U \in SUBSET (0..m)
        BY <3>2
      <4> QED
        BY <1>2, <4>1
    <3> QED
      BY <3>1, <3>2
  <2> HIDE DEF HasMax
  <2> QED
    BY <2>1, <2>2
<1>3. n \in S
  <2> HIDE DEF S
  <2>1. 0..n \subseteq S
    BY <1>1, <1>2, Induction
  <2> QED
    BY <2>1
<1>4. PICK x \in T : \A y \in T : x >= y
  BY <1>3
<1>5. /\ Max(T) \in T
      /\ \A y \in T : Max(T) >= y
  BY <1>4 DEF Max
<1> QED
  BY <1>5

(* What a view must be, but for the length of the log.                     *)
Views == [shown : [Calls -> 0..Over], cursor : Nat]

(* w shows what v shows, or later versions.                                *)
Outdoes(w, v) == \A c \in Calls : w.shown[c] >= v.shown[c]

Shows(w, events) == \A i \in DOMAIN events : w.shown[events[i].key] >= events[i].version

LEMMA Upserted ==
  ASSUME NEW v \in Views, NEW e \in Event
  PROVE  LET w == Upsert(v, e)
         IN  /\ w \in Views /\ w.cursor = v.cursor
             /\ \A c \in Calls : w.shown[c] = IF c = e.key /\ e.version >= v.shown[c]
                                              THEN e.version ELSE v.shown[c]
BY DEF Views, Event, Upsert, Over

(* The fold that merges an answer's events is defined: a set of them gives *)
(* every call the largest of its versions.                                 *)
LEMMA FoldExists ==
  ASSUME NEW v \in Views, NEW seq \in Seq(Event)
  PROVE  \E f : f = [s \in SUBSET (DOMAIN seq) |->
                       IF s = {} THEN v ELSE Upsert(f[s \ {Max(s)}], seq[Max(s)])]
<1> DEFINE n == Len(seq)
           D == DOMAIN seq
           Among(c, s) == {v.shown[c]} \cup {seq[i].version : i \in {j \in s : seq[j].key = c}}
           Best(c, s) == Max(Among(c, s))
           At(s) == [shown |-> [c \in Calls |-> Best(c, s)], cursor |-> v.cursor]
           f == [s \in SUBSET D |-> At(s)]
<1>1. n \in Nat /\ D = 1..n /\ \A i \in D : seq[i] \in Event
  OBVIOUS
<1>2. ASSUME NEW s \in SUBSET D, NEW c \in Calls
      PROVE  /\ Among(c, s) \in SUBSET (0..Over)
             /\ Best(c, s) \in Among(c, s) /\ Best(c, s) \in 0..Over
             /\ \A k \in Among(c, s) : k <= Best(c, s)
  <2>1. v.shown[c] \in 0..Over
    BY DEF Views
  <2>2. \A i \in s : seq[i].version \in 0..Over
    BY <1>1 DEF Event, Over
  <2>3. Among(c, s) \in SUBSET (0..Over) /\ Among(c, s) # {}
    BY <2>1, <2>2
  <2>4. Over \in Nat
    BY DEF Over
  <2> HIDE DEF Among
  <2> QED
    BY <2>3, <2>4, Maximum
<1>3. ASSUME NEW s \in SUBSET D PROVE At(s) \in Views
  BY <1>2 DEF Views
<1>4. At({}) = v
  <2>1. ASSUME NEW c \in Calls PROVE Best(c, {}) = v.shown[c]
    <3>1. Among(c, {}) = {v.shown[c]}
      OBVIOUS
    <3>2. Best(c, {}) \in Among(c, {})
      BY <1>2
    <3> HIDE DEF Best, Among
    <3> QED
      BY <3>1, <3>2
  <2> HIDE DEF Best
  <2> QED
    BY <2>1 DEF Views
<1>5. ASSUME NEW s \in SUBSET D, s # {}
      PROVE  At(s) = Upsert(At(s \ {Max(s)}), seq[Max(s)])
  <2> DEFINE x == Max(s)
             t == s \ {x}
             e == seq[x]
             w == Upsert(At(t), e)
  <2>1. x \in s
    <3>1. \A m \in Nat : 1..m \subseteq 0..m
      OBVIOUS
    <3>2. s \in SUBSET (0..n)
      BY <1>1, <3>1
    <3> HIDE DEF n
    <3> QED
      BY <1>1, <1>5, <3>2, Maximum
  <2>2. t \in SUBSET D /\ e \in Event
    BY <1>1, <2>1
  <2>3. At(t) \in Views
    BY <1>3, <2>2
  <2>4. /\ w \in Views /\ w.cursor = At(t).cursor
        /\ \A c \in Calls : w.shown[c] = IF c = e.key /\ e.version >= At(t).shown[c]
                                         THEN e.version ELSE At(t).shown[c]
    <3> HIDE DEF At, t, e
    <3> QED
      BY <2>2, <2>3, Upserted
  <2>5. ASSUME NEW c \in Calls
        PROVE  Best(c, s) = IF c = e.key /\ e.version >= Best(c, t) THEN e.version ELSE Best(c, t)
    <3>1. Among(c, s) = Among(c, t) \cup (IF e.key = c THEN {e.version} ELSE {})
      BY <2>1
    <3>2. /\ Best(c, s) \in Among(c, s) /\ Best(c, s) \in 0..Over
          /\ \A k \in Among(c, s) : k <= Best(c, s)
      BY <1>2
    <3>3. /\ Best(c, t) \in Among(c, t) /\ Best(c, t) \in 0..Over
          /\ \A k \in Among(c, t) : k <= Best(c, t)
      BY <1>2, <2>2
    <3>4. e.version \in 0..Over /\ \A k \in 0..Over : k \in Int
      BY <2>2 DEF Event, Over
    <3> HIDE DEF Best, Among, e, t, x
    <3>5. CASE e.key # c
      <4>1. Best(c, s) <= Best(c, t) /\ Best(c, t) <= Best(c, s)
        BY <3>1, <3>2, <3>3, <3>5
      <4> QED
        BY <3>2, <3>3, <3>4, <3>5, <4>1
    <3>6. CASE e.key = c
      <4>1. /\ e.version <= Best(c, s) /\ Best(c, t) <= Best(c, s)
            /\ Best(c, s) = e.version \/ Best(c, s) <= Best(c, t)
        BY <3>1, <3>2, <3>3, <3>6
      <4> QED
        BY <3>2, <3>3, <3>4, <3>6, <4>1
    <3> QED
      BY <3>5, <3>6
  <2>6. \A c \in Calls : w.shown[c] = At(s).shown[c]
    <3>1. \A c \in Calls : At(t).shown[c] = Best(c, t) /\ At(s).shown[c] = Best(c, s)
      OBVIOUS
    <3> HIDE DEF At, Best, t, e, w
    <3> QED
      BY <2>4, <2>5, <3>1
  <2>7. w.cursor = At(s).cursor
    <3>1. At(t).cursor = At(s).cursor
      OBVIOUS
    <3> QED
      BY <2>4, <3>1
  <2>8. At(s) \in Views
    BY <1>3
  <2> HIDE DEF At, w
  <2>9. w = At(s)
    BY <2>4, <2>6, <2>7, <2>8 DEF Views
  <2> QED
    BY <2>9 DEF w
<1>6. f = [s \in SUBSET D |-> IF s = {} THEN v ELSE Upsert(f[s \ {Max(s)}], seq[Max(s)])]
  <2>1. ASSUME NEW s \in SUBSET D
        PROVE  f[s] = IF s = {} THEN v ELSE Upsert(f[s \ {Max(s)}], seq[Max(s)])
    <3>1. \A u \in SUBSET D : f[u] = At(u)
      OBVIOUS
    <3>2. s \ {Max(s)} \in SUBSET D
      OBVIOUS
    <3> HIDE DEF f, At
    <3> QED
      BY <1>4, <1>5, <3>1, <3>2
  <2>2. f = [s \in SUBSET D |-> f[s]]
    OBVIOUS
  <2> HIDE DEF f, At
  <2> QED
    BY <2>1, <2>2
<1> HIDE DEF f
<1> QED
  BY <1>6

LEMMA Folded ==
  ASSUME NEW v \in Views, NEW seq \in Seq(Event)
  PROVE  LET w == FoldLeft(Upsert, v, seq)
         IN  w \in Views /\ w.cursor = v.cursor /\ Outdoes(w, v) /\ Shows(w, seq)
<1> DEFINE n == Len(seq)
           D == DOMAIN seq
           IsFold(f) == f = [s \in SUBSET D |->
                              IF s = {} THEN v ELSE Upsert(f[s \ {Max(s)}], seq[Max(s)])]
           iter == CHOOSE f : IsFold(f)
           Good(w, k) == /\ w \in Views /\ w.cursor = v.cursor /\ Outdoes(w, v)
                         /\ \A i \in 1..k : w.shown[seq[i].key] >= seq[i].version
           S == {k \in 0..n : Good(iter[1..k], k)}
<1>1. n \in Nat /\ D = 1..n /\ \A i \in D : seq[i] \in Event
  OBVIOUS
<1>2. FoldLeft(Upsert, v, seq) = iter[D]
  BY DEF FoldLeft, MapThenFoldSet
<1>3. IsFold(iter)
  <2>1. \E f : IsFold(f)
    BY FoldExists
  <2> HIDE DEF IsFold
  <2> QED
    BY <2>1
<1>4. \A m \in Nat : 0 \in 0..m /\ 1..0 = {}
  OBVIOUS
<1> HIDE DEF iter, n
<1>5. 0 \in S
  <2>1. iter[1..0] = v
    BY <1>3, <1>4
  <2>2. Outdoes(v, v)
    BY DEF Outdoes, Views
  <2> QED
    BY <1>1, <1>4, <2>1, <2>2
<1>6. ASSUME NEW k \in 0..n, k # n, k \in S PROVE k + 1 \in S
  <2>1. k \in Nat /\ k + 1 \in 0..n /\ k + 1 \in 1..n /\ k + 1 \in Int
    BY <1>1, <1>6
  <2> DEFINE s == 1..(k + 1)
             e == seq[k + 1]
             w == iter[1..k]
  <2>2. /\ k + 1 \in 0..n /\ k + 1 \in D /\ s \in SUBSET D /\ s \in SUBSET (0..n) /\ s # {}
        /\ s \ {k + 1} = 1..k /\ k + 1 \in s /\ \A i \in s : i <= k + 1 /\ i \in Int
        /\ k + 1 \in Int
    <3>1. \A i \in 1..(k + 1) : i \in Int /\ i <= k + 1 /\ i \in 1..n /\ i \in 0..n
      BY <1>1, <2>1
    <3>2. k + 1 \in 1..(k + 1)
      BY <2>1
    <3>3. \A i : i \in (1..(k + 1)) \ {k + 1} <=> i \in 1..k
      BY <2>1
    <3>4. (1..(k + 1)) \ {k + 1} = 1..k
      BY <3>3
    <3> QED
      BY <1>1, <2>1, <3>1, <3>2, <3>4
  <2>3. Max(s) = k + 1
    <3>1. Max(s) \in s /\ \A i \in s : i <= Max(s)
      <4> HIDE DEF s
      <4> QED
        BY <1>1, <2>2, Maximum
    <3> HIDE DEF s
    <3> QED
      BY <2>2, <3>1
  <2>4. iter[s] = Upsert(w, e)
    <3> HIDE DEF s
    <3> QED
      BY <1>3, <2>2, <2>3
  <2>5. Good(w, k) /\ e \in Event
    BY <1>1, <1>6, <2>2
  <2> DEFINE up == Upsert(w, e)
  <2>6. /\ up \in Views /\ up.cursor = w.cursor
        /\ \A c \in Calls : up.shown[c] = IF c = e.key /\ e.version >= w.shown[c]
                                          THEN e.version ELSE w.shown[c]
    <3> HIDE DEF w, e
    <3> QED
      BY <2>5, Upserted
  <2>7. /\ \A c \in Calls : w.shown[c] \in Int /\ v.shown[c] \in Int
        /\ e.key \in Calls /\ e.version \in Int
    BY <2>5 DEF Views, Event, Over
  <2> HIDE DEF w, e, up
  <2>8. Outdoes(up, w) /\ up.shown[e.key] >= e.version
    BY <2>6, <2>7 DEF Outdoes
  <2>9. \A c \in Calls : up.shown[c] \in Int
    BY <2>6 DEF Views, Over
  <2>10. Outdoes(up, v)
    BY <2>5, <2>7, <2>8, <2>9 DEF Outdoes
  <2>11. ASSUME NEW i \in 1..(k + 1) PROVE up.shown[seq[i].key] >= seq[i].version
    <3>1. CASE i = k + 1
      BY <2>8, <3>1 DEF e
    <3>2. CASE i # k + 1
      <4>1. i \in 1..k /\ i \in D
        BY <2>2, <3>2
      <4>2. seq[i].key \in Calls /\ seq[i].version \in Int
        BY <1>1, <4>1 DEF Event
      <4>3. w.shown[seq[i].key] >= seq[i].version
        BY <2>5, <4>1
      <4> QED
        BY <2>7, <2>8, <2>9, <4>2, <4>3 DEF Outdoes
    <3> QED
      BY <3>1, <3>2
  <2>12. Good(up, k + 1)
    BY <2>5, <2>6, <2>10, <2>11
  <2> QED
    BY <2>2, <2>4, <2>12 DEF up
<1>7. n \in S
  <2>1. n \in 0..n
    BY <1>1
  <2> HIDE DEF S
  <2> QED
    BY <1>1, <1>5, <1>6, <2>1, Induction
<1> QED
  BY <1>1, <1>2, <1>7 DEF Shows

(* A merged answer: nothing is taken back, the answer is shown, and the    *)
(* cursor is the further one.                                              *)
Answers == [events : Seq(Event), next : Nat]

LEMMA AppliedView ==
  ASSUME NEW v \in Views, NEW answer \in Answers
  PROVE  LET w == Applied(v, answer)
         IN  /\ w \in Views /\ w.cursor = Larger(v.cursor, answer.next)
             /\ Outdoes(w, v) /\ Shows(w, answer.events)
<1> DEFINE u == FoldLeft(Upsert, v, answer.events)
           w == [u EXCEPT !.cursor = Larger(u.cursor, answer.next)]
<1>1. u \in Views /\ u.cursor = v.cursor /\ Outdoes(u, v) /\ Shows(u, answer.events)
  BY Folded DEF Answers
<1>2. Applied(v, answer) = w
  BY DEF Applied
<1> HIDE DEF u
<1>3. Larger(u.cursor, answer.next) \in Nat
  BY <1>1 DEF Views, Answers, Larger
<1>4. w \in Views /\ w.shown = u.shown /\ w.cursor = Larger(u.cursor, answer.next)
  BY <1>1, <1>3 DEF Views
<1> HIDE DEF w
<1> QED
  BY <1>1, <1>2, <1>4 DEF Outdoes, Shows

-----------------------------------------------------------------------------
Events == Seq(Event)

(* Up to its cursor a view shows every row of the log l, or a later        *)
(* version; an answer from a cursor on brings what is stored beyond it.    *)
Honest(v, l) ==
  /\ v.cursor <= Len(l)
  /\ \A i \in 1..v.cursor : v.shown[l[i].key] >= l[i].version

Brings(events, e) == \E j \in DOMAIN events : events[j].key = e.key /\ events[j].version >= e.version

Covers(answer, from, l) ==
  /\ answer.next <= Len(l)
  /\ \A i \in 1..answer.next : i > from => Brings(answer.events, l[i])

(* The versions of a call are stored in the order in which they were made. *)
Ordered ==
  /\ \A i, j \in DOMAIN log : i < j /\ log[i].key = log[j].key => log[i].version <= log[j].version
  /\ \A i \in DOMAIN log, j \in DOMAIN queue :
       log[i].key = queue[j].key => log[i].version <= queue[j].version
  /\ \A i, j \in DOMAIN queue :
       i < j /\ queue[i].key = queue[j].key => queue[i].version <= queue[j].version
  /\ \A i \in DOMAIN log : log[i].version <= made[log[i].key]
  /\ \A i \in DOMAIN queue : queue[i].version <= made[queue[i].key]

(* A replay asks from where the client is, or was before.                  *)
ReplaysComplete ==
  \A n \in Connections :
    /\ replays[n].at \in {"asked", "answered"} => replays[n].after <= view.cursor
    /\ replays[n].at = "answered" => Covers(replays[n].answer, replays[n].after, log)

BootComplete ==
  boot.at # "none" => /\ Honest(boot.baseline, log)
                      /\ boot.at = "answered" => Covers(boot.answer, 0, log)

(* There is a replay once there is a connection.                           *)
OneReplayEach ==
  \A n \in Connections :
    n > Connection \/ (n = Connection /\ ~connected) => replays[n].at = "none"

(* What was sent on after this connection's replay was answered is shown   *)
(* or on the wire; once it has landed, everything that was ever sent is.   *)
Sent(i)     == ~(stored /\ i = Len(log) /\ log[i] = Head(queue))
OnItsWay(e) == view.shown[e.key] >= e.version \/ Brings(wire, e)

CaughtUp ==
  connected =>
    /\ replays[Connection].at = "answered" =>
         \A i \in DOMAIN log : i > replays[Connection].answer.next /\ Sent(i) => OnItsWay(log[i])
    /\ replays[Connection].at = "landed" =>
         \A i \in DOMAIN log : Sent(i) => OnItsWay(log[i])

(* The types, the cursors being numbers.                                   *)
Replay == [at : {"none", "due", "asked", "answered", "landed"}, after : Nat, answer : Answers]
Boot   == [at : {"none", "asked", "answered"}, baseline : Views, answer : Answers]

TimelineTyped ==
  /\ made \in [Calls -> 0..Over]
  /\ queue \in Events /\ log \in Events /\ wire \in Events
  /\ stored \in BOOLEAN /\ connected \in BOOLEAN
  /\ stored => queue # <<>>
  /\ view \in Views
  /\ replays \in [Connections -> Replay]
  /\ boot \in Boot
  /\ used \in [drops : 0..MaxDrops, boots : 0..MaxBoots, crashes : 0..MaxCrashes,
               unstored : 0..MaxUnstored]

(* Every cursor is the number of a row.                                    *)
Within ==
  /\ boot.baseline.cursor <= Len(log) /\ boot.answer.next <= Len(log)
  /\ \A n \in Connections : replays[n].after <= Len(log) /\ replays[n].answer.next <= Len(log)

TimelineInv ==
  /\ TimelineTyped /\ Within
  /\ Ordered
  /\ Honest(view, log)
  /\ ReplaysComplete
  /\ BootComplete
  /\ OneReplayEach
  /\ CaughtUp

-----------------------------------------------------------------------------
(* A finite set in a sequence: every element has a place.                  *)
LEMMA InSequence ==
  ASSUME NEW S, IsFiniteSet(S)
  PROVE  /\ SetToSeq(S) \in Seq(S)
         /\ \A x \in S : \E i \in DOMAIN SetToSeq(S) : SetToSeq(S)[i] = x
<1> DEFINE n == Cardinality(S)
           f == CHOOSE g \in [1..n -> S] : IsInjective(g)
<1>1. n \in Nat /\ ExistsBijection(1..n, S)
  BY FS_CardinalityType
<1>2. SetToSeq(S) = f
  BY DEF SetToSeq
<1>3. f \in [1..n -> S] /\ IsInjective(f)
  <2>1. \E g \in [1..n -> S] : IsInjective(g)
    <3> HIDE DEF n
    <3> QED
      BY <1>1 DEF ExistsBijection, Bijection, Injection
  <2> QED
    BY <2>1
<1> HIDE DEF f
<1>4. IsFiniteSet(1..n) /\ Cardinality(1..n) = n
  <2>1. IsFiniteSet(1..n) /\ Cardinality(1..n) = IF 1 > n THEN 0 ELSE n - 1 + 1
    <3> HIDE DEF n
    <3> QED
      BY <1>1, FS_Interval
  <2> HIDE DEF n
  <2> QED
    BY <1>1, <2>1
<1>5. f \in Surjection(1..n, S)
  <2>1. f \in Injection(1..n, S)
    BY <1>3 DEF Injection
  <2>2. Cardinality(1..n) = Cardinality(S)
    BY <1>4
  <2> HIDE DEF n
  <2> QED
    BY <2>1, <2>2, FS_Injection
<1>6. \A x \in S : \E i \in 1..n : f[i] = x
  BY <1>5 DEF Surjection
<1> HIDE DEF n
<1>7. DOMAIN f = 1..n /\ f \in Seq(S)
  BY <1>1, <1>3
<1> QED
  BY <1>2, <1>6, <1>7

(* A snapshot brings every row, or a later version: the last row of each   *)
(* call is the latest.                                                     *)
LEMMA SnapshotComplete ==
  ASSUME log \in Events, Ordered
  PROVE  Snapshot \in Answers /\ Snapshot.next = Len(log) /\ Covers(Snapshot, 0, log)
<1> DEFINE n == Len(log)
           rows == SetToSeq(LastRows)
           events == [i \in DOMAIN rows |-> log[rows[i]]]
<1>1. n \in Nat /\ DOMAIN log = 1..n /\ \A i \in DOMAIN log : log[i] \in Event
  BY DEF Events
<1>2. IsFiniteSet(LastRows)
  <2>1. IsFiniteSet(1..n)
    <3> HIDE DEF n
    <3> QED
      BY <1>1, FS_Interval
  <2> QED
    BY <1>1, <2>1, FS_Subset DEF LastRows
<1>3. /\ rows \in Seq(LastRows)
      /\ \A i \in LastRows : \E j \in DOMAIN rows : rows[j] = i
  BY <1>2, InSequence
<1> HIDE DEF rows
<1>4. LastRows \subseteq DOMAIN log
  BY DEF LastRows
<1>5. events \in Seq(Event)
  <2>1. \A j \in DOMAIN rows : events[j] \in Event
    BY <1>1, <1>3, <1>4
  <2> QED
    BY <1>3, <2>1
<1>6. Snapshot = [events |-> events, next |-> n]
  BY DEF Snapshot, rows
<1>7. ASSUME NEW i \in DOMAIN log PROVE Brings(events, log[i])
  <2> DEFINE Same == {j \in DOMAIN log : log[j].key = log[i].key}
             last == Max(Same)
  <2>1. last \in Same /\ \A j \in Same : j <= last
    <3>1. Same \in SUBSET (0..n) /\ i \in Same
      BY <1>1
    <3> HIDE DEF Same, n
    <3> QED
      BY <1>1, <3>1, Maximum
  <2> HIDE DEF last
  <2>2. last \in LastRows
    BY <2>1 DEF LastRows
  <2>3. PICK j \in DOMAIN rows : rows[j] = last
    BY <1>3, <2>2
  <2>4. events[j] = log[last] /\ j \in DOMAIN events
    BY <2>3
  <2>5. log[last].version >= log[i].version
    <3>1. last \in DOMAIN log /\ i \in DOMAIN log /\ i <= last /\ log[last].key = log[i].key
      BY <2>1
    <3>2. log[i].version \in Int /\ log[last].version \in Int /\ i \in Int /\ last \in Int
      BY <1>1, <3>1 DEF Event
    <3>3. CASE i = last
      BY <3>2, <3>3
    <3>4. CASE i # last
      <4>1. i < last
        BY <3>1, <3>2, <3>4
      <4>2. log[i].version <= log[last].version
        BY <3>1, <4>1 DEF Ordered
      <4> QED
        BY <3>2, <4>2
    <3> QED
      BY <3>3, <3>4
  <2> HIDE DEF events
  <2> QED
    BY <2>1, <2>4, <2>5 DEF Brings
<1> HIDE DEF events
<1>8. Snapshot \in Answers
  BY <1>1, <1>5, <1>6 DEF Answers
<1>9. Covers(Snapshot, 0, log)
  BY <1>1, <1>6, <1>7 DEF Covers
<1> QED
  BY <1>6, <1>8, <1>9

LEMMA RowsComplete ==
  ASSUME log \in Events, Ordered, NEW cursor \in Nat, cursor <= Len(log)
  PROVE  /\ Rows(cursor) \in Answers /\ Rows(cursor).next = Len(log)
         /\ Covers(Rows(cursor), cursor, log)
<1>1. CASE cursor = 0
  BY <1>1, SnapshotComplete DEF Rows
<1>2. CASE cursor # 0
  <2> DEFINE n == Len(log)
             events == SubSeq(log, cursor + 1, n)
  <2>1. Rows(cursor) = [events |-> events, next |-> n]
    BY <1>2 DEF Rows
  <2>2. n \in Nat /\ DOMAIN log = 1..n
    BY DEF Events
  <2>3. /\ events \in Seq(Event) /\ DOMAIN events = 1..(n - cursor)
        /\ \A j \in 1..(n - cursor) : events[j] = log[cursor + j]
    <3> DEFINE m == cursor + 1
    <3>1. m \in Int /\ n \in Int /\ \A i \in m..n : log[i] \in Event
      <4>1. \A i \in m..n : i \in 1..n
        BY <2>2
      <4>2. \A i \in 1..n : log[i] \in Event
        BY <2>2 DEF Events
      <4> HIDE DEF n
      <4> QED
        BY <2>2, <4>1, <4>2
    <3>2. n - m + 1 = n - cursor /\ \A j \in Int : m + j - 1 = cursor + j
      BY <2>2
    <3>3. m <= n => n - cursor > 0
      BY <2>2
    <3>4. ~(m <= n) => n - cursor = 0
      <4>1. \A j, k \in Nat : j <= k /\ ~(j + 1 <= k) => k - j = 0
        OBVIOUS
      <4> QED
        BY <2>2, <4>1
    <3> HIDE DEF m, n
    <3>5. /\ SubSeq(log, m, n) \in Seq(Event)
          /\ Len(SubSeq(log, m, n)) = IF m <= n THEN n - m + 1 ELSE 0
          /\ \A j \in 1..(n - m + 1) : SubSeq(log, m, n)[j] = log[m + j - 1]
      BY <3>1, SubSeqProperties
    <3>6. Len(events) = n - cursor
      BY <3>2, <3>3, <3>4, <3>5 DEF m
    <3>7. \A j \in 1..(n - cursor) : events[j] = log[cursor + j]
      <4>1. ASSUME NEW j \in 1..(n - cursor)
            PROVE  SubSeq(log, m, n)[j] = log[m + j - 1] /\ m + j - 1 = cursor + j
        BY <3>2, <3>5
      <4>2. events = SubSeq(log, m, n)
        BY DEF m
      <4> QED
        BY <4>1, <4>2
    <3>8. events \in Seq(Event)
      BY <3>5 DEF m
    <3> HIDE DEF events
    <3>9. DOMAIN events = 1..Len(events)
      BY <3>8
    <3> QED
      BY <3>6, <3>7, <3>8, <3>9
  <2> HIDE DEF events
  <2>4. ASSUME NEW i \in 1..n, i > cursor PROVE Brings(events, log[i])
    <3>1. i - cursor \in 1..(n - cursor) /\ cursor + (i - cursor) = i
      BY <2>2, <2>4
    <3>2. i - cursor \in DOMAIN events /\ events[i - cursor] = log[i]
      BY <2>3, <3>1
    <3>3. log[i].version >= log[i].version
      <4>1. log[i] \in Event
        BY <2>2 DEF Events
      <4> QED
        BY <4>1 DEF Event
    <3> QED
      BY <3>2, <3>3 DEF Brings
  <2>5. Rows(cursor) \in Answers
    BY <2>1, <2>2, <2>3 DEF Answers
  <2>6. Covers(Rows(cursor), cursor, log)
    BY <2>1, <2>2, <2>4 DEF Covers
  <2> QED
    BY <2>1, <2>5, <2>6
<1> QED
  BY <1>1, <1>2

-----------------------------------------------------------------------------
(* What a view shows, taken as an answer, gives another view all of it.    *)
LEMMA ShownAnswer ==
  ASSUME NEW v \in Views
  PROVE  /\ Shown(v) \in Answers /\ Shown(v).next = v.cursor
         /\ \A w \in Views : Shows(w, Shown(v).events) => Outdoes(w, v)
<1> DEFINE S == {c \in Calls : v.shown[c] # 0}
           calls == SetToSeq(S)
           events == [i \in DOMAIN calls |-> [key |-> calls[i], version |-> v.shown[calls[i]]]]
<1>1. IsFiniteSet(S)
  BY TimelineAssumption, FS_Subset
<1>2. calls \in Seq(S) /\ \A c \in S : \E i \in DOMAIN calls : calls[i] = c
  <2> HIDE DEF S
  <2> QED
    BY <1>1, InSequence
<1> HIDE DEF calls
<1>3. Shown(v) = [events |-> events, next |-> v.cursor]
  BY DEF Shown, calls
<1>4. events \in Seq(Event)
  <2>1. \A c \in S : [key |-> c, version |-> v.shown[c]] \in Event
    BY DEF Views, Event, Over
  <2>2. \A i \in DOMAIN calls : calls[i] \in S
    BY <1>2
  <2>3. \A i \in DOMAIN calls : events[i] \in Event
    BY <2>1, <2>2
  <2> QED
    BY <1>2, <2>3
<1>5. ASSUME NEW w \in Views, Shows(w, events), NEW c \in Calls
      PROVE  w.shown[c] >= v.shown[c]
  <2>1. CASE c \in S
    <3>1. PICK i \in DOMAIN calls : calls[i] = c
      BY <1>2, <2>1
    <3> QED
      BY <1>5, <3>1 DEF Shows
  <2>2. CASE c \notin S
    BY <2>2 DEF Views, Over
  <2> QED
    BY <2>1, <2>2
<1> HIDE DEF events
<1> QED
  BY <1>3, <1>4, <1>5 DEF Answers, Outdoes, Views

LEMMA OutdoesTrans ==
  ASSUME NEW u \in Views, NEW v \in Views, NEW w \in Views, Outdoes(w, v), Outdoes(v, u)
  PROVE  Outdoes(w, u)
BY DEF Outdoes, Views, Over

LEMMA MergedView ==
  ASSUME NEW new \in Views, NEW baseline \in Views, NEW now \in Views
  PROVE  LET w == Merged(new, baseline, now)
         IN  /\ w \in Views
             /\ w.cursor = Larger(Larger(new.cursor, baseline.cursor), now.cursor)
             /\ Outdoes(w, new) /\ Outdoes(w, baseline) /\ Outdoes(w, now)
<1> DEFINE u == Applied(new, Shown(baseline))
           w == Applied(u, Shown(now))
<1>1. /\ u \in Views /\ u.cursor = Larger(new.cursor, baseline.cursor)
      /\ Outdoes(u, new) /\ Outdoes(u, baseline)
  BY AppliedView, ShownAnswer
<1> HIDE DEF u
<1>2. /\ w \in Views /\ w.cursor = Larger(u.cursor, now.cursor)
      /\ Outdoes(w, u) /\ Outdoes(w, now)
  BY <1>1, AppliedView, ShownAnswer
<1>3. Merged(new, baseline, now) = w
  BY DEF Merged, u
<1> HIDE DEF w
<1> QED
  BY <1>1, <1>2, <1>3, OutdoesTrans

-----------------------------------------------------------------------------
LEMMA Blank ==
  /\ EmptyView \in Views /\ NoAnswer \in Answers /\ NoReplay \in Replay /\ NoBoot \in Boot
  /\ EmptyView.cursor = 0 /\ NoReplay.at = "none" /\ NoReplay.after = 0
  /\ NoReplay.answer.next = 0 /\ NoBoot.at = "none"
  /\ NoBoot.baseline.cursor = 0 /\ NoBoot.answer.next = 0
<1>1. <<>> \in Seq(Event)
  OBVIOUS
<1> QED
  BY <1>1 DEF EmptyView, Views, NoAnswer, Answers, NoReplay, Replay, NoBoot, Boot, Over

LEMMA EventAt ==
  ASSUME NEW l \in Events, NEW i \in DOMAIN l
  PROVE  /\ l[i] \in Event /\ l[i].key \in Calls
         /\ l[i].version \in 1..Over /\ l[i].version \in Int
<1>1. l[i] \in Event
  BY DEF Events
<1> QED
  BY <1>1 DEF Event

LEMMA ThisConnection ==
  ASSUME TimelineTyped
  PROVE  /\ Connection \in Connections /\ Connection \in Nat /\ Connections \subseteq Nat
         /\ used.drops < MaxDrops => Connection + 1 \in Connections
BY TimelineAssumption DEF TimelineTyped, Connection, Connections

(* A longer log keeps what was true of the shorter one.                    *)
LEMMA Longer ==
  ASSUME NEW l \in Events, NEW e \in Event
  PROVE  LET g == Append(l, e)
         IN  /\ g \in Events /\ Len(g) = Len(l) + 1 /\ g[Len(g)] = e
             /\ DOMAIN l = 1..Len(l) /\ DOMAIN g = 1..Len(g) /\ Len(l) \in Nat
             /\ \A i \in DOMAIN l : i \in DOMAIN g /\ g[i] = l[i]
             /\ \A i \in DOMAIN g : i \in DOMAIN l \/ i = Len(g)
BY DEF Events

LEMMA StillHonest ==
  ASSUME NEW l \in Events, NEW e \in Event, NEW v \in Views, Honest(v, l)
  PROVE  Honest(v, Append(l, e))
<1> DEFINE g == Append(l, e)
<1>1. /\ Len(g) = Len(l) + 1 /\ DOMAIN l = 1..Len(l) /\ Len(l) \in Nat
      /\ \A i \in DOMAIN l : g[i] = l[i]
  BY Longer
<1> HIDE DEF g
<1>2. v.cursor \in Nat /\ v.cursor <= Len(l)
  BY DEF Views, Honest
<1>3. v.cursor <= Len(g) /\ \A i \in 1..v.cursor : i \in DOMAIN l
  BY <1>1, <1>2
<1>4. Honest(v, g)
  BY <1>1, <1>3 DEF Honest
<1> QED
  BY <1>4 DEF g

LEMMA StillComplete ==
  ASSUME NEW l \in Events, NEW e \in Event, NEW answer \in Answers, NEW from,
         Covers(answer, from, l)
  PROVE  Covers(answer, from, Append(l, e))
<1> DEFINE g == Append(l, e)
<1>1. /\ Len(g) = Len(l) + 1 /\ DOMAIN l = 1..Len(l) /\ Len(l) \in Nat
      /\ \A i \in DOMAIN l : g[i] = l[i]
  BY Longer
<1> HIDE DEF g
<1>2. answer.next \in Nat /\ answer.next <= Len(l)
  BY DEF Answers, Covers
<1>3. answer.next <= Len(g) /\ \A i \in 1..answer.next : i \in DOMAIN l
  BY <1>1, <1>2
<1>4. Covers(answer, from, g)
  BY <1>1, <1>3 DEF Covers
<1> QED
  BY <1>4 DEF g

(* What an honest view and a complete answer from there on show together.  *)
LEMMA AnswerLands ==
  ASSUME NEW l \in Events, NEW v \in Views, Honest(v, l),
         NEW answer \in Answers, NEW from \in Nat, from <= v.cursor, Covers(answer, from, l)
  PROVE  LET w == Applied(v, answer)
         IN  /\ w \in Views /\ Outdoes(w, v) /\ Shows(w, answer.events)
             /\ w.cursor >= v.cursor /\ Honest(w, l)
             /\ \A i \in 1..answer.next : w.shown[l[i].key] >= l[i].version
<1> DEFINE w == Applied(v, answer)
<1>1. /\ w \in Views /\ w.cursor = Larger(v.cursor, answer.next)
      /\ Outdoes(w, v) /\ Shows(w, answer.events)
  BY AppliedView
<1> HIDE DEF w
<1>2. /\ v.cursor \in Nat /\ answer.next \in Nat /\ w.cursor \in Nat /\ Len(l) \in Nat
      /\ v.cursor <= Len(l) /\ answer.next <= Len(l)
      /\ DOMAIN l = 1..Len(l)
      /\ \A c \in Calls : w.shown[c] \in Int /\ v.shown[c] \in Int
  <2>1. v.cursor \in Nat /\ answer.next \in Nat /\ w.cursor \in Nat
        /\ \A c \in Calls : w.shown[c] \in Int /\ v.shown[c] \in Int
    BY <1>1 DEF Views, Answers, Over
  <2>2. Len(l) \in Nat /\ DOMAIN l = 1..Len(l)
    BY DEF Events
  <2> QED
    BY <2>1, <2>2 DEF Honest, Covers
<1>3. /\ w.cursor >= v.cursor /\ w.cursor >= answer.next /\ w.cursor <= Len(l)
      /\ w.cursor = v.cursor \/ w.cursor = answer.next
  BY <1>1, <1>2 DEF Larger
<1>4. ASSUME NEW i \in DOMAIN l, i <= v.cursor \/ i <= answer.next
      PROVE  w.shown[l[i].key] >= l[i].version
  <2>1. l[i].key \in Calls /\ l[i].version \in Int /\ i \in Nat /\ i >= 1
    BY <1>2, EventAt
  <2>2. CASE i <= v.cursor
    <3>1. v.shown[l[i].key] >= l[i].version
      BY <1>2, <2>1, <2>2 DEF Honest
    <3> QED
      BY <1>1, <1>2, <2>1, <3>1 DEF Outdoes
  <2>3. CASE i <= answer.next /\ ~(i <= v.cursor)
    <3>1. i > from /\ i \in 1..answer.next
      BY <1>2, <2>1, <2>3
    <3>2. PICK j \in DOMAIN answer.events : /\ answer.events[j].key = l[i].key
                                            /\ answer.events[j].version >= l[i].version
      BY <3>1 DEF Covers, Brings
    <3>3. answer.events[j].version \in Int
      BY EventAt DEF Answers, Events
    <3>4. w.shown[l[i].key] >= answer.events[j].version
      BY <1>1, <3>2 DEF Shows
    <3> QED
      BY <1>2, <2>1, <3>2, <3>3, <3>4
  <2> QED
    BY <1>4, <2>2, <2>3
<1>5. /\ \A i \in 1..answer.next : i \in DOMAIN l /\ i <= answer.next
      /\ \A i \in 1..w.cursor : i \in DOMAIN l /\ (i <= v.cursor \/ i <= answer.next)
  BY <1>2, <1>3
<1>6. Honest(w, l)
  BY <1>3, <1>4, <1>5 DEF Honest
<1> QED
  BY <1>1, <1>3, <1>4, <1>5, <1>6 DEF w

(* Of honest views, the one that outdoes them all is honest as far as any  *)
(* of them was.                                                            *)
LEMMA HonestMerge ==
  ASSUME NEW l \in Events, NEW new \in Views, NEW baseline \in Views, NEW now \in Views,
         Honest(new, l), Honest(baseline, l), Honest(now, l)
  PROVE  LET w == Merged(new, baseline, now)
         IN  w \in Views /\ Outdoes(w, now) /\ w.cursor >= now.cursor /\ Honest(w, l)
<1> DEFINE w == Merged(new, baseline, now)
<1>1. /\ w \in Views
      /\ w.cursor = Larger(Larger(new.cursor, baseline.cursor), now.cursor)
      /\ Outdoes(w, new) /\ Outdoes(w, baseline) /\ Outdoes(w, now)
  BY MergedView
<1> HIDE DEF w
<1>2. \A v \in Views : v.cursor \in Nat
  BY DEF Views
<1>3. /\ w.cursor >= now.cursor
      /\ \E v \in {new, baseline, now} : w.cursor = v.cursor
  BY <1>1, <1>2 DEF Larger
<1>4. PICK v \in {new, baseline, now} : w.cursor = v.cursor
  BY <1>3
<1>5. Honest(v, l) /\ Outdoes(w, v) /\ v \in Views
  BY <1>1
<1>6. v.cursor \in Nat /\ v.cursor <= Len(l) /\ Len(l) \in Nat /\ DOMAIN l = 1..Len(l)
  BY <1>2, <1>5 DEF Honest, Events
<1>7. ASSUME NEW i \in 1..w.cursor PROVE w.shown[l[i].key] >= l[i].version
  <2>1. i \in 1..v.cursor /\ i \in DOMAIN l
    BY <1>4, <1>6
  <2>2. v.shown[l[i].key] >= l[i].version
    BY <1>5, <2>1 DEF Honest
  <2>3. l[i].key \in Calls /\ l[i].version \in Int
    BY <2>1, EventAt
  <2>4. \A c \in Calls : w.shown[c] \in Int /\ v.shown[c] \in Int
    BY <1>1, <1>5 DEF Views, Over
  <2> QED
    BY <1>5, <2>2, <2>3, <2>4 DEF Outdoes
<1>8. Honest(w, l)
  BY <1>4, <1>6, <1>7 DEF Honest
<1> QED
  BY <1>1, <1>3, <1>8 DEF w

-----------------------------------------------------------------------------
LEMMA TimelineInitially == TimelineInit => TimelineInv
<1> SUFFICES ASSUME TimelineInit PROVE TimelineInv
  OBVIOUS
<1>1. TimelineTyped
  <2>1. used \in [drops : 0..MaxDrops, boots : 0..MaxBoots, crashes : 0..MaxCrashes,
                  unstored : 0..MaxUnstored]
    BY TimelineAssumption DEF TimelineInit
  <2>2. <<>> \in Events
    BY DEF Events
  <2>3. made \in [Calls -> 0..Over]
    BY DEF TimelineInit, Over
  <2>4. view \in Views /\ boot \in Boot /\ replays \in [Connections -> Replay]
    BY Blank DEF TimelineInit
  <2> QED
    BY <2>1, <2>2, <2>3, <2>4 DEF TimelineTyped, TimelineInit
<1>2. Len(log) = 0 /\ DOMAIN log = {} /\ DOMAIN queue = {}
  BY DEF TimelineInit
<1>3. \A n \in Connections : replays[n] = NoReplay
  BY DEF TimelineInit
<1>4. view = EmptyView /\ boot = NoBoot /\ connected = FALSE
  BY DEF TimelineInit
<1>5. Within /\ ReplaysComplete /\ OneReplayEach /\ BootComplete /\ CaughtUp
  BY <1>2, <1>3, <1>4, Blank DEF Within, ReplaysComplete, OneReplayEach, BootComplete, CaughtUp
<1>6. Honest(view, log)
  BY <1>2, <1>4, Blank DEF Honest
<1>7. Ordered
  BY <1>2 DEF Ordered
<1> QED
  BY <1>1, <1>5, <1>6, <1>7 DEF TimelineInv

LEMMA PublishKeeps ==
  ASSUME TimelineInv, NEW c \in Calls, NEW version \in 1..Over, version >= made[c],
         Publish(c, version)
  PROVE  TimelineInv'
<1> DEFINE e == [key |-> c, version |-> version]
<1>1. /\ made' = [made EXCEPT ![c] = version] /\ queue' = Append(queue, e)
      /\ UNCHANGED <<stored, log, connected, wire, view, replays, boot, used>>
  BY DEF Publish
<1>2. e \in Event
  BY DEF Event
<1>3. queue \in Events /\ log \in Events /\ made \in [Calls -> 0..Over]
  BY DEF TimelineInv, TimelineTyped
<1>4. /\ queue' \in Events /\ Len(queue') = Len(queue) + 1 /\ queue'[Len(queue')] = e
      /\ DOMAIN queue = 1..Len(queue) /\ DOMAIN queue' = 1..Len(queue') /\ Len(queue) \in Nat
      /\ \A i \in DOMAIN queue : i \in DOMAIN queue' /\ queue'[i] = queue[i]
      /\ \A i \in DOMAIN queue' : i \in DOMAIN queue \/ i = Len(queue')
  BY <1>1, <1>2, <1>3, Longer
<1>5. made' \in [Calls -> 0..Over] /\ \A d \in Calls : made[d] \in Int /\ made'[d] \in Int /\ made[d] <= made'[d]
  BY <1>1, <1>3 DEF Over
<1>6. TimelineTyped'
  <2>1. queue' # <<>>
    BY <1>1
  <2> QED
    BY <1>1, <1>4, <1>5, <2>1 DEF TimelineInv, TimelineTyped
<1>7. Ordered'
  <2>1. \A i \in DOMAIN log : /\ log[i].version <= made[log[i].key]
                              /\ log[i].key \in Calls /\ log[i].version \in Int
    BY <1>3, EventAt DEF TimelineInv, Ordered
  <2>2. \A i \in DOMAIN queue : /\ queue[i].version <= made[queue[i].key]
                                /\ queue[i].key \in Calls /\ queue[i].version \in Int
    BY <1>3, EventAt DEF TimelineInv, Ordered
  <2>3. e.key = c /\ e.version = version /\ version \in Int /\ made'[c] = version
    BY <1>1, <1>3 DEF Over
  <2>4. \A i \in DOMAIN log : log[i].version <= made'[log[i].key]
    BY <1>5, <2>1
  <2>5. \A i \in DOMAIN queue' : queue'[i].version <= made'[queue'[i].key]
    BY <1>4, <1>5, <2>2, <2>3
  <2>6. \A i \in DOMAIN log, j \in DOMAIN queue' :
          log[i].key = queue'[j].key => log[i].version <= queue'[j].version
    BY <1>4, <2>3, <2>4 DEF TimelineInv, Ordered
  <2>7. ASSUME NEW i \in DOMAIN queue', NEW j \in DOMAIN queue', i < j, queue'[i].key = queue'[j].key
        PROVE  queue'[i].version <= queue'[j].version
    <3>1. i \in DOMAIN queue
      BY <1>4, <2>7
    <3>2. CASE j \in DOMAIN queue
      BY <1>4, <2>7, <3>1, <3>2 DEF TimelineInv, Ordered
    <3>3. CASE j = Len(queue')
      BY <1>4, <2>3, <2>5, <2>7, <3>1, <3>3
    <3> QED
      BY <1>4, <3>2, <3>3
  <2> QED
    BY <1>1, <2>4, <2>5, <2>6, <2>7 DEF TimelineInv, Ordered
<1>8. CaughtUp'
  <2>1. stored => Head(queue') = Head(queue)
    <3>1. stored => queue # <<>>
      BY DEF TimelineInv, TimelineTyped
    <3>2. queue # <<>> => 1 \in DOMAIN queue
      BY <1>3 DEF Events
    <3> QED
      BY <1>1, <1>3, <1>4, <3>1, <3>2 DEF Events
  <2>2. ASSUME NEW i \in DOMAIN log PROVE Sent(i)' => Sent(i)
    BY <1>1, <2>1 DEF Sent
  <2>3. Connection' = Connection /\ \A i \in DOMAIN log : OnItsWay(log[i])' <=> OnItsWay(log[i])
    BY <1>1 DEF Connection, OnItsWay
  <2> QED
    BY <1>1, <2>2, <2>3 DEF TimelineInv, CaughtUp
<1>9. Connection' = Connection
  BY <1>1 DEF Connection
<1>10. Within' /\ ReplaysComplete' /\ OneReplayEach' /\ BootComplete' /\ Honest(view', log')
  BY <1>1, <1>9 DEF TimelineInv, Within, ReplaysComplete, OneReplayEach, BootComplete
<1> QED
  BY <1>6, <1>7, <1>8, <1>10 DEF TimelineInv

LEMMA PersistKeeps == TimelineInv /\ Persist => TimelineInv'
<1> SUFFICES ASSUME TimelineInv, Persist PROVE TimelineInv'
  OBVIOUS
<1> DEFINE e == Head(queue)
<1>1. /\ queue # <<>> /\ ~stored /\ stored' = TRUE
      /\ UNCHANGED <<made, queue, connected, wire, view, replays, boot>>
  BY DEF Persist
<1>2. queue \in Events /\ log \in Events /\ made \in [Calls -> 0..Over]
  BY DEF TimelineInv, TimelineTyped
<1>3. 1 \in DOMAIN queue /\ e = queue[1] /\ e \in Event /\ DOMAIN queue = 1..Len(queue)
  BY <1>1, <1>2 DEF Events
<1>4. CASE log' = log /\ used' = [used EXCEPT !.unstored = @ + 1] /\ used.unstored < MaxUnstored
  <2>1. TimelineTyped'
    <3>1. used' \in [drops : 0..MaxDrops, boots : 0..MaxBoots, crashes : 0..MaxCrashes,
                     unstored : 0..MaxUnstored]
      <4>1. used \in [drops : 0..MaxDrops, boots : 0..MaxBoots, crashes : 0..MaxCrashes,
                      unstored : 0..MaxUnstored]
        BY DEF TimelineInv, TimelineTyped
      <4>2. used.unstored + 1 \in 0..MaxUnstored
        BY <1>4, <4>1, TimelineAssumption
      <4> QED
        BY <1>4, <4>1, <4>2
    <3> QED
      BY <1>1, <1>4, <3>1 DEF TimelineInv, TimelineTyped
  <2>2. Connection' = Connection
    BY <1>4 DEF Connection, TimelineInv, TimelineTyped
  <2>3. \A i \in DOMAIN log : Sent(i)
    BY <1>1 DEF Sent
  <2>4. \A i \in DOMAIN log : OnItsWay(log[i])' <=> OnItsWay(log[i])
    BY <1>1, <1>4 DEF OnItsWay
  <2>5. CaughtUp'
    BY <1>1, <1>4, <2>2, <2>3, <2>4 DEF TimelineInv, CaughtUp
  <2>6. Within' /\ ReplaysComplete' /\ OneReplayEach' /\ BootComplete' /\ Honest(view', log') /\ Ordered'
    BY <1>1, <1>4, <2>2 DEF TimelineInv, Within, ReplaysComplete, OneReplayEach, BootComplete, Ordered
  <2> QED
    BY <2>1, <2>5, <2>6 DEF TimelineInv
<1>5. CASE log' = Append(log, e) /\ used' = used
  <2>1. /\ log' \in Events /\ Len(log') = Len(log) + 1 /\ log'[Len(log')] = e
        /\ DOMAIN log = 1..Len(log) /\ DOMAIN log' = 1..Len(log') /\ Len(log) \in Nat
        /\ \A i \in DOMAIN log : i \in DOMAIN log' /\ log'[i] = log[i]
        /\ \A i \in DOMAIN log' : i \in DOMAIN log \/ i = Len(log')
    BY <1>2, <1>3, <1>5, Longer
  <2>2. TimelineTyped'
    BY <1>1, <1>5, <2>1 DEF TimelineInv, TimelineTyped
  <2>3. Connection' = Connection
    BY <1>5 DEF Connection
  <2>4. Ordered'
    <3>1. \A i \in DOMAIN queue : queue[i].version \in Int
      BY <1>2, EventAt
    <3>2. \A i \in DOMAIN log, j \in DOMAIN queue :
            log[i].key = queue[j].key => log[i].version <= queue[j].version
      BY DEF TimelineInv, Ordered
    <3>3. \A j \in DOMAIN queue : e.key = queue[j].key => e.version <= queue[j].version
      <4> SUFFICES ASSUME NEW j \in DOMAIN queue, e.key = queue[j].key PROVE e.version <= queue[j].version
        OBVIOUS
      <4>1. CASE j = 1
        BY <1>3, <3>1, <4>1
      <4>2. CASE j # 1
        <5>1. 1 < j
          BY <1>3, <4>2
        <5> QED
          BY <1>3, <5>1 DEF TimelineInv, Ordered
      <4> QED
        BY <4>1, <4>2
    <3>4. e.version <= made[e.key]
      BY <1>3 DEF TimelineInv, Ordered
    <3>5. ASSUME NEW i \in DOMAIN log', NEW j \in DOMAIN log', i < j, log'[i].key = log'[j].key
          PROVE  log'[i].version <= log'[j].version
      <4>1. i \in DOMAIN log
        BY <2>1, <3>5
      <4>2. CASE j \in DOMAIN log
        BY <2>1, <3>5, <4>1, <4>2 DEF TimelineInv, Ordered
      <4>3. CASE j = Len(log')
        BY <1>3, <2>1, <3>2, <3>5, <4>1, <4>3
      <4> QED
        BY <2>1, <4>2, <4>3
    <3>6. \A i \in DOMAIN log', j \in DOMAIN queue :
            log'[i].key = queue[j].key => log'[i].version <= queue[j].version
      BY <2>1, <3>2, <3>3
    <3>7. \A i \in DOMAIN log' : log'[i].version <= made[log'[i].key]
      BY <2>1, <3>4 DEF TimelineInv, Ordered
    <3> QED
      BY <1>1, <3>5, <3>6, <3>7 DEF TimelineInv, Ordered
  <2>5. CaughtUp'
    <3>1. ASSUME NEW i \in DOMAIN log', Sent(i)' PROVE i \in DOMAIN log /\ Sent(i)
      <4>1. i # Len(log')
        BY <1>1, <2>1, <3>1 DEF Sent
      <4> QED
        BY <1>1, <2>1, <4>1 DEF Sent
    <3>2. \A i \in DOMAIN log : OnItsWay(log[i]) => OnItsWay(log[i])'
      BY <1>1, <2>1 DEF OnItsWay
    <3>3. UNCHANGED <<connected, replays>>
      BY <1>1
    <3> QED
      BY <2>3, <3>1, <3>2, <3>3 DEF TimelineInv, CaughtUp
  <2>6. Within'
    <3>1. /\ boot.baseline.cursor \in Nat /\ boot.answer.next \in Nat
          /\ \A n \in Connections : replays[n].after \in Nat /\ replays[n].answer.next \in Nat
      <4>1. boot \in Boot /\ \A n \in Connections : replays[n] \in Replay
        BY DEF TimelineInv, TimelineTyped
      <4> QED
        BY <4>1 DEF Boot, Replay, Views, Answers
    <3>2. \A k \in Nat : k <= Len(log) => k <= Len(log')
      BY <2>1
    <3> QED
      BY <1>1, <3>1, <3>2 DEF TimelineInv, Within
  <2>7. Honest(view', log')
    BY <1>1, <1>2, <1>3, <1>5, StillHonest DEF TimelineInv, TimelineTyped
  <2>8. ReplaysComplete'
    <3>1. \A n \in Connections : replays[n].answer \in Answers
      <4>1. \A n \in Connections : replays[n] \in Replay
        BY DEF TimelineInv, TimelineTyped
      <4> QED
        BY <4>1 DEF Replay
    <3> QED
      BY <1>1, <1>2, <1>3, <1>5, <3>1, StillComplete DEF TimelineInv, ReplaysComplete
  <2>9. BootComplete'
    <3>1. boot.baseline \in Views /\ boot.answer \in Answers
      BY DEF TimelineInv, TimelineTyped, Boot
    <3> QED
      BY <1>1, <1>2, <1>3, <1>5, <3>1, StillHonest, StillComplete DEF TimelineInv, BootComplete
  <2>10. OneReplayEach'
    BY <1>1, <2>3 DEF TimelineInv, OneReplayEach
  <2> QED
    BY <2>2, <2>4, <2>5, <2>6, <2>7, <2>8, <2>9, <2>10 DEF TimelineInv
<1> QED
  BY <1>4, <1>5 DEF Persist

LEMMA EmitKeeps == TimelineInv /\ Emit => TimelineInv'
<1> SUFFICES ASSUME TimelineInv, Emit PROVE TimelineInv'
  OBVIOUS
<1> DEFINE e == Head(queue)
<1>1. /\ stored /\ queue' = Tail(queue) /\ stored' = FALSE
      /\ wire' = IF connected THEN Append(wire, e) ELSE wire
      /\ UNCHANGED <<made, log, connected, view, replays, boot, used>>
  BY DEF Emit
<1>2. /\ queue \in Events /\ log \in Events /\ wire \in Events /\ queue # <<>>
  BY <1>1 DEF TimelineInv, TimelineTyped
<1>3. e \in Event
  BY <1>2 DEF Events
<1>4. /\ queue' \in Events /\ DOMAIN queue = 1..Len(queue) /\ DOMAIN queue' = 1..Len(queue')
      /\ \A i \in DOMAIN queue' : i \in Int /\ i + 1 \in DOMAIN queue /\ queue'[i] = queue[i + 1]
  <2>1. /\ Tail(queue) \in Seq(Event) /\ Len(Tail(queue)) = Len(queue) - 1 /\ Len(queue) \in Nat
        /\ \A i \in 1..Len(Tail(queue)) : Tail(queue)[i] = queue[i + 1]
    BY <1>2, HeadTailProperties DEF Events
  <2>2. DOMAIN queue = 1..Len(queue) /\ DOMAIN queue' = 1..Len(queue') /\ queue' \in Events
    BY <1>1, <1>2, <2>1 DEF Events
  <2>3. \A i \in 1..(Len(queue) - 1) : i \in Int /\ i + 1 \in 1..Len(queue)
    BY <2>1
  <2> QED
    BY <1>1, <2>1, <2>2, <2>3
<1>5. /\ wire' \in Events
      /\ \A d : Brings(wire, d) => Brings(wire', d)
      /\ connected => \A d \in Event : d = e => Brings(wire', d)
  <2>1. CASE connected
    <3>1. /\ wire' \in Events /\ wire'[Len(wire')] = e /\ Len(wire') \in DOMAIN wire'
          /\ \A i \in DOMAIN wire : i \in DOMAIN wire' /\ wire'[i] = wire[i]
      BY <1>1, <1>2, <1>3, <2>1, Longer
    <3>2. e.version >= e.version
      BY <1>3 DEF Event
    <3> QED
      BY <3>1, <3>2 DEF Brings
  <2>2. CASE ~connected
    BY <1>1, <1>2, <2>2
  <2> QED
    BY <2>1, <2>2
<1>6. TimelineTyped'
  BY <1>1, <1>4, <1>5 DEF TimelineInv, TimelineTyped
<1>7. Ordered'
  <2>1. \A i, j \in DOMAIN queue' : i < j => i + 1 < j + 1
    BY <1>4
  <2>2. \A i, j \in DOMAIN queue' :
          i < j /\ queue'[i].key = queue'[j].key => queue'[i].version <= queue'[j].version
    BY <1>4, <2>1 DEF TimelineInv, Ordered
  <2>3. \A i \in DOMAIN log, j \in DOMAIN queue' :
          log[i].key = queue'[j].key => log[i].version <= queue'[j].version
    BY <1>4 DEF TimelineInv, Ordered
  <2>4. \A i \in DOMAIN queue' : queue'[i].version <= made[queue'[i].key]
    BY <1>4 DEF TimelineInv, Ordered
  <2> QED
    BY <1>1, <2>2, <2>3, <2>4 DEF TimelineInv, Ordered
<1>8. CaughtUp'
  <2>1. ASSUME connected, NEW i \in DOMAIN log, Sent(i) => OnItsWay(log[i]) PROVE OnItsWay(log[i])'
    <3>1. CASE Sent(i)
      BY <1>1, <1>5, <2>1, <3>1 DEF OnItsWay
    <3>2. CASE ~Sent(i)
      <4>1. log[i] = e /\ log[i] \in Event
        BY <1>2, <3>2, EventAt DEF Sent
      <4>2. Brings(wire', log[i])
        BY <1>5, <2>1, <4>1
      <4> QED
        BY <1>1, <4>2 DEF OnItsWay
    <3> QED
      BY <3>1, <3>2
  <2>2. UNCHANGED <<connected, log, replays>> /\ Connection' = Connection
    BY <1>1 DEF Connection
  <2> HIDE DEF e
  <2> QED
    BY <2>1, <2>2 DEF TimelineInv, CaughtUp
<1>9. Connection' = Connection
  BY <1>1 DEF Connection
<1>10. Within' /\ ReplaysComplete' /\ OneReplayEach' /\ BootComplete' /\ Honest(view', log')
  BY <1>1, <1>9 DEF TimelineInv, Within, ReplaysComplete, OneReplayEach, BootComplete
<1> QED
  BY <1>6, <1>7, <1>8, <1>10 DEF TimelineInv

LEMMA CrashKeeps == TimelineInv /\ Crash => TimelineInv'
<1> SUFFICES ASSUME TimelineInv, Crash PROVE TimelineInv'
  OBVIOUS
<1>1. /\ connected => used.drops < MaxDrops
      /\ used' = [used EXCEPT !.crashes = @ + 1, !.drops = IF connected THEN @ + 1 ELSE @]
      /\ made' = [c \in Calls |-> IF made[c] = 0 THEN 0 ELSE Over]
      /\ queue' = <<>> /\ stored' = FALSE /\ connected' = FALSE /\ wire' = <<>>
      /\ replays' = [n \in Connections |-> IF replays[n].at = "asked" THEN NoReplay ELSE replays[n]]
      /\ boot' = IF boot.at = "asked" THEN NoBoot ELSE boot
      /\ UNCHANGED <<log, view>> /\ used.crashes < MaxCrashes
  BY DEF Crash
<1>2. TimelineTyped
  BY DEF TimelineInv
<1>3. TimelineTyped'
  <2>1. used' \in [drops : 0..MaxDrops, boots : 0..MaxBoots, crashes : 0..MaxCrashes,
                   unstored : 0..MaxUnstored]
    <3>1. used \in [drops : 0..MaxDrops, boots : 0..MaxBoots, crashes : 0..MaxCrashes,
                    unstored : 0..MaxUnstored]
      BY <1>2 DEF TimelineTyped
    <3>2. /\ used.crashes + 1 \in 0..MaxCrashes
          /\ (IF connected THEN used.drops + 1 ELSE used.drops) \in 0..MaxDrops
      BY <1>1, <3>1, TimelineAssumption
    <3> QED
      BY <1>1, <3>1, <3>2
  <2>2. <<>> \in Events
    BY DEF Events
  <2>3. made' \in [Calls -> 0..Over]
    BY <1>1 DEF Over
  <2>4. boot' \in Boot /\ replays' \in [Connections -> Replay]
    BY <1>1, <1>2, Blank DEF TimelineTyped
  <2> QED
    BY <1>1, <1>2, <2>1, <2>2, <2>3, <2>4 DEF TimelineTyped
<1>4. Ordered'
  <2>1. \A i \in DOMAIN log : log[i].version <= made'[log[i].key]
    <3> SUFFICES ASSUME NEW i \in DOMAIN log PROVE log[i].version <= made'[log[i].key]
      OBVIOUS
    <3>1. log[i].key \in Calls /\ log[i].version \in 1..Over
      BY <1>2, EventAt DEF TimelineTyped
    <3>2. log[i].version <= made[log[i].key] /\ made[log[i].key] \in 0..Over
      BY <1>2, <3>1 DEF TimelineInv, Ordered, TimelineTyped
    <3>3. made[log[i].key] # 0
      BY <3>1, <3>2 DEF Over
    <3>4. made'[log[i].key] = Over
      BY <1>1, <3>1, <3>3
    <3> QED
      BY <3>1, <3>4 DEF Over
  <2>2. DOMAIN queue' = {}
    BY <1>1
  <2> QED
    BY <1>1, <2>1, <2>2 DEF TimelineInv, Ordered
<1>5. Connection' = IF connected THEN Connection + 1 ELSE Connection
  BY <1>1, <1>2 DEF Connection, TimelineTyped
<1>6. Connection \in Nat /\ Connections \subseteq Nat
  BY <1>2, ThisConnection
<1>7. \A n \in Connections : replays'[n] = replays[n] \/ replays'[n] = NoReplay
  BY <1>1
<1>8. OneReplayEach'
  <2>1. \A n \in Connections :
          n > Connection' \/ n = Connection' => n > Connection \/ (n = Connection /\ ~connected)
    BY <1>5, <1>6
  <2> QED
    BY <1>7, <2>1, Blank DEF TimelineInv, OneReplayEach
<1>9. Within'
  <2>1. Len(log) \in Nat
    BY <1>2 DEF TimelineTyped, Events
  <2> QED
    BY <1>1, <1>7, <2>1, Blank DEF TimelineInv, Within
<1>10. ReplaysComplete'
  BY <1>1, <1>7, Blank DEF TimelineInv, ReplaysComplete
<1>11. BootComplete'
  BY <1>1, Blank DEF TimelineInv, BootComplete
<1>12. CaughtUp' /\ Honest(view', log')
  BY <1>1 DEF TimelineInv, CaughtUp
<1> QED
  BY <1>3, <1>4, <1>8, <1>9, <1>10, <1>11, <1>12 DEF TimelineInv

(* A view that only gains keeps what was shown or on the wire.             *)
LEMMA StillOnItsWay ==
  ASSUME TimelineTyped, view' \in Views, Outdoes(view', view),
         \A e \in Event : Brings(wire, e) => Brings(wire', e) \/ view'.shown[e.key] >= e.version
  PROVE  \A e \in Event : OnItsWay(e) => OnItsWay(e)'
<1> SUFFICES ASSUME NEW e \in Event, OnItsWay(e) PROVE OnItsWay(e)'
  OBVIOUS
<1>1. e.key \in Calls /\ e.version \in Int
  BY DEF Event
<1>2. view.shown[e.key] \in Int /\ view'.shown[e.key] \in Int
  <2>1. view \in Views
    BY DEF TimelineTyped
  <2> QED
    BY <1>1, <2>1 DEF Views, Over
<1>3. view'.shown[e.key] >= view.shown[e.key]
  BY <1>1 DEF Outdoes
<1>4. CASE view.shown[e.key] >= e.version
  BY <1>1, <1>2, <1>3, <1>4 DEF OnItsWay
<1>5. CASE Brings(wire, e)
  BY <1>5 DEF OnItsWay
<1> QED
  BY <1>4, <1>5 DEF OnItsWay

(* The client moves: it gains, and one of its replays goes on.             *)
LEMMA ClientKeeps ==
  ASSUME TimelineInv, UNCHANGED <<serverVars, connected, used>>,
         view' \in Views, Outdoes(view', view), view'.cursor >= view.cursor, Honest(view', log),
         wire' \in Events,
         \A e \in Event : Brings(wire, e) => Brings(wire', e) \/ view'.shown[e.key] >= e.version,
         boot' \in Boot, boot'.baseline.cursor <= Len(log), boot'.answer.next <= Len(log),
         BootComplete',
         replays' \in [Connections -> Replay],
         \A n \in Connections : replays'[n] # replays[n] =>
           /\ replays[n].at # "none"
           /\ replays'[n].after <= Len(log) /\ replays'[n].answer.next <= Len(log)
           /\ replays'[n].at \in {"asked", "answered"} => replays'[n].after <= view'.cursor
           /\ replays'[n].at = "answered" =>
                /\ Covers(replays'[n].answer, replays'[n].after, log)
                /\ replays'[n].answer.next = Len(log)
           /\ replays'[n].at = "landed" =>
                /\ replays[n].at = "answered"
                /\ \A i \in 1..replays[n].answer.next : view'.shown[log[i].key] >= log[i].version
  PROVE  TimelineInv'
<1>1. TimelineTyped
  BY DEF TimelineInv
<1>2. /\ UNCHANGED <<made, queue, stored, log, connected, used>> /\ Connection' = Connection
      /\ log \in Events /\ DOMAIN log = 1..Len(log) /\ Len(log) \in Nat
  BY <1>1 DEF serverVars, Connection, TimelineTyped, Events
<1>3. \A e \in Event : OnItsWay(e) => OnItsWay(e)'
  BY <1>1, StillOnItsWay
<1>4. \A i \in DOMAIN log : log[i] \in Event
  BY <1>2, EventAt
<1>5. TimelineTyped'
  BY <1>1, <1>2 DEF TimelineTyped
<1>6. Within'
  BY <1>2 DEF TimelineInv, Within
<1>7. Ordered' /\ Honest(view', log')
  BY <1>2 DEF TimelineInv, Ordered
<1>8. ReplaysComplete'
  <2> SUFFICES ASSUME NEW n \in Connections
               PROVE  /\ replays'[n].at \in {"asked", "answered"} => replays'[n].after <= view'.cursor
                      /\ replays'[n].at = "answered" =>
                           Covers(replays'[n].answer, replays'[n].after, log)
    BY <1>2 DEF ReplaysComplete
  <2>1. CASE replays'[n] = replays[n]
    <3>1. replays[n].after \in Int /\ view.cursor \in Int /\ view'.cursor \in Int
      <4>1. replays[n] \in Replay /\ view \in Views
        BY <1>1 DEF TimelineTyped
      <4> QED
        BY <4>1 DEF Replay, Views
    <3> QED
      BY <2>1, <3>1 DEF TimelineInv, ReplaysComplete
  <2>2. CASE replays'[n] # replays[n]
    BY <2>2
  <2> QED
    BY <2>1, <2>2
<1>9. OneReplayEach'
  BY <1>2 DEF TimelineInv, OneReplayEach
<1>10. CaughtUp'
  <2> DEFINE r == replays[Connection]
             q == replays'[Connection]
  <2> SUFFICES ASSUME connected, NEW i \in DOMAIN log, Sent(i),
                      \/ q.at = "answered" /\ i > q.answer.next
                      \/ q.at = "landed"
               PROVE  OnItsWay(log[i])'
    <3>1. \A i \in DOMAIN log : Sent(i)' <=> Sent(i)
      BY <1>2 DEF Sent
    <3> QED
      BY <1>2, <3>1 DEF CaughtUp
  <2>1. Connection \in Connections
    BY <1>1, ThisConnection
  <2>2. OnItsWay(log[i]) => OnItsWay(log[i])'
    BY <1>2, <1>3, <1>4 DEF OnItsWay
  <2>3. CASE q = r
    <3>1. OnItsWay(log[i])
      BY <2>3 DEF TimelineInv, CaughtUp
    <3> QED
      BY <2>2, <3>1
  <2>4. CASE q # r /\ q.at = "answered"
    <3>1. i > Len(log)
      BY <2>1, <2>4
    <3> QED
      BY <1>2, <3>1
  <2>5. CASE q # r /\ q.at = "landed"
    <3>1. /\ r.at = "answered"
          /\ \A k \in 1..r.answer.next : view'.shown[log[k].key] >= log[k].version
      BY <2>1, <2>5
    <3>2. r.answer.next \in Nat
      <4>1. r \in Replay
        BY <1>1, <2>1 DEF TimelineTyped
      <4> QED
        BY <4>1 DEF Replay, Answers
    <3>3. CASE i > r.answer.next
      <4>1. OnItsWay(log[i])
        BY <3>1, <3>3 DEF TimelineInv, CaughtUp
      <4> QED
        BY <2>2, <4>1
    <3>4. CASE ~(i > r.answer.next)
      <4>1. i \in 1..r.answer.next
        BY <1>2, <3>2, <3>4
      <4>2. view'.shown[log[i].key] >= log[i].version
        BY <3>1, <4>1
      <4> QED
        BY <1>2, <4>2 DEF OnItsWay
    <3> QED
      BY <3>3, <3>4
  <2> QED
    BY <2>3, <2>4, <2>5
<1> QED
  BY <1>5, <1>6, <1>7, <1>8, <1>9, <1>10 DEF TimelineInv

(* Nothing moves but what is shown, the replays and the bootstrap.         *)
LEMMA Standing ==
  ASSUME TimelineInv
  PROVE  /\ view \in Views /\ Outdoes(view, view) /\ view.cursor >= view.cursor
         /\ Honest(view, log) /\ view.cursor <= Len(log) /\ view.cursor \in Nat
         /\ log \in Events /\ Ordered /\ wire \in Events
         /\ boot \in Boot /\ boot.baseline.cursor <= Len(log) /\ boot.answer.next <= Len(log)
         /\ replays \in [Connections -> Replay]
         /\ \A n \in Connections : replays[n].after <= Len(log) /\ replays[n].answer.next <= Len(log)
<1>1. TimelineTyped /\ Within /\ Honest(view, log) /\ Ordered
  BY DEF TimelineInv
<1>2. view \in Views /\ log \in Events /\ wire \in Events /\ boot \in Boot
      /\ replays \in [Connections -> Replay]
  BY <1>1 DEF TimelineTyped
<1>3. view.cursor \in Nat /\ \A c \in Calls : view.shown[c] \in Int
  BY <1>2 DEF Views, Over
<1> QED
  BY <1>1, <1>2, <1>3 DEF Within, Honest, Outdoes

LEMMA ConnectKeeps == TimelineInv /\ Connect => TimelineInv'
<1> SUFFICES ASSUME TimelineInv, Connect PROVE TimelineInv'
  OBVIOUS
<1>1. /\ ~connected /\ connected' = TRUE
      /\ replays' = [replays EXCEPT ![Connection].at = "due"]
      /\ UNCHANGED <<made, queue, stored, log, wire, view, boot, used>>
  BY DEF Connect, serverVars
<1>2. TimelineTyped /\ Connection \in Connections /\ Connection' = Connection
  BY <1>1, ThisConnection DEF TimelineInv, Connection
<1>3. replays \in [Connections -> Replay]
  BY <1>2 DEF TimelineTyped
<1>4. /\ replays' \in [Connections -> Replay]
      /\ replays'[Connection].at = "due"
      /\ replays'[Connection].after = replays[Connection].after
      /\ replays'[Connection].answer = replays[Connection].answer
      /\ \A n \in Connections \ {Connection} : replays'[n] = replays[n]
  BY <1>1, <1>2, <1>3 DEF Replay
<1>5. TimelineTyped'
  BY <1>1, <1>2, <1>4 DEF TimelineTyped
<1>6. Within' /\ ReplaysComplete'
  BY <1>1, <1>4 DEF TimelineInv, Within, ReplaysComplete
<1>7. OneReplayEach'
  <2>1. Connection \in Nat /\ Connections \subseteq Nat
    BY <1>2, ThisConnection
  <2> QED
    BY <1>1, <1>2, <1>4, <2>1 DEF TimelineInv, OneReplayEach
<1>8. CaughtUp'
  BY <1>2, <1>4 DEF CaughtUp
<1>9. Ordered' /\ BootComplete' /\ Honest(view', log')
  BY <1>1 DEF TimelineInv, Ordered, BootComplete
<1> QED
  BY <1>5, <1>6, <1>7, <1>8, <1>9 DEF TimelineInv

LEMMA DeliverKeeps == TimelineInv /\ Deliver => TimelineInv'
<1> SUFFICES ASSUME TimelineInv, Deliver PROVE TimelineInv'
  OBVIOUS
<1> DEFINE e == Head(wire)
           w == Upsert(view, e)
<1>1. /\ wire # <<>> /\ view' = w /\ wire' = Tail(wire)
      /\ UNCHANGED <<serverVars, connected, replays, boot, used>>
  BY DEF Deliver
<1>2. wire \in Events /\ view \in Views /\ Honest(view, log) /\ log \in Events
  BY Standing
<1>3. e \in Event
  BY <1>1, <1>2 DEF Events
<1>4. /\ w \in Views /\ w.cursor = view.cursor
      /\ \A c \in Calls : w.shown[c] = IF c = e.key /\ e.version >= view.shown[c]
                                       THEN e.version ELSE view.shown[c]
  BY <1>2, <1>3, Upserted
<1> HIDE DEF w
<1>5. \A c \in Calls : w.shown[c] \in Int /\ view.shown[c] \in Int
  BY <1>2, <1>4 DEF Views, Over
<1>6. e.key \in Calls /\ e.version \in Int
  BY <1>3 DEF Event
<1>7. Outdoes(w, view) /\ w.shown[e.key] >= e.version
  BY <1>4, <1>5, <1>6 DEF Outdoes
<1>8. /\ wire' \in Events
      /\ \A j \in DOMAIN wire : wire[j] = e \/ \E k \in DOMAIN wire' : wire'[k] = wire[j]
  <2>1. /\ Tail(wire) \in Seq(Event) /\ Len(Tail(wire)) = Len(wire) - 1 /\ Len(wire) \in Nat
        /\ \A i \in 1..Len(Tail(wire)) : Tail(wire)[i] = wire[i + 1]
        /\ wire[1] = e
    BY <1>1, <1>2, HeadTailProperties DEF Events
  <2>2. DOMAIN wire = 1..Len(wire) /\ DOMAIN wire' = 1..(Len(wire) - 1)
    BY <1>1, <1>2, <2>1 DEF Events
  <2>3. ASSUME NEW j \in DOMAIN wire, j # 1 PROVE j - 1 \in DOMAIN wire' /\ wire'[j - 1] = wire[j]
    <3>1. j - 1 \in 1..(Len(wire) - 1) /\ (j - 1) + 1 = j
      BY <2>1, <2>2, <2>3
    <3> QED
      BY <1>1, <2>1, <2>2, <3>1
  <2> QED
    BY <1>1, <2>1, <2>3 DEF Events
<1>9. \A d \in Event : Brings(wire, d) => Brings(wire', d) \/ w.shown[d.key] >= d.version
  <2> SUFFICES ASSUME NEW d \in Event, NEW j \in DOMAIN wire,
                      wire[j].key = d.key, wire[j].version >= d.version
               PROVE  Brings(wire', d) \/ w.shown[d.key] >= d.version
    BY DEF Brings
  <2>1. CASE wire[j] = e
    <3>1. d.version \in Int
      BY DEF Event
    <3> QED
      BY <1>5, <1>6, <1>7, <2>1, <3>1
  <2>2. CASE wire[j] # e
    BY <1>8, <2>2 DEF Brings
  <2> QED
    BY <2>1, <2>2
<1>10. Honest(w, log)
  <2>1. view.cursor \in Nat /\ view.cursor <= Len(log) /\ DOMAIN log = 1..Len(log) /\ Len(log) \in Nat
    BY <1>2 DEF Views, Honest, Events
  <2>2. ASSUME NEW i \in 1..view.cursor PROVE w.shown[log[i].key] >= log[i].version
    <3>1. i \in DOMAIN log
      BY <2>1
    <3>2. log[i].key \in Calls /\ log[i].version \in Int
      BY <1>2, <3>1, EventAt
    <3>3. view.shown[log[i].key] >= log[i].version
      BY <1>2 DEF Honest
    <3> QED
      BY <1>5, <1>7, <3>2, <3>3 DEF Outdoes
  <2> QED
    BY <1>4, <2>1, <2>2 DEF Honest
<1>11. BootComplete'
  BY <1>1 DEF TimelineInv, BootComplete, serverVars
<1>12. w.cursor >= view.cursor
  BY <1>4, Standing
<1> HIDE DEF e
<1> QED
  BY <1>1, <1>4, <1>7, <1>8, <1>9, <1>10, <1>11, <1>12, Standing, ClientKeeps

LEMMA DropKeeps == TimelineInv /\ Drop => TimelineInv'
<1> SUFFICES ASSUME TimelineInv, Drop PROVE TimelineInv'
  OBVIOUS
<1>1. /\ connected /\ used.drops < MaxDrops /\ connected' = FALSE /\ wire' = <<>>
      /\ used' = [used EXCEPT !.drops = @ + 1]
      /\ UNCHANGED <<made, queue, stored, log, view, replays, boot>>
  BY DEF Drop, serverVars
<1>2. TimelineTyped
  BY DEF TimelineInv
<1>3. TimelineTyped' /\ Connection' = Connection + 1
  <2>1. used \in [drops : 0..MaxDrops, boots : 0..MaxBoots, crashes : 0..MaxCrashes,
                  unstored : 0..MaxUnstored]
    BY <1>2 DEF TimelineTyped
  <2>2. used.drops + 1 \in 0..MaxDrops
    BY <1>1, <2>1, TimelineAssumption
  <2>3. /\ used' \in [drops : 0..MaxDrops, boots : 0..MaxBoots, crashes : 0..MaxCrashes,
                      unstored : 0..MaxUnstored]
        /\ used'.drops = used.drops + 1
    BY <1>1, <2>1, <2>2
  <2>4. <<>> \in Events
    BY DEF Events
  <2> QED
    BY <1>1, <1>2, <2>3, <2>4 DEF TimelineTyped, Connection
<1>4. OneReplayEach'
  <2>1. Connection \in Nat /\ Connections \subseteq Nat
    BY <1>2, ThisConnection
  <2>2. \A n \in Connections : n > Connection + 1 \/ n = Connection + 1 => n > Connection
    BY <2>1
  <2> QED
    BY <1>1, <1>3, <2>2 DEF TimelineInv, OneReplayEach
<1>5. Within' /\ ReplaysComplete' /\ Ordered' /\ BootComplete' /\ Honest(view', log') /\ CaughtUp'
  BY <1>1 DEF TimelineInv, Within, ReplaysComplete, Ordered, BootComplete, CaughtUp
<1> QED
  BY <1>3, <1>4, <1>5 DEF TimelineInv

LEMMA ReloadKeeps == TimelineInv /\ Reload => TimelineInv'
<1> SUFFICES ASSUME TimelineInv, Reload PROVE TimelineInv'
  OBVIOUS
<1>1. /\ connected /\ used.drops < MaxDrops /\ connected' = FALSE /\ wire' = <<>>
      /\ view' = EmptyView /\ boot' = NoBoot
      /\ replays' = [n \in Connections |-> NoReplay]
      /\ used' = [used EXCEPT !.drops = @ + 1]
      /\ UNCHANGED <<made, queue, stored, log>>
  BY DEF Reload, serverVars
<1>2. TimelineTyped
  BY DEF TimelineInv
<1>3. TimelineTyped'
  <2>1. used \in [drops : 0..MaxDrops, boots : 0..MaxBoots, crashes : 0..MaxCrashes,
                  unstored : 0..MaxUnstored]
    BY <1>2 DEF TimelineTyped
  <2>2. used.drops + 1 \in 0..MaxDrops
    BY <1>1, <2>1, TimelineAssumption
  <2>3. used' \in [drops : 0..MaxDrops, boots : 0..MaxBoots, crashes : 0..MaxCrashes,
                   unstored : 0..MaxUnstored]
    BY <1>1, <2>1, <2>2
  <2>4. <<>> \in Events
    BY DEF Events
  <2>5. replays' \in [Connections -> Replay]
    BY <1>1, Blank
  <2> QED
    BY <1>1, <1>2, <2>3, <2>4, <2>5, Blank DEF TimelineTyped
<1>4. Len(log) \in Nat
  BY <1>2 DEF TimelineTyped, Events
<1>5. \A n \in Connections : replays'[n] = NoReplay
  BY <1>1
<1>6. Within' /\ ReplaysComplete' /\ OneReplayEach' /\ BootComplete'
  BY <1>1, <1>4, <1>5, Blank DEF Within, ReplaysComplete, OneReplayEach, BootComplete
<1>7. Honest(view', log')
  BY <1>1, <1>4, Blank DEF Honest
<1>8. Ordered' /\ CaughtUp'
  BY <1>1 DEF TimelineInv, Ordered, CaughtUp
<1> QED
  BY <1>3, <1>6, <1>7, <1>8 DEF TimelineInv

LEMMA ReplayKeeps ==
  ASSUME TimelineInv, NEW n \in Connections,
         AskReplay(n) \/ AnswerReplay(n) \/ LandReplay(n) \/ LoseReplay(n)
  PROVE  TimelineInv'
<1> DEFINE r == replays[n]
<1>1. r \in Replay /\ r.after \in Nat /\ r.answer \in Answers
  <2>1. r \in Replay
    BY Standing
  <2> QED
    BY <2>1 DEF Replay
<1>2. BootComplete
  BY DEF TimelineInv
<1>3. /\ \A k \in Nat : k <= Len(log) => 0 <= Len(log)
      /\ 0 <= Len(log)
  BY Standing DEF Events
<1>4. ASSUME NEW q \in Replay, Goto(n, q), view' \in Views, Outdoes(view', view),
             view'.cursor >= view.cursor, Honest(view', log),
             r.at # "none", q.after <= Len(log), q.answer.next <= Len(log),
             q.at \in {"asked", "answered"} => q.after <= view'.cursor,
             q.at = "answered" => Covers(q.answer, q.after, log) /\ q.answer.next = Len(log),
             q.at = "landed" =>
               /\ r.at = "answered"
               /\ \A i \in 1..r.answer.next : view'.shown[log[i].key] >= log[i].version
      PROVE  TimelineInv'
  <2>1. /\ replays' = [replays EXCEPT ![n] = q]
        /\ UNCHANGED <<serverVars, connected, wire, boot, used>>
    BY <1>4 DEF Goto
  <2>2. /\ replays' \in [Connections -> Replay] /\ replays'[n] = q
        /\ \A k \in Connections : replays'[k] # replays[k] => k = n
    BY <2>1, Standing
  <2>3. BootComplete'
    BY <1>2, <2>1 DEF BootComplete, serverVars
  <2> QED
    BY <1>4, <2>1, <2>2, <2>3, Standing, ClientKeeps
<1>5. CASE AskReplay(n)
  <2> DEFINE q == [NoReplay EXCEPT !.at = "asked", !.after = view.cursor]
  <2>1. q \in Replay /\ q.at = "asked" /\ q.after = view.cursor /\ q.answer.next = 0
    BY Blank, Standing DEF Replay
  <2>2. r.at = "due" /\ Goto(n, q) /\ view' = view
    BY <1>5 DEF AskReplay
  <2> HIDE DEF q
  <2> QED
    BY <1>3, <1>4, <2>1, <2>2, Standing
<1>6. CASE AnswerReplay(n)
  <2> DEFINE q == [r EXCEPT !.at = "answered", !.answer = Rows(r.after)]
  <2>1. r.at = "asked" /\ Goto(n, q) /\ view' = view
    BY <1>6 DEF AnswerReplay
  <2>2. /\ Rows(r.after) \in Answers /\ Rows(r.after).next = Len(log)
        /\ Covers(Rows(r.after), r.after, log)
    BY <1>1, Standing, RowsComplete
  <2>3. q \in Replay /\ q.at = "answered" /\ q.after = r.after /\ q.answer = Rows(r.after)
    BY <1>1, <2>2 DEF Replay
  <2>4. r.after <= view.cursor /\ r.after <= Len(log)
    BY <2>1, Standing DEF TimelineInv, ReplaysComplete
  <2>5. Len(log) <= Len(log)
    BY Standing DEF Events
  <2> HIDE DEF q, r
  <2> QED
    BY <1>4, <2>1, <2>2, <2>3, <2>4, <2>5, Standing
<1>7. CASE LandReplay(n)
  <2> DEFINE q == [NoReplay EXCEPT !.at = "landed"]
             w == Applied(view, r.answer)
  <2>1. r.at = "answered" /\ Goto(n, q) /\ view' = w
    BY <1>7 DEF LandReplay
  <2>2. q \in Replay /\ q.at = "landed" /\ q.after = 0 /\ q.answer.next = 0
    BY Blank DEF Replay
  <2>3. r.after <= view.cursor /\ Covers(r.answer, r.after, log)
    BY <2>1 DEF TimelineInv, ReplaysComplete
  <2> HIDE DEF q
  <2>4. /\ w \in Views /\ Outdoes(w, view) /\ w.cursor >= view.cursor /\ Honest(w, log)
        /\ \A i \in 1..r.answer.next : w.shown[log[i].key] >= log[i].version
    <3> HIDE DEF r
    <3> QED
      BY <1>1, <2>3, Standing, AnswerLands
  <2> HIDE DEF w, r
  <2> QED
    BY <1>3, <1>4, <2>1, <2>2, <2>4
<1>8. CASE LoseReplay(n)
  <2>1. r.at # "none" /\ Goto(n, NoReplay) /\ view' = view
    BY <1>8 DEF LoseReplay
  <2> QED
    BY <1>3, <1>4, <2>1, Blank, Standing
<1> QED
  BY <1>5, <1>6, <1>7, <1>8

LEMMA BootstrapKeeps ==
  ASSUME TimelineInv, AnswerBootstrap \/ LandBootstrap \/ LoseBootstrap
  PROVE  TimelineInv'
<1>1. ASSUME UNCHANGED <<serverVars, connected, wire, replays, used>>,
             view' \in Views, Outdoes(view', view), view'.cursor >= view.cursor, Honest(view', log),
             boot' \in Boot, boot'.baseline.cursor <= Len(log), boot'.answer.next <= Len(log),
             BootComplete'
      PROVE  TimelineInv'
  BY <1>1, Standing, ClientKeeps
<1>2. 0 <= Len(log) /\ Len(log) <= Len(log)
  BY Standing DEF Events
<1>3. CASE AnswerBootstrap
  <2>1. /\ boot.at = "asked" /\ boot' = [boot EXCEPT !.at = "answered", !.answer = Snapshot]
        /\ UNCHANGED <<serverVars, connected, wire, view, replays, used>>
    BY <1>3 DEF AnswerBootstrap
  <2>2. Snapshot \in Answers /\ Snapshot.next = Len(log) /\ Covers(Snapshot, 0, log)
    BY Standing, SnapshotComplete
  <2>3. /\ boot' \in Boot /\ boot'.baseline = boot.baseline /\ boot'.answer = Snapshot
    BY <2>1, <2>2, Standing DEF Boot
  <2>4. Honest(boot.baseline, log)
    BY <2>1 DEF TimelineInv, BootComplete
  <2>5. BootComplete'
    BY <2>1, <2>2, <2>3, <2>4 DEF BootComplete, serverVars
  <2> QED
    BY <1>1, <1>2, <2>1, <2>2, <2>3, <2>5, Standing
<1>4. CASE LandBootstrap
  <2> DEFINE new == Applied(EmptyView, boot.answer)
             w == Merged(new, boot.baseline, view)
  <2>1. /\ boot.at = "answered" /\ view' = w /\ boot' = NoBoot
        /\ UNCHANGED <<serverVars, connected, wire, replays, used>>
    BY <1>4 DEF LandBootstrap
  <2>2. /\ Honest(boot.baseline, log) /\ Covers(boot.answer, 0, log)
        /\ boot.baseline \in Views /\ boot.answer \in Answers
    BY <2>1, Standing DEF TimelineInv, BootComplete, Boot
  <2>3. Honest(EmptyView, log)
    BY <1>2, Blank DEF Honest
  <2>4. new \in Views /\ Honest(new, log)
    <3>1. 0 \in Nat /\ 0 <= EmptyView.cursor
      BY Blank
    <3> QED
      BY <2>2, <2>3, <3>1, Blank, Standing, AnswerLands
  <2> HIDE DEF new
  <2>5. w \in Views /\ Outdoes(w, view) /\ w.cursor >= view.cursor /\ Honest(w, log)
    BY <2>2, <2>4, Standing, HonestMerge
  <2>6. BootComplete'
    BY <2>1, Blank DEF BootComplete
  <2> HIDE DEF w
  <2> QED
    BY <1>1, <1>2, <2>1, <2>5, <2>6, Blank
<1>5. CASE LoseBootstrap
  <2>1. boot' = NoBoot /\ UNCHANGED <<serverVars, connected, wire, view, replays, used>>
    BY <1>5 DEF LoseBootstrap
  <2>2. BootComplete'
    BY <2>1, Blank DEF BootComplete
  <2> QED
    BY <1>1, <1>2, <2>1, <2>2, Blank, Standing
<1> QED
  BY <1>3, <1>4, <1>5

LEMMA AskBootstrapKeeps == TimelineInv /\ AskBootstrap => TimelineInv'
<1> SUFFICES ASSUME TimelineInv, AskBootstrap PROVE TimelineInv'
  OBVIOUS
<1>1. /\ used.boots < MaxBoots
      /\ boot' = [NoBoot EXCEPT !.at = "asked", !.baseline = view]
      /\ used' = [used EXCEPT !.boots = @ + 1]
      /\ UNCHANGED <<made, queue, stored, log, connected, wire, view, replays>>
  BY DEF AskBootstrap, serverVars
<1>2. TimelineTyped
  BY DEF TimelineInv
<1>3. used' \in [drops : 0..MaxDrops, boots : 0..MaxBoots, crashes : 0..MaxCrashes,
                 unstored : 0..MaxUnstored] /\ used'.drops = used.drops
  <2>1. used \in [drops : 0..MaxDrops, boots : 0..MaxBoots, crashes : 0..MaxCrashes,
                  unstored : 0..MaxUnstored]
    BY <1>2 DEF TimelineTyped
  <2>2. used.boots + 1 \in 0..MaxBoots
    BY <1>1, <2>1, TimelineAssumption
  <2> QED
    BY <1>1, <2>1, <2>2
<1>4. /\ boot' \in Boot /\ boot'.at = "asked" /\ boot'.baseline = view /\ boot'.answer.next = 0
  BY <1>1, Blank, Standing DEF Boot
<1>5. TimelineTyped'
  BY <1>1, <1>2, <1>3, <1>4 DEF TimelineTyped
<1>6. Connection' = Connection
  BY <1>3 DEF Connection
<1>7. 0 <= Len(log)
  BY Standing DEF Events
<1>8. Within' /\ BootComplete'
  BY <1>1, <1>4, <1>7, Standing DEF Within, BootComplete
<1>9. CaughtUp'
  <2>1. \A i \in DOMAIN log : (Sent(i)' <=> Sent(i)) /\ (OnItsWay(log[i])' <=> OnItsWay(log[i]))
    BY <1>1 DEF Sent, OnItsWay
  <2> QED
    BY <1>1, <1>6, <2>1 DEF TimelineInv, CaughtUp
<1>10. ReplaysComplete' /\ OneReplayEach' /\ Ordered' /\ Honest(view', log')
  BY <1>1, <1>6 DEF TimelineInv, ReplaysComplete, OneReplayEach, Ordered
<1> QED
  BY <1>5, <1>8, <1>9, <1>10 DEF TimelineInv

LEMMA ProgressKeeps ==
  ASSUME TimelineInv, NEW c \in Calls, Progress(c) \/ Refuse(c)
  PROVE  TimelineInv'
<1>1. made[c] \in 0..Over
  BY DEF TimelineInv, TimelineTyped
<1>2. CASE Progress(c)
  <2>1. made[c] + 1 \in 1..Over /\ made[c] + 1 >= made[c]
    BY <1>1, <1>2 DEF Progress, Over
  <2> QED
    BY <1>2, <2>1, PublishKeeps DEF Progress
<1>3. CASE Refuse(c)
  <2>1. Over \in 1..Over /\ Over >= made[c]
    BY <1>1 DEF Over
  <2> QED
    BY <1>3, <2>1, PublishKeeps DEF Refuse
<1> QED
  BY <1>2, <1>3

LEMMA TimelineStutters == TimelineInv /\ UNCHANGED timelineVars => TimelineInv'
<1> SUFFICES ASSUME TimelineInv, UNCHANGED timelineVars PROVE TimelineInv'
  OBVIOUS
<1>1. UNCHANGED <<made, queue, stored, log, connected, wire, view, replays, boot, used>>
  BY DEF timelineVars, serverVars
<1>2. /\ Connection' = Connection
      /\ \A i \in DOMAIN log : (Sent(i)' <=> Sent(i)) /\ (OnItsWay(log[i])' <=> OnItsWay(log[i]))
  BY <1>1 DEF Connection, Sent, OnItsWay
<1>3. CaughtUp'
  BY <1>1, <1>2 DEF TimelineInv, CaughtUp
<1>4. TimelineTyped' /\ Within' /\ Ordered' /\ Honest(view', log')
  BY <1>1 DEF TimelineInv, TimelineTyped, Within, Ordered
<1>5. ReplaysComplete' /\ BootComplete' /\ OneReplayEach'
  BY <1>1, <1>2 DEF TimelineInv, ReplaysComplete, BootComplete, OneReplayEach
<1> QED
  BY <1>3, <1>4, <1>5 DEF TimelineInv

LEMMA TimelineInvariance == TimelineSpec => []TimelineInv
<1>1. TimelineInv /\ [TimelineNext]_timelineVars => TimelineInv'
  BY ProgressKeeps, PersistKeeps, EmitKeeps, CrashKeeps, ConnectKeeps, DeliverKeeps, DropKeeps,
     ReloadKeeps, ReplayKeeps, AskBootstrapKeeps, BootstrapKeeps, TimelineStutters
     DEF TimelineNext
<1> QED
  BY TimelineInitially, <1>1, PTL DEF TimelineSpec

(* A client's cursor is honest: everything stored up to it is shown, or a  *)
(* later event of the same call, for every order of socket, replays,       *)
(* bootstraps, lost connections and restarts.                              *)
THEOREM CursorIsHonest == TimelineSpec => []ShownUpToCursor
<1>1. TimelineInv => ShownUpToCursor
  BY DEF TimelineInv, Honest, ShownUpToCursor
<1> QED
  BY TimelineInvariance, <1>1, PTL

(* Once the replay of a connection has landed and nothing is on its way,   *)
(* the client shows all that is stored and was sent.                       *)
THEOREM ClientInStep == TimelineSpec => []InStep
<1>1. ASSUME TimelineInv PROVE InStep
  <2> SUFFICES ASSUME connected, replays[Connection].at = "landed", wire = <<>>,
                      NEW i \in DOMAIN log
               PROVE  \/ stored /\ i = Len(log) /\ log[i] = Head(queue)
                      \/ view.shown[log[i].key] >= log[i].version
    BY DEF InStep
  <2>1. Sent(i) => OnItsWay(log[i])
    BY <1>1 DEF TimelineInv, CaughtUp
  <2>2. ~Brings(wire, log[i])
    BY DEF Brings
  <2> QED
    BY <2>1, <2>2 DEF Sent, OnItsWay
<1> QED
  BY TimelineInvariance, <1>1, PTL

(* Everything of the timeline keeps its type, and no cursor is beyond the  *)
(* log.                                                                    *)
THEOREM TimelineTypeCorrect == TimelineSpec => []TimelineTypeOK
<1>1. ASSUME TimelineInv PROVE TimelineTypeOK
  <2>1. TimelineTyped /\ Within /\ Honest(view, log)
    BY <1>1 DEF TimelineInv
  <2>2. Len(log) \in Nat
    BY <2>1 DEF TimelineTyped, Events
  <2>3. view \in View
    <3>1. view \in Views /\ view.cursor <= Len(log)
      BY <2>1 DEF TimelineTyped, Honest
    <3> QED
      BY <2>2, <3>1 DEF Views, View
  <2>4. \A answer \in Answers : answer.next <= Len(log) => answer \in Answer
    BY <2>2 DEF Answers, Answer
  <2>5. boot \in [at : {"none", "asked", "answered"}, baseline : View, answer : Answer]
    <3>1. boot \in Boot /\ boot.baseline.cursor <= Len(log) /\ boot.answer.next <= Len(log)
      BY <2>1 DEF TimelineTyped, Within
    <3>2. boot.baseline \in View
      BY <2>2, <3>1 DEF Boot, Views, View
    <3>3. boot.answer \in Answer
      BY <2>4, <3>1 DEF Boot
    <3> QED
      BY <3>1, <3>2, <3>3 DEF Boot
  <2>6. replays \in [Connections -> [at : {"none", "due", "asked", "answered", "landed"},
                                     after : 0..Len(log), answer : Answer]]
    <3> SUFFICES ASSUME NEW n \in Connections
                 PROVE  replays[n] \in [at : {"none", "due", "asked", "answered", "landed"},
                                        after : 0..Len(log), answer : Answer]
      BY <2>1 DEF TimelineTyped
    <3>1. replays[n] \in Replay /\ replays[n].after <= Len(log) /\ replays[n].answer.next <= Len(log)
      BY <2>1 DEF TimelineTyped, Within
    <3>2. replays[n].answer \in Answer /\ replays[n].after \in 0..Len(log)
      BY <2>2, <2>4, <3>1 DEF Replay
    <3> QED
      BY <3>1, <3>2 DEF Replay
  <2> QED
    BY <2>1, <2>3, <2>5, <2>6 DEF TimelineTyped, TimelineTypeOK, Events
<1> QED
  BY TimelineInvariance, <1>1, PTL

-----------------------------------------------------------------------------
(* What is shown only grows, but for a reload.                             *)
GrowsTo(w) == Outdoes(w, view) /\ w.cursor >= view.cursor

LEMMA ShownGrows ==
  ASSUME TimelineInv, TimelineNext
  PROVE  (view' = EmptyView /\ ~connected') \/ GrowsTo(view')
<1>1. /\ view \in Views /\ log \in Events /\ replays \in [Connections -> Replay] /\ boot \in Boot
      /\ Honest(view, log)
  BY DEF TimelineInv, TimelineTyped
<1>2. ASSUME UNCHANGED view PROVE GrowsTo(view')
  <2>1. \A c \in Calls : view.shown[c] \in Nat
    BY <1>1 DEF Views, Over
  <2>2. view.cursor \in Nat
    BY <1>1 DEF Views
  <2> QED
    BY <1>2, <2>1, <2>2 DEF GrowsTo, Outdoes
<1>3. CASE UNCHANGED view
  BY <1>2, <1>3
<1>4. CASE Deliver
  <2>1. wire # <<>> /\ view' = Upsert(view, Head(wire))
    BY <1>4 DEF Deliver
  <2>2. Head(wire) \in Event
    BY <2>1 DEF TimelineInv, TimelineTyped, Events
  <2>3. /\ view'.cursor = view.cursor
        /\ \A c \in Calls : view'.shown[c] = IF c = Head(wire).key /\ Head(wire).version >= view.shown[c]
                                              THEN Head(wire).version ELSE view.shown[c]
    BY <1>1, <2>1, <2>2, Upserted
  <2>4. view.cursor \in Nat /\ \A c \in Calls : view.shown[c] \in Nat
    BY <1>1 DEF Views, Over
  <2>5. Outdoes(view', view)
    BY <2>3, <2>4 DEF Outdoes
  <2> QED
    BY <2>3, <2>4, <2>5 DEF GrowsTo
<1>5. CASE Reload
  BY <1>5 DEF Reload
<1>6. ASSUME NEW n \in Connections, LandReplay(n) PROVE GrowsTo(view')
  <2>1. view' = Applied(view, replays[n].answer) /\ replays[n].at = "answered"
    BY <1>6 DEF LandReplay
  <2>2. replays[n] \in Replay
    BY <1>1
  <2>3. replays[n].answer \in Answers /\ replays[n].after \in Nat
    BY <2>2 DEF Replay
  <2>4. replays[n].after <= view.cursor /\ Covers(replays[n].answer, replays[n].after, log)
    BY <1>6, <2>1 DEF TimelineInv, ReplaysComplete
  <2> QED
    BY <1>1, <2>1, <2>3, <2>4, AnswerLands DEF GrowsTo
<1>7. CASE LandBootstrap
  <2> DEFINE fresh == Applied(EmptyView, boot.answer)
  <2>1. view' = Merged(fresh, boot.baseline, view)
    BY <1>7 DEF LandBootstrap
  <2>2. boot.answer \in Answers /\ boot.baseline \in Views
    BY <1>1 DEF Boot
  <2>3. fresh \in Views
    BY <2>2, Blank, AppliedView
  <2> HIDE DEF fresh
  <2>4. /\ view'.cursor = Larger(Larger(fresh.cursor, boot.baseline.cursor), view.cursor)
        /\ Outdoes(view', view)
    BY <1>1, <2>1, <2>2, <2>3, MergedView
  <2>5. fresh.cursor \in Nat /\ boot.baseline.cursor \in Nat /\ view.cursor \in Nat
    BY <1>1, <2>2, <2>3 DEF Views
  <2>6. view'.cursor >= view.cursor
    BY <2>4, <2>5 DEF Larger
  <2> QED
    BY <2>4, <2>6 DEF GrowsTo
<1>8. \/ UNCHANGED view \/ Deliver \/ Reload \/ LandBootstrap
      \/ \E n \in Connections : LandReplay(n)
  BY DEF TimelineNext, Progress, Refuse, Publish, Persist, Emit, Crash, Connect, Drop, AskReplay,
         AnswerReplay, LoseReplay, Goto, AskBootstrap, AnswerBootstrap, LoseBootstrap, serverVars
<1> QED
  BY <1>3, <1>4, <1>5, <1>6, <1>7, <1>8

(* No step of server or client, in whatever order answers land, takes back *)
(* what the user has seen of a call, or the cursor; only a reload does.    *)
THEOREM NothingTakenBackHolds == TimelineSpec => NothingTakenBack
<1>1. TimelineInv /\ [TimelineNext]_timelineVars
        => [\/ view' = EmptyView /\ ~connected'
            \/ /\ \A c \in Calls : view'.shown[c] >= view.shown[c]
               /\ view'.cursor >= view.cursor]_timelineVars
  BY ShownGrows DEF GrowsTo, Outdoes
<1> QED
  BY TimelineInvariance, <1>1, PTL DEF TimelineSpec, NothingTakenBack

-----------------------------------------------------------------------------
(* The behaviours TLC looks at are behaviours of the board and of the      *)
(* timeline, so what is proved of each holds of them.                      *)
LEMMA ViewIsBoth == ViewSpec => Spec /\ TimelineSpec
<1>1. ViewInit => Init /\ TimelineInit
  BY DEF ViewInit
<1>2. [ViewNext]_<<part, boardVars, timelineVars>> => [Next]_vars /\ [TimelineNext]_timelineVars
  BY DEF ViewNext, boardVars
<1> QED
  BY <1>1, <1>2, PTL DEF ViewSpec, Spec, TimelineSpec

(* What is on a user's screen, the board and the timeline side by side,    *)
(* keeps its types for any number of phases, calls, lost connections and   *)
(* restarts.                                                               *)
THEOREM ViewTypeCorrect == ViewSpec => []TypesOK
<1>1. TypeOK /\ TimelineTypeOK => TypesOK
  BY DEF TypesOK
<1> QED
  BY ViewIsBoth, BoardTypeCorrect, TimelineTypeCorrect, <1>1, PTL
=============================================================================
