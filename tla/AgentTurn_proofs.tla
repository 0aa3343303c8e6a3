--------------------------- MODULE AgentTurn_proofs ---------------------------
(***************************************************************************)
(* What holds of a turn for every budget, every batch size and any number  *)
(* of inputs and crashes.                                                  *)
(*                                                                         *)
(* None of the properties is inductive as it stands.  The input log needs  *)
(* that what is consumed is an initial segment and that what the loop has  *)
(* read and not yet consumed is the segment after it.  The budgets and the *)
(* open question need that the checkpoint a turn may be resumed from says  *)
(* the same of them as the trajectory it was taken from.                   *)
(***************************************************************************)
EXTENDS AgentTurn, FiniteSetTheorems, SequenceTheorems, TLAPS

(* The inputs a+1 .. b, in order.                                          *)
Segment(a, b) == [j \in 1..(b - a) |-> a + j]

ConsumedUpTo(k) == \A i \in DOMAIN inputs : inputs[i].consumed <=> i <= k

Live == {"top", "consume", "model", "tools", "observe", "finishing", "after",
         "consumeLast", "grace", "result", "terminal", "pause"}

(* k inputs are consumed, they are what the trajectory holds, and a read   *)
(* under way has the next ones.                                            *)
LogAt(k) ==
  /\ ConsumedUpTo(k)
  /\ saved.trajectory.seen = Segment(0, k)
  /\ loop.at \in Live => memory.seen = Segment(0, k)
  /\ loop.at \in {"consume", "consumeLast"} =>
       \E m \in k..Len(inputs) : loop.reading = Segment(k, m)

LogInv == \E k \in 0..Len(inputs) : LogAt(k)

-----------------------------------------------------------------------------
(* Segments are sequences of numbers.                                      *)
LEMMA SegmentType ==
  ASSUME NEW a \in Nat, NEW b \in Nat, a <= b
  PROVE  /\ Segment(a, b) \in Seq(Nat)
         /\ Len(Segment(a, b)) = b - a
         /\ a = b <=> Segment(a, b) = <<>>
<1>1. Segment(a, b) \in [1..(b - a) -> Nat] /\ b - a \in Nat
  BY DEF Segment
<1>2. Segment(a, b) \in Seq(Nat) /\ Len(Segment(a, b)) = b - a
  BY <1>1
<1> QED
  BY <1>2

(* One segment after the other is the longer segment.                      *)
LEMMA SegmentsJoin ==
  ASSUME NEW k \in Nat, NEW m \in Nat, k <= m
  PROVE  Segment(0, k) \o Segment(k, m) = Segment(0, m)
<1> DEFINE s == Segment(0, k)  t == Segment(k, m)  u == Segment(0, m)
<1>1. s \in Seq(Nat) /\ Len(s) = k /\ t \in Seq(Nat) /\ Len(t) = m - k
      /\ u \in Seq(Nat) /\ Len(u) = m
  <2>1. s \in Seq(Nat) /\ Len(s) = k - 0
    BY SegmentType, 0 \in Nat, 0 <= k
  <2>2. u \in Seq(Nat) /\ Len(u) = m - 0
    BY SegmentType, 0 \in Nat, 0 <= m
  <2>3. t \in Seq(Nat) /\ Len(t) = m - k
    BY SegmentType
  <2> HIDE DEF s, t, u
  <2> QED
    BY <2>1, <2>2, <2>3
<1>2. s \o t \in Seq(Nat) /\ Len(s \o t) = m
  BY <1>1
<1>3. ASSUME NEW i \in 1..m PROVE (s \o t)[i] = u[i]
  <2>1. (s \o t)[i] = IF i <= k THEN s[i] ELSE t[i - k]
    <3> HIDE DEF s, t
    <3> QED
      BY <1>1, ConcatProperties
  <2>2. u[i] = i /\ (i <= k => s[i] = i)
    BY DEF Segment
  <2>3. i > k => t[i - k] = i
    <3>1. i > k => i - k \in 1..(m - k) /\ k + (i - k) = i
      OBVIOUS
    <3> QED
      BY <3>1 DEF Segment
  <2> HIDE DEF s, t, u
  <2> QED
    BY <2>1, <2>2, <2>3
<1>4. s \o t = u
  <2> HIDE DEF s, t, u
  <2> QED
    BY <1>1, <1>2, <1>3, SeqEqual
<1> QED
  BY <1>4

(* Numbers read in ascending order from an interval are a segment.         *)
LEMMA IntervalInOrder ==
  ASSUME NEW a \in Nat, NEW b \in Nat, a <= b
  PROVE  InOrder((a + 1)..b) = Segment(a, b)
<1> DEFINE S == (a + 1)..b
<1>1. Cardinality(S) = b - a
  <2>1. CASE a = b
    BY <2>1, FS_EmptySet
  <2>2. CASE a < b
    BY <2>2, FS_Interval
  <2> QED
    BY <2>1, <2>2
<1>2. ASSUME NEW p \in S PROVE Cardinality({q \in S : q <= p}) = p - a
  <2>1. {q \in S : q <= p} = (a + 1)..p
    OBVIOUS
  <2>2. a + 1 \in Int /\ p \in Int /\ a + 1 <= p
    OBVIOUS
  <2>3. Cardinality((a + 1)..p) = p - a
    <3> HIDE DEF S
    <3> QED
      BY <2>2, FS_Interval
  <2> QED
    BY <2>1, <2>3, Zenon
<1>3. ASSUME NEW i \in 1..(b - a)
      PROVE  (CHOOSE p \in S : Cardinality({q \in S : q <= p}) = i) = a + i
  <2>1. a + i \in S /\ Cardinality({q \in S : q <= a + i}) = i
    BY <1>2
  <2>2. ASSUME NEW p \in S, Cardinality({q \in S : q <= p}) = i PROVE p = a + i
    BY <1>2, <2>2
  <2> HIDE DEF S
  <2> QED
    BY <2>1, <2>2
<1> HIDE DEF S
<1>4. InOrder(S) = [i \in 1..(b - a) |-> a + i]
  BY <1>1, <1>3 DEF InOrder
<1> QED
  BY <1>4 DEF S, Segment

(* What is unread is the rest of the log, and pendingInputs returns it in  *)
(* order.                                                                  *)
LEMMA PendingIsTheRest ==
  ASSUME inputs \in Seq(Input), NEW k \in 0..Len(inputs), ConsumedUpTo(k)
  PROVE  /\ Pending = (k + 1)..Len(inputs)
         /\ InOrder(Pending) = Segment(k, Len(inputs))
<1>1. Pending = (k + 1)..Len(inputs)
  BY DEF Pending, ConsumedUpTo
<1> QED
  BY <1>1, IntervalInOrder

(* Marking the rows of a segment consumed extends what is consumed by it.  *)
LEMMA ConsumeSegment ==
  ASSUME inputs \in Seq(Input), NEW k \in 0..Len(inputs), ConsumedUpTo(k),
         NEW m \in k..Len(inputs)
  PROVE  /\ Consumed(Segment(k, m)) \in Seq(Input)
         /\ Len(Consumed(Segment(k, m))) = Len(inputs)
         /\ \A i \in 1..Len(inputs) :
              Consumed(Segment(k, m))[i].consumed <=> i <= m
<1> DEFINE C == Consumed(Segment(k, m))
           read(i) == \E j \in DOMAIN Segment(k, m) : Segment(k, m)[j] = i
<1> k \in Nat /\ m \in Nat /\ Len(inputs) \in Nat
  OBVIOUS
<1>1. C = [i \in 1..Len(inputs) |->
             IF read(i) THEN [inputs[i] EXCEPT !.consumed = TRUE] ELSE inputs[i]]
  BY DEF Consumed
<1>2. \A i \in 1..Len(inputs) : inputs[i] \in Input
  OBVIOUS
<1>3. ASSUME NEW i \in 1..Len(inputs) PROVE read(i) <=> k < i /\ i <= m
  <2>1. DOMAIN Segment(k, m) = 1..(m - k) /\ \A j \in 1..(m - k) : Segment(k, m)[j] = k + j
    BY DEF Segment
  <2>2. read(i) <=> \E j \in 1..(m - k) : k + j = i
    BY <2>1, Zenon
  <2>3. k < i /\ i <= m => i - k \in 1..(m - k) /\ k + (i - k) = i
    OBVIOUS
  <2>4. i \in Nat /\ \A j \in 1..(m - k) : k < k + j /\ k + j <= m
    OBVIOUS
  <2> HIDE DEF read
  <2> QED
    BY <2>2, <2>3, <2>4
<1>4. ASSUME NEW i \in 1..Len(inputs) PROVE C[i] \in Input /\ (C[i].consumed <=> i <= m)
  <2>1. inputs[i] \in Input /\ (inputs[i].consumed <=> i <= k)
    BY <1>2 DEF ConsumedUpTo
  <2>2. C[i] = IF read(i) THEN [inputs[i] EXCEPT !.consumed = TRUE] ELSE inputs[i]
    BY <1>1
  <2>3. CASE read(i)
    BY <2>1, <2>2, <2>3, <1>3 DEF Input
  <2>4. CASE ~read(i)
    BY <2>1, <2>2, <2>4, <1>3 DEF Input
  <2> QED
    BY <2>3, <2>4
<1>5. C \in [1..Len(inputs) -> Input]
  BY <1>1, <1>4
<1> HIDE DEF C
<1>6. C \in Seq(Input) /\ Len(C) = Len(inputs)
  BY <1>5
<1> QED
  BY <1>4, <1>6 DEF C

-----------------------------------------------------------------------------
(* A step that adds, reads and consumes no input.                          *)
LogQuiet ==
  /\ inputs' = inputs
  /\ \/ saved'.trajectory.seen = saved.trajectory.seen
     \/ loop.at \in Live /\ saved'.trajectory.seen = memory.seen
  /\ loop'.at \in Live => loop.at \in Live /\ memory'.seen = memory.seen
  /\ loop'.at \in {"consume", "consumeLast"} =>
       loop'.at = loop.at /\ loop'.reading = loop.reading

(* Such a step leaves the log and what is held of it alone.                *)
LEMMA QuietKeepsLog ==
  ASSUME LogInv, LogQuiet
  PROVE  LogInv'
<1>1. PICK k \in 0..Len(inputs) : LogAt(k)
  BY DEF LogInv
<1>2. ConsumedUpTo(k)'
  BY <1>1 DEF LogAt, LogQuiet, ConsumedUpTo
<1>3. saved'.trajectory.seen = Segment(0, k)
  BY <1>1 DEF LogAt, LogQuiet
<1>4. loop'.at \in Live => memory'.seen = Segment(0, k)
  BY <1>1 DEF LogAt, LogQuiet
<1>5. loop'.at \in {"consume", "consumeLast"} =>
        \E m \in k..Len(inputs') : loop'.reading = Segment(k, m)
  BY <1>1 DEF LogAt, LogQuiet
<1>6. LogAt(k)'
  BY <1>2, <1>3, <1>4, <1>5 DEF LogAt, Segment
<1> QED
  BY <1>1, <1>6 DEF LogInv, LogQuiet

(* A new input goes to the end of the log, unconsumed.                     *)
LEMMA AppendKeepsLog ==
  ASSUME TypeOK, LogInv, AppendInput
  PROVE  TypeOK' /\ LogInv'
<1> DEFINE new == [kind |-> IF turn = "waiting_user_input" THEN "USER_RESPONSE" ELSE "STEERING",
                   consumed |-> FALSE]
<1>1. inputs \in Seq(Input) /\ Len(inputs) \in Nat /\ new \in Input
  BY DEF TypeOK, Input
<1>2. inputs' = Append(inputs, new)
  BY DEF AppendInput
<1> HIDE DEF new
<1>3. /\ inputs' \in Seq(Input) /\ Len(inputs') = Len(inputs) + 1
      /\ \A i \in 1..Len(inputs) : inputs'[i] = inputs[i]
      /\ inputs'[Len(inputs) + 1] = new
  BY <1>1, <1>2
<1>4. TypeOK'
  <2>1. Len(inputs') <= MaxInputs
    BY <1>1, <1>3, BoundsAssumption DEF AppendInput
  <2>2. UNCHANGED <<turn, saved, request, memory, loop, toolsRun, modelRuns, crashes>>
    BY DEF AppendInput, history
  <2> QED
    BY <1>3, <2>1, <2>2 DEF TypeOK
<1>5. PICK k \in 0..Len(inputs) : LogAt(k)
  BY DEF LogInv
<1>6. ConsumedUpTo(k)'
  <2>1. ~new.consumed
    BY DEF new
  <2>2. ASSUME NEW i \in DOMAIN inputs' PROVE inputs'[i].consumed <=> i <= k
    <3>1. i \in 1..Len(inputs) \/ i = Len(inputs) + 1
      BY <1>1, <1>3
    <3>2. CASE i \in 1..Len(inputs)
      BY <1>1, <1>3, <1>5, <3>2 DEF LogAt, ConsumedUpTo
    <3>3. CASE i = Len(inputs) + 1
      BY <1>1, <1>3, <1>5, <2>1, <3>3
    <3> QED
      BY <3>1, <3>2, <3>3
  <2> QED
    BY <2>2 DEF ConsumedUpTo
<1>7. UNCHANGED <<saved, loop, memory>>
  BY DEF AppendInput
<1>8. k..Len(inputs) \subseteq k..Len(inputs') /\ k \in 0..Len(inputs')
  BY <1>1, <1>3, <1>5
<1>9. LogAt(k)'
  <2>1. loop.at \in {"consume", "consumeLast"} =>
          \E m \in k..Len(inputs') : loop.reading = Segment(k, m)
    BY <1>5, <1>8 DEF LogAt
  <2> QED
    BY <1>5, <1>6, <1>7, <2>1 DEF LogAt, Segment
<1> QED
  BY <1>4, <1>8, <1>9 DEF LogInv

(* What is read is the rest of the log.                                    *)
LEMMA ReadingKeepsLog ==
  ASSUME TypeOK, LogInv, BeginIteration \/ ReadLast,
         loop'.at \in {"consume", "consumeLast"}
  PROVE  TypeOK' /\ LogInv'
<1>1. PICK k \in 0..Len(inputs) : LogAt(k)
  BY DEF LogInv
<1>2. inputs \in Seq(Input) /\ Len(inputs) \in Nat /\ k \in Nat /\ k <= Len(inputs)
  BY <1>1 DEF TypeOK
<1>3. PICK next \in {"consume", "consumeLast"} :
        loop' = [loop EXCEPT !.at = next, !.reading = InOrder(Pending)]
  BY DEF BeginIteration, ReadLast, ReadPending, End, TypeOK
<1>4. InOrder(Pending) = Segment(k, Len(inputs))
  BY <1>1, <1>2, PendingIsTheRest DEF LogAt
<1>5. Segment(k, Len(inputs)) \in Seq(Nat)
  BY <1>2, SegmentType
<1>6. UNCHANGED <<turn, inputs, saved, request, memory, history>>
  BY DEF BeginIteration, ReadLast, LoopKeeps
<1>7. loop' \in [at : Stage, reading : Seq(Nat), batch : Nat, outcome : Terminal]
  BY <1>3, <1>4, <1>5 DEF TypeOK, Stage
<1>8. TypeOK'
  BY <1>6, <1>7 DEF TypeOK, history
<1>9. loop.at \in Live
  BY DEF BeginIteration, ReadLast, At, Live
<1>10. loop'.reading = Segment(k, Len(inputs'))
  BY <1>3, <1>4, <1>6 DEF TypeOK
<1>11. LogAt(k)'
  <2>1. ConsumedUpTo(k)'
    BY <1>1, <1>6 DEF LogAt, ConsumedUpTo
  <2>2. Len(inputs') \in k..Len(inputs')
    BY <1>2, <1>6
  <2> QED
    BY <1>1, <1>6, <1>9, <1>10, <2>1, <2>2 DEF LogAt, Segment
<1> QED
  BY <1>1, <1>6, <1>8, <1>11 DEF LogInv

(* Whatever the loop has read becomes part of the trajectory and of what   *)
(* is consumed, in one step.                                               *)
LEMMA ConsumingKeepsLog ==
  ASSUME TypeOK, NEW k \in 0..Len(inputs), LogAt(k),
         loop.at \in {"consume", "consumeLast"}
  PROVE  \E m \in k..Len(inputs) :
           /\ Trajected.seen = Segment(0, m)
           /\ Trajected \in Trajectory
           /\ loop.reading = <<>> => m = k
           /\ loop.reading # <<>> =>
                /\ WithInputs.seen = Segment(0, m)
                /\ WithInputs \in Trajectory
                /\ Consumed(loop.reading) \in Seq(Input)
                /\ Len(Consumed(loop.reading)) = Len(inputs)
                /\ \A i \in 1..Len(inputs) : Consumed(loop.reading)[i].consumed <=> i <= m
<1>1. PICK m \in k..Len(inputs) : loop.reading = Segment(k, m)
  BY DEF LogAt
<1>2. inputs \in Seq(Input) /\ Len(inputs) \in Nat /\ k \in Nat /\ m \in Nat /\ k <= m
      /\ m <= Len(inputs)
  BY DEF TypeOK
<1>3. memory \in Trajectory /\ memory.seen = Segment(0, k)
  BY DEF TypeOK, LogAt, Live
<1>4. loop.reading = <<>> <=> k = m
  BY <1>1, <1>2, SegmentType
<1>5. memory.seen \o loop.reading = Segment(0, m)
  BY <1>1, <1>2, <1>3, SegmentsJoin
<1>6. Segment(0, m) \in Seq(Nat)
  BY <1>2, SegmentType, 0 \in Nat, 0 <= m
<1>7. WithInputs.seen = Segment(0, m) /\ WithInputs \in Trajectory
  BY <1>3, <1>5, <1>6 DEF WithInputs, Trajectory
<1>8. Trajected.seen = Segment(0, m) /\ Trajected \in Trajectory
  BY <1>3, <1>4, <1>7 DEF Trajected
<1>9. /\ Consumed(loop.reading) \in Seq(Input)
      /\ Len(Consumed(loop.reading)) = Len(inputs)
      /\ \A i \in 1..Len(inputs) : Consumed(loop.reading)[i].consumed <=> i <= m
  <2>1. ConsumedUpTo(k)
    BY DEF LogAt
  <2> QED
    BY <1>1, <1>2, <2>1, ConsumeSegment
<1> QED
  BY <1>4, <1>7, <1>8, <1>9

(* The two places that consume: the top of an iteration and the end of the *)
(* loop.                                                                   *)
LEMMA IterateKeepsLog ==
  ASSUME TypeOK, LogInv, Iterate \/ ConsumeLast
  PROVE  TypeOK' /\ LogInv'
<1>1. PICK k \in 0..Len(inputs) : LogAt(k)
  BY DEF LogInv
<1>2. loop.at \in {"consume", "consumeLast"} /\ loop.at \in Live
  BY DEF Iterate, ConsumeLast, At, Live
<1>3. PICK m \in k..Len(inputs) :
        /\ Trajected.seen = Segment(0, m)
        /\ Trajected \in Trajectory
        /\ loop.reading = <<>> => m = k
        /\ loop.reading # <<>> =>
             /\ WithInputs.seen = Segment(0, m)
             /\ WithInputs \in Trajectory
             /\ Consumed(loop.reading) \in Seq(Input)
             /\ Len(Consumed(loop.reading)) = Len(inputs)
             /\ \A i \in 1..Len(inputs) : Consumed(loop.reading)[i].consumed <=> i <= m
  BY <1>1, <1>2, ConsumingKeepsLog
<1>4. inputs \in Seq(Input) /\ Len(inputs) \in Nat /\ m \in 0..Len(inputs)
  BY <1>1 DEF TypeOK
<1>5. \/ loop.reading = <<>> /\ inputs' = inputs /\ saved' = saved
      \/ loop.reading = <<>> /\ inputs' = inputs /\ saved' = [phase |-> "ready", trajectory |-> memory]
      \/ /\ loop.reading # <<>>
         /\ inputs' = Consumed(loop.reading)
         /\ saved' = [phase |-> "ready", trajectory |-> WithInputs]
  BY DEF Iterate, ConsumeLast, ConsumeInputs, Checkpoint
<1>6. saved.trajectory.seen = Segment(0, k) /\ memory.seen = Segment(0, k) /\ ConsumedUpTo(k)
  BY <1>1, <1>2 DEF LogAt
<1>7. inputs' \in Seq(Input) /\ Len(inputs') = Len(inputs) /\ ConsumedUpTo(m)'
  <2>1. CASE loop.reading = <<>>
    BY <1>3, <1>4, <1>5, <1>6, <2>1 DEF ConsumedUpTo
  <2>2. CASE loop.reading # <<>>
    <3>1. inputs' \in Seq(Input) /\ Len(inputs') = Len(inputs)
          /\ \A i \in 1..Len(inputs) : inputs'[i].consumed <=> i <= m
      BY <1>3, <1>5, <2>2
    <3> QED
      BY <3>1 DEF ConsumedUpTo
  <2> QED
    BY <2>1, <2>2
<1>8. saved' \in [phase : Phase, trajectory : Trajectory] /\ saved'.trajectory.seen = Segment(0, m)
  <2>1. saved \in [phase : Phase, trajectory : Trajectory] /\ memory \in Trajectory
    BY DEF TypeOK
  <2> QED
    BY <1>3, <1>5, <1>6, <2>1 DEF Phase
<1>9. memory' \in Trajectory /\ memory'.seen = Segment(0, m)
  <2>1. \/ memory' = [Trajected EXCEPT !.modelCalls = @ + 1]
        \/ memory' = [Trajected EXCEPT !.grace = TRUE]
    BY DEF Iterate, ConsumeLast
  <2>2. Trajected \in Trajectory /\ Trajected.seen = Segment(0, m)
    BY <1>3
  <2>3. Trajected.modelCalls + 1 \in Nat /\ TRUE \in BOOLEAN
    BY <2>2 DEF Trajectory
  <2>4. CASE memory' = [Trajected EXCEPT !.modelCalls = @ + 1]
    BY <2>2, <2>3, <2>4 DEF Trajectory
  <2>5. CASE memory' = [Trajected EXCEPT !.grace = TRUE]
    BY <2>2, <2>3, <2>5 DEF Trajectory
  <2> QED
    BY <2>1, <2>4, <2>5
<1>10. /\ loop' \in [at : Stage, reading : Seq(Nat), batch : Nat, outcome : Terminal]
       /\ loop'.at \in {"model", "grace"}
  <2>1. \E next \in {"model", "grace"} : loop' = [loop EXCEPT !.at = next, !.reading = <<>>]
    BY DEF Iterate, ConsumeLast
  <2>2. loop \in [at : Stage, reading : Seq(Nat), batch : Nat, outcome : Terminal]
    BY DEF TypeOK
  <2>3. <<>> \in Seq(Nat) /\ {"model", "grace"} \subseteq Stage
    BY DEF Stage
  <2> QED
    BY <2>1, <2>2, <2>3
<1>11. UNCHANGED <<turn, request, toolsRun, crashes>> /\ modelRuns' \in Nat
  BY DEF Iterate, ConsumeLast, TypeOK
<1>12. TypeOK'
  BY <1>4, <1>7, <1>8, <1>9, <1>10, <1>11 DEF TypeOK
<1>13. LogAt(m)'
  BY <1>7, <1>8, <1>9, <1>10 DEF LogAt, Segment
<1> QED
  BY <1>4, <1>7, <1>12, <1>13 DEF LogInv

(* The loop at rest and the empty trajectory have their types.             *)
LEMMA IdleType ==
  /\ Idle \in [at : Stage, reading : Seq(Nat), batch : Nat, outcome : Terminal]
  /\ Fresh \in Trajectory
<1>1. <<>> \in Seq(Nat)
  OBVIOUS
<1> QED
  BY <1>1 DEF Idle, Fresh, Stage, Terminal, Trajectory

(* A start takes the trajectory back from the checkpoint.                  *)
LEMMA StartKeepsLog ==
  ASSUME TypeOK, LogInv, Start
  PROVE  TypeOK' /\ LogInv'
<1>1. PICK k \in 0..Len(inputs) : LogAt(k)
  BY DEF LogInv
<1>2. UNCHANGED <<inputs, saved, toolsRun, modelRuns, crashes>>
  BY DEF Start, history
<1>3. /\ loop'.at \in {"idle", "top"}
      /\ loop'.at = "top" => memory' = saved.trajectory
      /\ loop' \in [at : Stage, reading : Seq(Nat), batch : Nat, outcome : Terminal]
      /\ memory' \in Trajectory /\ turn' \in TurnStatus /\ request' \in Request
  <2>1. CASE cancelling
    <3>1. loop' = Idle /\ UNCHANGED <<turn, memory>> /\ request' = "CANCELLED"
      BY <2>1 DEF Start
    <3>2. Idle \in [at : Stage, reading : Seq(Nat), batch : Nat, outcome : Terminal]
          /\ Idle.at = "idle"
      BY IdleType DEF Idle
    <3> QED
      BY <3>1, <3>2 DEF TypeOK, Request, Over
  <2>2. CASE ~cancelling
    <3>1. loop' = [loop EXCEPT !.at = "top"] /\ memory' = saved.trajectory
          /\ turn' = "running" /\ request' = "RUNNING"
      BY <2>2 DEF Start, Go, Restored
    <3> QED
      BY <3>1 DEF TypeOK, Stage, TurnStatus, Request
  <2> QED
    BY <2>1, <2>2
<1>4. TypeOK'
  BY <1>2, <1>3 DEF TypeOK
<1>5. LogAt(k)'
  <2>1. ConsumedUpTo(k)'
    BY <1>1, <1>2 DEF LogAt, ConsumedUpTo
  <2> QED
    BY <1>1, <1>2, <1>3, <2>1 DEF LogAt, Segment, Live
<1> QED
  BY <1>1, <1>2, <1>4, <1>5 DEF LogInv

(* Claims, stops, crashes and recoveries touch neither the log nor what    *)
(* the loop has read.                                                      *)
LEMMA OutsideKeepsLog ==
  ASSUME TypeOK, Stop \/ Claim \/ Crash \/ Abandon
  PROVE  TypeOK' /\ LogQuiet
<1>1. CASE Stop
  <2>1. turn' \in TurnStatus /\ request' \in Request
    BY <1>1 DEF Stop, TypeOK, TurnStatus, Terminal, Request, Over
  <2>2. UNCHANGED <<inputs, saved, memory, loop, toolsRun, modelRuns, crashes>>
    BY <1>1 DEF Stop, history
  <2> QED
    BY <2>1, <2>2 DEF TypeOK, LogQuiet
<1>2. CASE Claim
  <2>1. UNCHANGED <<turn, inputs, saved, memory, toolsRun, modelRuns, crashes>>
    BY <1>2 DEF Claim, history
  <2>2. loop' = [loop EXCEPT !.at = "claimed"] /\ request' = "STARTING"
    BY <1>2 DEF Claim, Go
  <2>3. /\ loop' \in [at : Stage, reading : Seq(Nat), batch : Nat, outcome : Terminal]
        /\ loop'.at = "claimed"
    BY <2>2 DEF TypeOK, Stage
  <2>4. request' \in Request
    BY <2>2 DEF Request
  <2> QED
    BY <2>1, <2>3, <2>4 DEF TypeOK, LogQuiet, Live
<1>3. CASE Crash
  <2>1. UNCHANGED <<turn, inputs, saved, request, toolsRun, modelRuns>>
    BY <1>3 DEF Crash
  <2>2. crashes' \in 0..MaxCrashes
    BY <1>3, BoundsAssumption DEF Crash, TypeOK
  <2>3. loop' = Idle /\ memory' = Fresh /\ loop'.at = "idle"
    BY <1>3 DEF Crash, Idle
  <2> QED
    BY <2>1, <2>2, <2>3, IdleType DEF TypeOK, LogQuiet, Live
<1>4. CASE Abandon
  <2>1. turn' \in TurnStatus /\ request' \in Request
    BY <1>4 DEF Abandon, TypeOK, TurnStatus, Terminal, Request, Over, Completed
  <2>2. UNCHANGED <<inputs, saved, memory, loop, toolsRun, modelRuns, crashes>>
    BY <1>4 DEF Abandon, history
  <2> QED
    BY <2>1, <2>2 DEF TypeOK, LogQuiet
<1> QED
  BY <1>1, <1>2, <1>3, <1>4

(* Moving the loop keeps its type and what it has read.                    *)
LEMMA MoveType ==
  ASSUME TypeOK, NEW stage \in Stage,
         Go(stage) \/ (\E outcome \in Terminal : stage = "result" /\ End(outcome))
  PROVE  /\ loop' \in [at : Stage, reading : Seq(Nat), batch : Nat, outcome : Terminal]
         /\ loop'.at = stage /\ loop'.reading = loop.reading /\ loop'.batch = loop.batch
<1>1. loop \in [at : Stage, reading : Seq(Nat), batch : Nat, outcome : Terminal]
  BY DEF TypeOK
<1>2. \/ loop' = [loop EXCEPT !.at = stage]
      \/ \E outcome \in Terminal : loop' = [loop EXCEPT !.at = stage, !.outcome = outcome]
  BY DEF Go, End
<1> QED
  BY <1>1, <1>2

(* The seal and the settlement write a status of the turn.                 *)
LEMMA SealType ==
  ASSUME TypeOK, Seal \/ \E status \in TurnStatus : Settle(status)
  PROVE  turn' \in TurnStatus
BY DEF TypeOK, Seal, Settle, TurnStatus

(* The steps of the loop that keep the trajectory and the checkpoint, and  *)
(* only move on or seal.                                                   *)
LEMMA MovingKeepsLog ==
  ASSUME TypeOK,
         \/ BeginIteration /\ loop'.at \notin {"consume", "consumeLast"}
         \/ LeaveLoop \/ GoRound \/ ModelFails \/ Exhausted
         \/ Answer \/ FinishTool \/ Grace \/ SealResult
  PROVE  TypeOK' /\ LogQuiet
<1> DEFINE moved == /\ loop' \in [at : Stage, reading : Seq(Nat), batch : Nat, outcome : Terminal]
                    /\ loop'.at \notin {"consume", "consumeLast"}
<1>1. UNCHANGED <<inputs, request, saved, memory, toolsRun, modelRuns, crashes>>
  BY DEF BeginIteration, LeaveLoop, GoRound, ModelFails, Exhausted, Answer, FinishTool,
         Grace, SealResult, LoopKeeps, history
<1>2. loop.at \in Live
  BY DEF BeginIteration, LeaveLoop, GoRound, ModelFails, Exhausted, Answer, FinishTool,
         Grace, SealResult, At, Live
<1>3. turn' \in TurnStatus
  <2>1. turn' = turn \/ Seal
    BY DEF BeginIteration, LeaveLoop, GoRound, ModelFails, Exhausted, Answer, FinishTool,
           Grace, SealResult
  <2> QED
    BY <2>1, SealType DEF TypeOK
<1>4. moved
  <2>1. CASE SealResult
    <3>1. \E o \in Terminal : loop' = [loop EXCEPT !.at = "terminal", !.outcome = o]
      BY <2>1 DEF SealResult, TypeOK, Terminal
    <3>2. "terminal" \in Stage /\ loop \in [at : Stage, reading : Seq(Nat), batch : Nat, outcome : Terminal]
      BY DEF TypeOK, Stage
    <3> QED
      BY <3>1, <3>2
  <2>2. CASE ~SealResult
    <3>1. \/ \E stage \in {"top", "after", "throw"} : Go(stage)
          \/ \E outcome \in {"cancelled", "succeeded", "partial", "failed"} : End(outcome)
      <4>1. BeginIteration /\ loop'.at \notin {"consume", "consumeLast"} => End("cancelled")
        BY DEF BeginIteration, ReadPending, TypeOK
      <4>2. LeaveLoop \/ GoRound \/ Exhausted => Go("after") \/ Go("top")
        BY DEF LeaveLoop, GoRound, Exhausted
      <4>3. ModelFails => End("cancelled") \/ End("partial") \/ Go("throw")
        BY DEF ModelFails
      <4>4. Answer => End("cancelled") \/ End("succeeded") \/ Go("top")
        BY DEF Answer
      <4>5. FinishTool => End("succeeded") \/ Go("top") \/ Go("after")
        BY DEF FinishTool
      <4>6. Grace => End("cancelled") \/ End("partial") \/ End("failed")
        BY DEF Grace
      <4> QED
        BY <2>2, <4>1, <4>2, <4>3, <4>4, <4>5, <4>6, Zenon
    <3>2. ASSUME NEW stage \in {"top", "after", "throw"}, Go(stage) PROVE moved
      <4>1. stage \in Stage
        BY DEF Stage
      <4> QED
        BY <3>2, <4>1, MoveType
    <3>3. ASSUME NEW outcome \in {"cancelled", "succeeded", "partial", "failed"}, End(outcome)
          PROVE  moved
      <4>1. outcome \in Terminal /\ "result" \in Stage
        BY DEF Terminal, Stage
      <4> QED
        BY <3>3, <4>1, MoveType
    <3> HIDE DEF moved
    <3> QED
      BY <3>1, <3>2, <3>3
  <2> QED
    BY <2>1, <2>2
<1> QED
  BY <1>1, <1>2, <1>3, <1>4 DEF TypeOK, LogQuiet

(* The steps that checkpoint the trajectory or count tools in it, and those *)
(* that end the turn and its request.                                      *)
LEMMA CheckpointKeepsLog ==
  ASSUME TypeOK,
         \/ Clarify \/ (\E n \in BatchSizes : CallTools(n))
         \/ ExecuteTools \/ Observe \/ SaveTerminal \/ Complete \/ Finalize \/ Report
  PROVE  TypeOK' /\ LogQuiet
<1> DEFINE LoopType == [at : Stage, reading : Seq(Nat), batch : Nat, outcome : Terminal]
<1>0. /\ saved \in [phase : Phase, trajectory : Trajectory] /\ memory \in Trajectory
      /\ loop \in LoopType /\ inputs \in Seq(Input) /\ Len(inputs) <= MaxInputs
      /\ turn \in TurnStatus /\ request \in Request
      /\ toolsRun \in Nat /\ modelRuns \in Nat /\ crashes \in 0..MaxCrashes
  BY DEF TypeOK
<1>1. CASE Clarify
  <2>1. UNCHANGED <<inputs, request, toolsRun, modelRuns, crashes>> /\ loop.at \in Live
    BY <1>1 DEF Clarify, LoopKeeps, history, At, Live
  <2>2. memory' = [memory EXCEPT !.question = TRUE]
        /\ saved' = [phase |-> "waiting_user", trajectory |-> memory']
    BY <1>1 DEF Clarify, Checkpoint
  <2>3. memory' \in Trajectory /\ memory'.seen = memory.seen
    BY <1>0, <2>2 DEF Trajectory
  <2>4. saved' \in [phase : Phase, trajectory : Trajectory]
        /\ saved'.trajectory.seen = memory.seen
    BY <2>2, <2>3 DEF Phase
  <2>5. turn' \in TurnStatus
    BY <1>1, SealType DEF Clarify, TurnStatus
  <2>6. loop' \in LoopType /\ loop'.at = "pause"
    BY <1>1, MoveType DEF Clarify, Stage
  <2> HIDE DEF LoopType
  <2>7. TypeOK'
    BY <1>0, <2>1, <2>3, <2>4, <2>5, <2>6 DEF TypeOK, LoopType
  <2>8. LogQuiet
    BY <2>1, <2>3, <2>4, <2>6 DEF LogQuiet
  <2> QED
    BY <2>7, <2>8
<1>2. CASE (\E n \in BatchSizes : CallTools(n)) \/ Observe \/ SaveTerminal
  <2>1. UNCHANGED <<inputs, request, turn, memory, toolsRun, modelRuns, crashes>>
        /\ loop.at \in Live
    BY <1>2 DEF CallTools, Observe, SaveTerminal, LoopKeeps, history, At, Live
  <2>2. \E phase \in {"executing_tools", "ready", "terminal"} :
          saved' = [phase |-> phase, trajectory |-> memory]
    BY <1>2 DEF CallTools, Observe, SaveTerminal, Checkpoint
  <2>3. saved' \in [phase : Phase, trajectory : Trajectory]
        /\ saved'.trajectory.seen = memory.seen
    BY <1>0, <2>2 DEF Phase
  <2>4. loop' \in LoopType /\ loop'.at \notin {"consume", "consumeLast"}
    <3>1. CASE \E n \in BatchSizes : CallTools(n)
      <4>1. \E n \in Nat : loop' = [loop EXCEPT !.at = "tools", !.batch = n]
        BY <3>1, BudgetAssumption DEF CallTools
      <4>2. "tools" \in Stage
        BY DEF Stage
      <4> QED
        BY <1>0, <4>1, <4>2
    <3>2. CASE Observe \/ SaveTerminal
      <4>1. PICK stage \in {"top", "after", "finishing", "complete"} : Go(stage)
        BY <3>2 DEF Observe, SaveTerminal
      <4>2. stage \in Stage
        BY DEF Stage
      <4> QED
        BY <4>1, <4>2, MoveType
    <3> QED
      BY <1>2, <3>1, <3>2
  <2> HIDE DEF LoopType
  <2>5. TypeOK'
    BY <1>0, <2>1, <2>3, <2>4 DEF TypeOK, LoopType
  <2>6. LogQuiet
    BY <2>1, <2>3, <2>4 DEF LogQuiet
  <2> QED
    BY <2>5, <2>6
<1>3. CASE ExecuteTools
  <2>1. UNCHANGED <<inputs, request, turn, saved, modelRuns, crashes>> /\ loop.at \in Live
    BY <1>3 DEF ExecuteTools, At, Live
  <2>2. toolsRun' \in Nat
    BY <1>0, <1>3 DEF ExecuteTools
  <2>3. memory' \in Trajectory /\ memory'.seen = memory.seen
    <3>1. memory' = memory \/ memory' = [memory EXCEPT !.toolCalls = @ + loop.batch]
      BY <1>3 DEF ExecuteTools
    <3>2. memory.toolCalls + loop.batch \in Nat
      BY <1>0 DEF Trajectory
    <3> QED
      BY <1>0, <3>1, <3>2 DEF Trajectory
  <2>4. loop' \in LoopType /\ loop'.at \notin {"consume", "consumeLast"}
    <3>1. Go("observe") \/ Go("throw") \/ End("cancelled")
      BY <1>3 DEF ExecuteTools
    <3>2. {"observe", "throw", "result"} \subseteq Stage /\ "cancelled" \in Terminal
      BY DEF Stage, Terminal
    <3> QED
      BY <3>1, <3>2, MoveType
  <2> HIDE DEF LoopType
  <2>5. TypeOK'
    BY <1>0, <2>1, <2>2, <2>3, <2>4 DEF TypeOK, LoopType
  <2>6. LogQuiet
    BY <2>1, <2>3, <2>4 DEF LogQuiet
  <2> QED
    BY <2>5, <2>6
<1>4. CASE Complete
  <2>1. UNCHANGED <<inputs, saved, memory, request, toolsRun, modelRuns, crashes>>
    BY <1>4 DEF Complete, LoopKeeps, history
  <2>2. /\ loop' \in LoopType /\ loop'.at \in {"finalize", "commitPause"}
        /\ \/ Settle(loop.outcome) \/ Settle("waiting_user_input")
           \/ Settle("cancelled") \/ Settle("failed")
    <3>1. {"finalize", "commitPause"} \subseteq Stage /\ {"cancelled", "failed"} \subseteq Terminal
      BY DEF Stage, Terminal
    <3>2. CASE At("complete") /\ Settle(loop.outcome) /\ Go("finalize")
      BY <3>1, <3>2, MoveType
    <3>3. CASE At("pause") /\ Settle(PausedStatus) /\ Go("commitPause")
      BY <3>1, <3>3, MoveType DEF PausedStatus
    <3>4. ASSUME NEW o \in {"cancelled", "failed"}, Settle(loop'.outcome),
                 loop' = [loop EXCEPT !.at = "finalize", !.outcome = o]
          PROVE  loop' \in LoopType /\ loop'.at = "finalize" /\ Settle(o)
      <4>1. loop' \in LoopType /\ loop'.at = "finalize" /\ loop'.outcome = o
        BY <1>0, <3>1, <3>4
      <4> QED
        BY <3>4, <4>1
    <3>5. \/ At("complete") /\ Settle(loop.outcome) /\ Go("finalize")
          \/ At("pause") /\ Settle(PausedStatus) /\ Go("commitPause")
          \/ Settle(loop'.outcome) /\ \E o \in {"cancelled", "failed"} :
               loop' = [loop EXCEPT !.at = "finalize", !.outcome = o]
      BY <1>4 DEF Complete
    <3> HIDE DEF LoopType
    <3> QED
      BY <3>2, <3>3, <3>4, <3>5
  <2>3. turn' \in TurnStatus
    <3>1. {loop.outcome, "waiting_user_input", "cancelled", "failed"} \subseteq TurnStatus
      BY <1>0 DEF TurnStatus, Terminal
    <3> QED
      BY <2>2, <3>1, SealType
  <2> HIDE DEF LoopType
  <2>4. TypeOK'
    BY <1>0, <2>1, <2>2, <2>3 DEF TypeOK, LoopType
  <2>5. LogQuiet
    BY <2>1, <2>2 DEF LogQuiet, Live
  <2> QED
    BY <2>4, <2>5
<1>5. CASE Finalize
  <2>1. UNCHANGED <<turn, inputs, saved, memory, request, toolsRun, modelRuns, crashes>>
    BY <1>5 DEF Finalize, LoopKeeps, history
  <2>2. loop' \in LoopType /\ loop'.at \in {"report", "markWaiting"}
    BY <1>0, <1>5 DEF Finalize, Go, Stage, Terminal
  <2> HIDE DEF LoopType
  <2>3. TypeOK'
    BY <1>0, <2>1, <2>2 DEF TypeOK, LoopType
  <2>4. LogQuiet
    BY <2>1, <2>2 DEF LogQuiet, Live
  <2> QED
    BY <2>3, <2>4
<1>6. CASE Report
  <2>1. UNCHANGED <<turn, inputs, saved, toolsRun, modelRuns, crashes>>
    BY <1>6 DEF Report, history
  <2>2. request' \in Request
    BY <1>0, <1>6 DEF Report, Request, Over
  <2>3. loop' = Idle /\ memory' = Fresh /\ loop'.at = "idle"
    BY <1>6 DEF Report, Idle
  <2>4. TypeOK'
    BY <1>0, <2>1, <2>2, <2>3, IdleType DEF TypeOK
  <2>5. LogQuiet
    BY <2>1, <2>3 DEF LogQuiet, Live
  <2> QED
    BY <2>4, <2>5
<1> QED
  BY <1>1, <1>2, <1>3, <1>4, <1>5, <1>6

-----------------------------------------------------------------------------
(* Every step keeps the types and the log.                                 *)
LEMMA NextKeepsLog ==
  TypeOK /\ LogInv /\ [Next]_vars => TypeOK' /\ LogInv'
<1> SUFFICES ASSUME TypeOK, LogInv, [Next]_vars
             PROVE  TypeOK' /\ LogInv'
  OBVIOUS
<1>1. CASE AppendInput
  BY <1>1, AppendKeepsLog
<1>2. CASE Stop \/ Claim \/ Crash \/ Abandon
  BY <1>2, OutsideKeepsLog, QuietKeepsLog
<1>3. CASE Start
  BY <1>3, StartKeepsLog
<1>4. CASE Iterate \/ ConsumeLast
  BY <1>4, IterateKeepsLog
<1>5. CASE BeginIteration \/ ReadLast
  <2>1. CASE loop'.at \in {"consume", "consumeLast"}
    BY <1>5, <2>1, ReadingKeepsLog
  <2>2. CASE loop'.at \notin {"consume", "consumeLast"}
    <3>1. BeginIteration
      BY <1>5, <2>2 DEF ReadLast, ReadPending, TypeOK
    <3> QED
      BY <2>2, <3>1, MovingKeepsLog, QuietKeepsLog
  <2> QED
    BY <2>1, <2>2
<1>6. CASE LeaveLoop \/ GoRound \/ ModelFails \/ Exhausted \/ Answer \/ FinishTool
           \/ Grace \/ SealResult
  BY <1>6, MovingKeepsLog, QuietKeepsLog
<1>7. CASE Clarify \/ (\E n \in BatchSizes : CallTools(n)) \/ ExecuteTools \/ Observe
           \/ SaveTerminal \/ Complete \/ Finalize \/ Report
  BY <1>7, CheckpointKeepsLog, QuietKeepsLog
<1>8. CASE UNCHANGED vars
  <2>1. UNCHANGED <<turn, inputs, saved, request, memory, loop, toolsRun, modelRuns, crashes>>
    BY <1>8 DEF vars, history
  <2>2. TypeOK'
    BY <2>1 DEF TypeOK
  <2>3. LogQuiet
    BY <2>1 DEF LogQuiet
  <2> QED
    BY <2>2, <2>3, QuietKeepsLog
<1> QED
  BY <1>1, <1>2, <1>3, <1>4, <1>5, <1>6, <1>7, <1>8 DEF Next, LoopStep

(* A turn starts with an empty log.                                        *)
LEMMA InitLog ==
  Init => TypeOK /\ LogInv
<1> SUFFICES ASSUME Init PROVE TypeOK /\ LogInv
  OBVIOUS
<1>1. TypeOK
  <2>1. inputs \in Seq(Input) /\ Len(inputs) = 0 /\ 0 <= MaxInputs /\ 0 \in 0..MaxCrashes
    BY BoundsAssumption DEF Init
  <2> QED
    BY <2>1, IdleType DEF Init, TypeOK, TurnStatus, Request, Phase
<1>2. LogAt(0)
  <2>1. Segment(0, 0) = <<>>
    BY SegmentType, 0 \in Nat, 0 <= 0
  <2>2. ConsumedUpTo(0)
    BY DEF Init, ConsumedUpTo
  <2>3. saved.trajectory.seen = <<>> /\ loop.at = "idle"
    BY DEF Init, Fresh, Idle
  <2> QED
    BY <2>1, <2>2, <2>3 DEF LogAt, Live
<1>3. 0 \in 0..Len(inputs)
  BY DEF Init
<1> QED
  BY <1>1, <1>2, <1>3 DEF LogInv

(* Types: every variable of a turn keeps its type, and the log and the     *)
(* number of crashes their bounds.                                         *)
THEOREM TypeCorrect == Spec => []TypeOK
<1>1. TypeOK /\ LogInv /\ [Next]_vars => (TypeOK /\ LogInv)'
  BY NextKeepsLog
<1> QED
  BY <1>1, InitLog, PTL DEF Spec

(* Every input a user adds enters the trajectory once and in order, over   *)
(* pauses, crashes and resumptions.                                        *)
THEOREM InputsReadOnceInOrderHolds == Spec => []InputsReadOnceInOrder
<1>1. ASSUME TypeOK, LogInv PROVE InputsReadOnceInOrder
  <2>1. PICK k \in 0..Len(inputs) : LogAt(k)
    BY <1>1 DEF LogInv
  <2>2. inputs \in Seq(Input) /\ Len(inputs) \in Nat /\ k \in Nat /\ k <= Len(inputs)
    BY <1>1, <2>1 DEF TypeOK
  <2>3. ConsumedInputs = 1..k
    BY <2>1, <2>2 DEF LogAt, ConsumedUpTo, ConsumedInputs
  <2>4. Cardinality(1..k) = k
    <3>1. CASE k = 0
      BY <3>1, FS_EmptySet
    <3>2. CASE k > 0
      BY <2>2, <3>2, FS_Interval
    <3> QED
      BY <2>2, <3>1, <3>2
  <2>5. saved.trajectory.seen = [i \in 1..k |-> i]
    BY <2>1, <2>2 DEF LogAt, Segment
  <2> QED
    BY <2>3, <2>4, <2>5 DEF InputsReadOnceInOrder
<1>2. TypeOK /\ LogInv /\ [Next]_vars => (TypeOK /\ LogInv)'
  BY NextKeepsLog
<1> QED
  BY <1>1, <1>2, InitLog, PTL DEF Spec

-----------------------------------------------------------------------------
(* What the request says of the loop.                                      *)
Inside == {"top", "consume", "model", "tools", "observe", "finishing", "after", "consumeLast",
           "grace", "result", "terminal", "complete", "pause", "throw",
           "finalize", "commitPause", "report", "markWaiting"}

RequestInv ==
  /\ loop.at \in Inside => request \in {"RUNNING", "CANCELLING"}
  /\ loop.at = "claimed" => request \in {"STARTING", "CANCELLING"}

(* The tools in the checkpoint, if the turn can be resumed from it, and    *)
(* those in memory are the tools that ran.                                 *)
Resumable == saved.phase \in {"none", "ready", "waiting_user"}

ToolInv ==
  /\ toolsRun <= MaxToolCalls
  /\ request \in {"QUEUED", "STARTING", "WAITING_USER"} => Resumable
  /\ Resumable => saved.trajectory.toolCalls = toolsRun
  /\ loop.at \in {"top", "consume", "model", "tools", "observe", "finishing", "after",
                  "consumeLast", "pause"} => memory.toolCalls = toolsRun
  /\ loop.at \in {"tools", "observe"} => saved.phase = "executing_tools"
  /\ loop.at = "tools" => toolsRun + loop.batch <= MaxToolCalls
  /\ loop.at \in {"pause", "commitPause", "markWaiting"} => saved.phase = "waiting_user"

(* The loop runs only under a request that was claimed.                    *)
LEMMA NextKeepsRequest ==
  TypeOK /\ RequestInv /\ [Next]_vars => RequestInv'
<1> SUFFICES ASSUME TypeOK, RequestInv, [Next]_vars
             PROVE  RequestInv'
  OBVIOUS
<1>0. loop \in [at : Stage, reading : Seq(Nat), batch : Nat, outcome : Terminal]
  BY DEF TypeOK
<1>1. CASE AppendInput
  BY <1>1 DEF AppendInput, RequestInv
<1>2. CASE Stop
  BY <1>2 DEF Stop, RequestInv, Inside
<1>3. CASE Claim
  BY <1>0, <1>3 DEF Claim, Go, RequestInv, Inside
<1>4. CASE Start
  BY <1>0, <1>4 DEF Start, Go, RequestInv, Inside, Idle, cancelling
<1>5. CASE Crash \/ Abandon
  BY <1>5 DEF Crash, Abandon, RequestInv, Inside, Idle, At
<1>6. CASE LoopStep
  <2>1. CASE Report
    BY <2>1 DEF Report, RequestInv, Inside, Idle
  <2>2. CASE ~Report
    <3>1. request' = request
      BY <1>6, <2>2 DEF LoopStep, BeginIteration, LeaveLoop, ReadLast, Iterate, GoRound,
         ModelFails, Clarify, Exhausted, Answer, CallTools, ExecuteTools, Observe, FinishTool,
         ConsumeLast, Grace, SealResult, SaveTerminal, Complete, Finalize, LoopKeeps
    <3>2. loop.at \in Inside
      BY <1>6, <2>2 DEF LoopStep, BeginIteration, LeaveLoop, ReadLast, Iterate, GoRound,
         ModelFails, Clarify, Exhausted, Answer, CallTools, ExecuteTools, Observe, FinishTool,
         ConsumeLast, Grace, SealResult, SaveTerminal, Complete, Finalize, At, Inside
    <3>3. loop'.at # "claimed"
      <4>1. \/ \E stage \in {"top", "model", "tools", "observe", "finishing", "after", "grace",
                              "terminal", "complete", "pause", "throw", "consume",
                              "consumeLast", "result", "finalize", "commitPause", "report",
                              "markWaiting"} : loop'.at = stage
        BY <1>0, <1>6, <2>2 DEF LoopStep, BeginIteration, LeaveLoop, ReadLast, Iterate, GoRound,
           ModelFails, Clarify, Exhausted, Answer, CallTools, ExecuteTools, Observe, FinishTool,
           ConsumeLast, Grace, SealResult, SaveTerminal, Complete, Finalize, Go, End, ReadPending
      <4> QED
        BY <4>1
    <3> QED
      BY <3>1, <3>2, <3>3 DEF RequestInv
  <2> QED
    BY <2>1, <2>2
<1>7. CASE UNCHANGED vars
  BY <1>7 DEF vars, RequestInv
<1> QED
  BY <1>1, <1>2, <1>3, <1>4, <1>5, <1>6, <1>7 DEF Next

(* Every tool that runs is counted before the turn can be resumed.         *)
LEMMA NextKeepsTools ==
  TypeOK /\ RequestInv /\ ToolInv /\ [Next]_vars => ToolInv'
<1> SUFFICES ASSUME TypeOK, RequestInv, ToolInv, [Next]_vars
             PROVE  ToolInv'
  OBVIOUS
<1>0. /\ loop \in [at : Stage, reading : Seq(Nat), batch : Nat, outcome : Terminal]
      /\ saved \in [phase : Phase, trajectory : Trajectory] /\ memory \in Trajectory
      /\ toolsRun \in Nat
  BY DEF TypeOK
<1>a. MaxToolCalls \in Nat
  BY BudgetAssumption
<1>1. CASE AppendInput
  BY <1>1 DEF AppendInput, history, ToolInv, Resumable
<1>2. CASE Stop
  BY <1>2 DEF Stop, history, ToolInv, Resumable
<1>3. CASE Claim
  BY <1>0, <1>3 DEF Claim, Wakeable, At, Go, history, ToolInv, Resumable
<1>4. CASE Start
  <2>1. CASE cancelling
    BY <1>4, <2>1 DEF Start, At, Idle, history, ToolInv, Resumable
  <2>2. CASE ~cancelling
    <3>1. request = "STARTING"
      BY <1>4, <2>2 DEF Start, At, cancelling, RequestInv
    <3>2. memory' = saved.trajectory /\ loop'.at = "top" /\ request' = "RUNNING"
          /\ UNCHANGED <<saved, toolsRun>>
      BY <1>0, <1>4, <2>2 DEF Start, Restored, Go, history
    <3> QED
      BY <3>1, <3>2 DEF ToolInv, Resumable
  <2> QED
    BY <2>1, <2>2
<1>5. CASE Crash
  BY <1>5 DEF Crash, Idle, ToolInv, Resumable
<1>6. CASE Abandon
  BY <1>6 DEF Abandon, history, At, ToolInv, Resumable
<1>7. CASE BeginIteration \/ LeaveLoop \/ ReadLast \/ GoRound \/ ModelFails \/ Exhausted
           \/ Answer \/ Grace \/ SealResult \/ FinishTool
  <2>1. UNCHANGED <<saved, memory, request, toolsRun>>
    BY <1>7 DEF BeginIteration, LeaveLoop, ReadLast, GoRound, ModelFails, Exhausted, Answer,
       Grace, SealResult, FinishTool, LoopKeeps, history
  <2>2. /\ loop'.at \in {"top", "consume", "after", "consumeLast"} =>
             loop.at \in {"top", "model", "after", "finishing"}
        /\ loop'.at \in {"top", "consume", "after", "consumeLast", "result", "throw", "terminal"}
    BY <1>0, <1>7 DEF BeginIteration, LeaveLoop, ReadLast, GoRound, ModelFails, Exhausted, Answer,
       Grace, SealResult, FinishTool, At, Go, End, ReadPending
  <2> QED
    BY <2>1, <2>2 DEF ToolInv, Resumable
<1>8. CASE Iterate \/ ConsumeLast
  <2>1. UNCHANGED <<request, toolsRun>> /\ loop'.at \in {"model", "grace"}
        /\ loop.at \in {"consume", "consumeLast"}
    BY <1>0, <1>8 DEF Iterate, ConsumeLast, At
  <2>2. WithInputs.toolCalls = memory.toolCalls /\ Trajected.toolCalls = memory.toolCalls
    BY <1>0 DEF WithInputs, Trajected, Trajectory
  <2>3. memory'.toolCalls = memory.toolCalls
    <3>1. Trajected = memory \/ Trajected = WithInputs
      BY DEF Trajected
    <3>2. \/ memory' = [Trajected EXCEPT !.modelCalls = @ + 1]
          \/ memory' = [Trajected EXCEPT !.grace = TRUE]
      BY <1>8 DEF Iterate, ConsumeLast
    <3>3. CASE Trajected = memory
      BY <1>0, <3>2, <3>3 DEF Trajectory
    <3>4. CASE Trajected = WithInputs
      BY <1>0, <3>2, <3>4 DEF WithInputs, Trajectory
    <3> QED
      BY <3>1, <3>3, <3>4
  <2>4. \/ saved' = saved
        \/ saved'.phase = "ready" /\ saved'.trajectory.toolCalls = memory.toolCalls
    BY <1>8, <2>2 DEF Iterate, ConsumeLast, ConsumeInputs, Checkpoint
  <2>5. request \in {"RUNNING", "CANCELLING"}
    BY <2>1 DEF RequestInv, Inside
  <2> QED
    BY <2>1, <2>3, <2>4, <2>5 DEF ToolInv, Resumable
<1>9. CASE Clarify
  <2>1. UNCHANGED <<request, toolsRun>> /\ loop.at = "model" /\ loop'.at = "pause"
    BY <1>0, <1>9 DEF Clarify, LoopKeeps, history, At, Go
  <2>2. memory'.toolCalls = memory.toolCalls
        /\ saved' = [phase |-> "waiting_user", trajectory |-> memory']
    BY <1>0, <1>9 DEF Clarify, Checkpoint, Trajectory
  <2> QED
    BY <2>1, <2>2 DEF ToolInv, Resumable
<1>10. CASE \E n \in BatchSizes : CallTools(n)
  <2>1. PICK n \in BatchSizes : CallTools(n)
    BY <1>10
  <2>2. UNCHANGED <<request, memory, toolsRun>> /\ loop.at = "model" /\ loop'.at = "tools"
        /\ loop'.batch = n /\ memory.toolCalls + n <= MaxToolCalls
        /\ saved' = [phase |-> "executing_tools", trajectory |-> memory]
    BY <1>0, <2>1 DEF CallTools, LoopKeeps, history, At, Go, Checkpoint, CanExecuteTools
  <2>3. request \in {"RUNNING", "CANCELLING"}
    BY <2>2 DEF RequestInv, Inside
  <2> QED
    BY <2>2, <2>3 DEF ToolInv, Resumable
<1>11. CASE ExecuteTools
  <2>1. /\ UNCHANGED <<request, saved>> /\ loop.at = "tools"
        /\ loop'.at \in {"observe", "result", "throw"}
        /\ toolsRun' = toolsRun + loop.batch
        /\ loop'.at = "observe" => memory'.toolCalls = memory.toolCalls + loop.batch
    BY <1>0, <1>11 DEF ExecuteTools, At, Go, End, Trajectory
  <2> QED
    BY <1>0, <1>a, <2>1 DEF ToolInv, Resumable
<1>12. CASE Observe
  <2>1. UNCHANGED <<request, memory, toolsRun>> /\ loop.at = "observe"
        /\ loop'.at \in {"top", "after", "finishing"}
        /\ saved' = [phase |-> "ready", trajectory |-> memory]
    BY <1>0, <1>12 DEF Observe, LoopKeeps, history, At, Go, Checkpoint
  <2> QED
    BY <2>1 DEF ToolInv, Resumable
<1>13. CASE SaveTerminal
  <2>1. UNCHANGED <<request, memory, toolsRun>> /\ loop.at = "terminal"
        /\ loop'.at = "complete" /\ saved'.phase = "terminal"
    BY <1>0, <1>13 DEF SaveTerminal, LoopKeeps, history, At, Go, Checkpoint
  <2>2. request \in {"RUNNING", "CANCELLING"}
    BY <2>1 DEF RequestInv, Inside
  <2> QED
    BY <2>1, <2>2 DEF ToolInv, Resumable
<1>14. CASE Complete \/ Finalize
  <2>1. /\ UNCHANGED <<saved, toolsRun, request>>
        /\ \/ loop.at \in {"complete", "throw"} /\ loop'.at = "finalize"
           \/ loop.at = "pause" /\ loop'.at = "commitPause"
           \/ loop'.at = "report"
           \/ loop.at = "commitPause" /\ loop'.at = "markWaiting"
    BY <1>0, <1>14 DEF Complete, Finalize, LoopKeeps, history, At, Go
  <2> QED
    BY <2>1 DEF ToolInv, Resumable
<1>16. CASE Report
  <2>1. /\ UNCHANGED <<saved, toolsRun>> /\ loop'.at = "idle"
        /\ request' = "WAITING_USER" => loop.at = "markWaiting"
        /\ request' \in {"WAITING_USER", "CANCELLING"} \cup Over
    BY <1>16 DEF Report, history, At, Idle, cancelling, Over
  <2> QED
    BY <2>1 DEF ToolInv, Resumable, Over
<1>15. CASE UNCHANGED vars
  BY <1>15 DEF vars, history, ToolInv, Resumable
<1> QED
  BY <1>1, <1>2, <1>3, <1>4, <1>5, <1>6, <1>7, <1>8, <1>9, <1>10, <1>11, <1>12, <1>13, <1>14,
     <1>15, <1>16 DEF Next, LoopStep

(* The tools a turn runs stay within its budget, whatever interrupts it.   *)
THEOREM ToolBudgetAlwaysHolds == Spec => []ToolBudgetHolds
<1>1. Init => RequestInv /\ ToolInv
  BY BudgetAssumption DEF Init, Idle, Fresh, RequestInv, Inside, ToolInv, Resumable
<1>2. TypeOK /\ RequestInv /\ ToolInv /\ [Next]_vars => (RequestInv /\ ToolInv)'
  BY NextKeepsRequest, NextKeepsTools
<1>3. RequestInv /\ ToolInv => ToolBudgetHolds
  BY DEF ToolInv, ToolBudgetHolds
<1> QED
  BY <1>1, <1>2, <1>3, TypeCorrect, PTL DEF Spec

-----------------------------------------------------------------------------
(* A checkpoint that is read back without an answer to wait for holds no   *)
(* open question, and where the loop is about to read inputs over an open  *)
(* question there is one to read.                                          *)
QuestionInv ==
  /\ saved.phase \in {"none", "ready", "executing_tools"} => ~saved.trajectory.question
  /\ request = "QUEUED" => saved.phase = "none"
  /\ request = "STARTING" /\ saved.trajectory.question => Pending # {}
  /\ loop.at \in {"top", "after"} /\ memory.question => Pending # {}
  /\ loop.at \in {"consume", "consumeLast"} /\ memory.question => loop.reading # <<>>
  /\ loop.at \in {"model", "tools", "observe", "finishing", "grace"} => ~memory.question

(* A turn that is completing or has succeeded has nothing left to read.    *)
SealedInv ==
  /\ turn \in {"completing", "succeeded"} => Pending = {}
  /\ loop.at \in {"terminal", "complete"} /\ loop.outcome = "succeeded" => turn = "completing"

(* Only a client adds to what is unread, only the loop's reading takes     *)
(* from it.                                                                *)
LEMMA PendingChanges ==
  ASSUME TypeOK, [Next]_vars
  PROVE  /\ AppendInput => Pending \subseteq Pending'
         /\ ~AppendInput => Pending' \subseteq Pending
         /\ inputs' = inputs => Pending' = Pending
         /\ inputs' # inputs => AppendInput \/ Iterate \/ ConsumeLast
<1>0. inputs \in Seq(Input)
  BY DEF TypeOK
<1>1. inputs' = inputs => Pending' = Pending
  BY DEF Pending
<1>2. inputs' # inputs => AppendInput \/ Iterate \/ ConsumeLast
  BY DEF Next, LoopStep, Stop, Claim, Start, Crash, Abandon, BeginIteration, LeaveLoop, ReadLast,
     GoRound, ModelFails, Clarify, Exhausted, Answer, CallTools, ExecuteTools, Observe, FinishTool,
     Grace, SealResult, SaveTerminal, Complete, Finalize, Report, LoopKeeps, vars
<1>3. AppendInput => Pending \subseteq Pending'
  <2> SUFFICES ASSUME AppendInput PROVE Pending \subseteq Pending'
    OBVIOUS
  <2> DEFINE kind == IF turn = "waiting_user_input" THEN "USER_RESPONSE" ELSE "STEERING"
             new  == [kind |-> kind, consumed |-> FALSE]
  <2>1. inputs' = Append(inputs, new) /\ new \in Input
    BY DEF AppendInput, Input
  <2> HIDE DEF new
  <2>2. /\ DOMAIN inputs \subseteq DOMAIN inputs'
        /\ \A i \in DOMAIN inputs : inputs'[i] = inputs[i]
    BY <1>0, <2>1
  <2> QED
    BY <2>2 DEF Pending
<1>4. Iterate \/ ConsumeLast => Pending' \subseteq Pending
  <2> SUFFICES ASSUME Iterate \/ ConsumeLast PROVE Pending' \subseteq Pending
    OBVIOUS
  <2>1. inputs' = inputs \/ inputs' = Consumed(loop.reading)
    BY DEF Iterate, ConsumeLast, ConsumeInputs
  <2>2. CASE inputs' = Consumed(loop.reading)
    <3>1. /\ DOMAIN inputs' = DOMAIN inputs
          /\ \A i \in DOMAIN inputs :
               inputs'[i] = inputs[i] \/ inputs'[i] = [inputs[i] EXCEPT !.consumed = TRUE]
      BY <2>2 DEF Consumed
    <3>2. \A i \in DOMAIN inputs : inputs[i] \in Input
      BY <1>0
    <3>3. \A i \in DOMAIN inputs : inputs[i].consumed => inputs'[i].consumed
      BY <3>1, <3>2 DEF Input
    <3> QED
      BY <3>1, <3>3 DEF Pending
  <2> QED
    BY <1>1, <2>1, <2>2
<1> QED
  BY <1>1, <1>2, <1>3, <1>4

(* The model is only reached with the question answered.                   *)
LEMMA NextKeepsQuestion ==
  TypeOK /\ LogInv /\ RequestInv /\ QuestionInv /\ [Next]_vars => QuestionInv'
<1> SUFFICES ASSUME TypeOK, LogInv, RequestInv, QuestionInv, [Next]_vars
             PROVE  QuestionInv'
  OBVIOUS
<1>0. /\ loop \in [at : Stage, reading : Seq(Nat), batch : Nat, outcome : Terminal]
      /\ saved \in [phase : Phase, trajectory : Trajectory] /\ memory \in Trajectory
  BY DEF TypeOK
<1>1. CASE AppendInput
  <2>1. Pending # {} => Pending' # {}
    BY <1>1, PendingChanges
  <2> QED
    BY <1>1, <2>1 DEF AppendInput, QuestionInv
<1>2. CASE Stop \/ Abandon
  <2>1. UNCHANGED <<inputs, saved, memory, loop>>
        /\ request' \in {"SETTLED", "CANCELLED", "CANCELLING"}
    BY <1>2 DEF Stop, Abandon
  <2>2. Pending' = Pending
    BY <2>1, PendingChanges
  <2> QED
    BY <2>1, <2>2 DEF QuestionInv
<1>3. CASE Claim
  <2>1. UNCHANGED <<inputs, saved, memory>> /\ request' = "STARTING" /\ loop'.at = "claimed"
    BY <1>0, <1>3 DEF Claim, Go
  <2>2. Pending' = Pending
    BY <2>1, PendingChanges
  <2>3. saved.trajectory.question => Pending # {}
    BY <1>3 DEF Claim, Wakeable, QuestionInv
  <2> QED
    BY <2>1, <2>2, <2>3 DEF QuestionInv
<1>4. CASE Start
  <2>1. UNCHANGED <<inputs, saved>> /\ request' \in {"CANCELLED", "RUNNING"}
        /\ loop'.at \in {"idle", "top"}
    BY <1>0, <1>4 DEF Start, Go, Idle
  <2>2. Pending' = Pending
    BY <2>1, PendingChanges
  <2>3. loop'.at = "top" => request = "STARTING" /\ memory' = saved.trajectory
    BY <1>4 DEF Start, At, Idle, Restored, cancelling, RequestInv
  <2> QED
    BY <2>1, <2>2, <2>3 DEF QuestionInv
<1>5. CASE Crash
  <2>1. UNCHANGED <<inputs, saved, request>> /\ loop'.at = "idle"
    BY <1>5 DEF Crash, Idle
  <2>2. Pending' = Pending
    BY <2>1, PendingChanges
  <2> QED
    BY <2>1, <2>2 DEF QuestionInv
<1>6. CASE BeginIteration \/ ReadLast
  <2>1. UNCHANGED <<inputs, saved, memory, request>> /\ loop.at \in {"top", "after"}
        /\ loop'.at \in {"consume", "consumeLast", "result"}
    BY <1>0, <1>6 DEF BeginIteration, ReadLast, LoopKeeps, At, ReadPending, End
  <2>2. Pending' = Pending
    BY <2>1, PendingChanges
  <2>3. loop'.at \in {"consume", "consumeLast"} => loop'.reading = InOrder(Pending)
    BY <1>0, <1>6 DEF BeginIteration, ReadLast, ReadPending, End
  <2>4. Pending # {} => InOrder(Pending) # <<>>
    <3>1. PICK k \in 0..Len(inputs) : LogAt(k)
      BY DEF LogInv
    <3>2. inputs \in Seq(Input) /\ Len(inputs) \in Nat /\ k \in Nat /\ k <= Len(inputs)
      BY DEF TypeOK
    <3>3. Pending = (k + 1)..Len(inputs) /\ InOrder(Pending) = Segment(k, Len(inputs))
      BY <3>1, <3>2, PendingIsTheRest DEF LogAt
    <3>4. k = Len(inputs) <=> Segment(k, Len(inputs)) = <<>>
      BY <3>2, SegmentType
    <3>5. k = Len(inputs) => (k + 1)..Len(inputs) = {}
      BY <3>2
    <3> QED
      BY <3>3, <3>4, <3>5
  <2> QED
    BY <2>1, <2>2, <2>3, <2>4 DEF QuestionInv
<1>7. CASE Iterate \/ ConsumeLast
  <2>1. /\ UNCHANGED request /\ loop.at \in {"consume", "consumeLast"}
        /\ loop'.at \in {"model", "grace"}
    BY <1>0, <1>7 DEF Iterate, ConsumeLast, At
  <2>2. request \in {"RUNNING", "CANCELLING"}
    BY <2>1 DEF RequestInv, Inside
  <2>3. ~Trajected.question /\ Trajected.question \in BOOLEAN
    BY <1>0, <2>1 DEF Trajected, WithInputs, QuestionInv, Trajectory
  <2>4. ~memory'.question
    <3>1. \/ memory' = [Trajected EXCEPT !.modelCalls = @ + 1]
          \/ memory' = [Trajected EXCEPT !.grace = TRUE]
      BY <1>7 DEF Iterate, ConsumeLast
    <3>2. Trajected = memory \/ Trajected = [memory EXCEPT !.seen = @ \o loop.reading, !.question = FALSE]
      BY DEF Trajected, WithInputs
    <3>3. CASE Trajected = memory
      BY <1>0, <2>3, <3>1, <3>3 DEF Trajectory
    <3>4. CASE Trajected = [memory EXCEPT !.seen = @ \o loop.reading, !.question = FALSE]
      BY <1>0, <3>1, <3>4 DEF Trajectory
    <3> QED
      BY <3>2, <3>3, <3>4
  <2>5. saved' = saved \/ ~saved'.trajectory.question
    <3>1. \/ saved' = saved
          \/ loop.reading = <<>> /\ saved' = [phase |-> "ready", trajectory |-> memory]
          \/ saved' = [phase |-> "ready", trajectory |-> WithInputs]
      BY <1>7 DEF Iterate, ConsumeLast, ConsumeInputs, Checkpoint
    <3>2. ~WithInputs.question
      BY <1>0 DEF WithInputs, Trajectory
    <3>3. loop.reading = <<>> => ~memory.question
      BY <2>1 DEF QuestionInv
    <3> QED
      BY <3>1, <3>2, <3>3
  <2> QED
    BY <2>1, <2>2, <2>4, <2>5 DEF QuestionInv
<1>8. CASE LeaveLoop \/ GoRound \/ ModelFails \/ Exhausted \/ Answer \/ Grace \/ SealResult
           \/ FinishTool
  <2>1. UNCHANGED <<inputs, saved, memory, request>>
    BY <1>8 DEF LeaveLoop, GoRound, ModelFails, Exhausted, Answer, Grace, SealResult, FinishTool,
       LoopKeeps
  <2>2. Pending' = Pending
    BY <2>1, PendingChanges
  <2>3. /\ loop'.at \in {"top", "after", "result", "throw", "terminal"}
        /\ loop'.at \in {"top", "after"} => loop.at \in {"top", "model", "finishing"}
    BY <1>0, <1>8 DEF LeaveLoop, GoRound, ModelFails, Exhausted, Answer, Grace, SealResult,
       FinishTool, At, Go, End
  <2> QED
    BY <2>1, <2>2, <2>3 DEF QuestionInv
<1>9. CASE Clarify
  <2>1. UNCHANGED <<inputs, request>> /\ loop.at = "model" /\ loop'.at = "pause"
        /\ saved'.phase = "waiting_user"
    BY <1>0, <1>9 DEF Clarify, LoopKeeps, At, Go, Checkpoint
  <2>2. request \in {"RUNNING", "CANCELLING"}
    BY <2>1 DEF RequestInv, Inside
  <2> QED
    BY <2>1, <2>2 DEF QuestionInv
<1>10. CASE (\E n \in BatchSizes : CallTools(n)) \/ Observe
  <2>1. /\ UNCHANGED <<inputs, request, memory>> /\ saved'.trajectory = memory
        /\ loop.at \in {"model", "observe"}
        /\ loop'.at \in {"tools", "top", "after", "finishing"}
    <3>1. CASE \E n \in BatchSizes : CallTools(n)
      BY <1>0, <3>1 DEF CallTools, LoopKeeps, At, Checkpoint
    <3>2. CASE Observe
      BY <1>0, <3>2 DEF Observe, LoopKeeps, At, Go, Checkpoint
    <3> QED
      BY <1>10, <3>1, <3>2
  <2>2. request \in {"RUNNING", "CANCELLING"}
    BY <2>1 DEF RequestInv, Inside
  <2> QED
    BY <2>1, <2>2 DEF QuestionInv
<1>11. CASE SaveTerminal
  <2>1. /\ UNCHANGED <<inputs, request, memory>> /\ saved'.phase = "terminal"
        /\ loop.at = "terminal" /\ loop'.at = "complete"
    BY <1>0, <1>11 DEF SaveTerminal, LoopKeeps, At, Go, Checkpoint
  <2>2. request \in {"RUNNING", "CANCELLING"}
    BY <2>1 DEF RequestInv, Inside
  <2> QED
    BY <2>1, <2>2 DEF QuestionInv
<1>12. CASE ExecuteTools
  <2>1. UNCHANGED <<inputs, request, saved>> /\ loop.at = "tools"
        /\ loop'.at \in {"observe", "result", "throw"}
    BY <1>0, <1>12 DEF ExecuteTools, At, Go, End
  <2>2. memory'.question = memory.question
    BY <1>0, <1>12 DEF ExecuteTools, Trajectory
  <2>3. request \in {"RUNNING", "CANCELLING"}
    BY <2>1 DEF RequestInv, Inside
  <2> QED
    BY <2>1, <2>2, <2>3 DEF QuestionInv
<1>13. CASE Complete \/ Finalize
  <2>1. UNCHANGED <<inputs, saved, request, memory>>
        /\ loop'.at \in {"finalize", "commitPause", "report", "markWaiting"}
    BY <1>0, <1>13 DEF Complete, Finalize, LoopKeeps, Go
  <2>2. Pending' = Pending
    BY <2>1, PendingChanges
  <2> QED
    BY <2>1, <2>2 DEF QuestionInv
<1>15. CASE Report
  <2>1. UNCHANGED <<inputs, saved>> /\ loop'.at = "idle" /\ loop.at \in {"report", "markWaiting"}
        /\ request' \in {"SETTLED", "CANCELLED", "WAITING_USER", "CANCELLING"}
    BY <1>15 DEF Report, Idle, cancelling, At
  <2> QED
    BY <2>1 DEF QuestionInv
<1>14. CASE UNCHANGED vars
  BY <1>14 DEF vars, history, QuestionInv, Pending
<1> QED
  BY <1>1, <1>2, <1>3, <1>4, <1>5, <1>6, <1>7, <1>8, <1>9, <1>10, <1>11, <1>12, <1>13, <1>14,
     <1>15 DEF Next, LoopStep

(* The model is never called while a question waits for its answer.        *)
THEOREM QuestionAlwaysBlocksModel == Spec => []QuestionBlocksModel
<1>1. Init => RequestInv /\ QuestionInv
  BY DEF Init, Idle, Fresh, RequestInv, Inside, QuestionInv
<1>2. TypeOK /\ LogInv /\ RequestInv /\ QuestionInv /\ [Next]_vars
        => (TypeOK /\ LogInv /\ RequestInv /\ QuestionInv)'
  BY NextKeepsLog, NextKeepsRequest, NextKeepsQuestion
<1>3. QuestionInv => QuestionBlocksModel
  BY DEF QuestionInv, QuestionBlocksModel
<1> QED
  BY <1>1, <1>2, <1>3, InitLog, PTL DEF Spec

(* Between the seal and the end of the turn nothing is added.              *)
LEMMA NextKeepsSealed ==
  TypeOK /\ SealedInv /\ [Next]_vars => SealedInv'
<1> SUFFICES ASSUME TypeOK, SealedInv, [Next]_vars
             PROVE  SealedInv'
  OBVIOUS
<1>0. loop \in [at : Stage, reading : Seq(Nat), batch : Nat, outcome : Terminal]
  BY DEF TypeOK
<1>1. CASE AppendInput
  BY <1>1 DEF AppendInput, SealedInv
<1>2. ASSUME ~AppendInput PROVE Pending = {} => Pending' = {}
  BY <1>2, PendingChanges
<1>3. CASE Stop \/ Abandon
  <2>1. UNCHANGED loop /\ (turn' = turn \/ turn' \in {"cancelled", "failed"})
        /\ (loop.at # "idle" => turn' = turn) /\ inputs' = inputs
    BY <1>3 DEF Stop, Abandon, At
  <2>2. Pending' = Pending
    BY <2>1, PendingChanges
  <2> QED
    BY <2>1, <2>2 DEF SealedInv
<1>4. CASE Claim \/ Start \/ Crash
  <2>1. inputs' = inputs /\ (turn' = turn \/ turn' = "running")
        /\ loop'.at \in {"claimed", "top", "idle"}
    BY <1>0, <1>4 DEF Claim, Start, Crash, Go, Idle
  <2>2. Pending' = Pending
    BY <2>1, PendingChanges
  <2> QED
    BY <2>1, <2>2 DEF SealedInv
<1>5. CASE Iterate \/ ConsumeLast
  <2>1. turn' = turn /\ loop'.at \in {"model", "grace"}
    BY <1>0, <1>5 DEF Iterate, ConsumeLast
  <2>2. ~AppendInput
    BY <1>5, <2>1 DEF AppendInput, Iterate, ConsumeLast, At
  <2> QED
    BY <1>2, <2>1, <2>2 DEF SealedInv
<1>6. CASE \/ BeginIteration \/ LeaveLoop \/ ReadLast \/ GoRound \/ ModelFails \/ Exhausted
           \/ (\E n \in BatchSizes : CallTools(n)) \/ ExecuteTools \/ Observe \/ Grace
  <2>1. inputs' = inputs /\ turn' = turn
    BY <1>6 DEF BeginIteration, LeaveLoop, ReadLast, GoRound, ModelFails, Exhausted, CallTools,
       ExecuteTools, Observe, Grace, LoopKeeps
  <2>2. loop'.at \notin {"terminal", "complete"}
    BY <1>0, <1>6 DEF BeginIteration, LeaveLoop, ReadLast, GoRound, ModelFails, Exhausted,
       CallTools, ExecuteTools, Observe, Grace, Go, End, ReadPending
  <2>3. Pending' = Pending
    BY <2>1, PendingChanges
  <2> QED
    BY <2>1, <2>2, <2>3 DEF SealedInv
<1>7. CASE Answer \/ FinishTool
  <2>1. inputs' = inputs /\ loop'.at \notin {"terminal", "complete"} /\ Seal
    BY <1>0, <1>7 DEF Answer, FinishTool, LoopKeeps, Go, End
  <2>2. Pending' = Pending
    BY <2>1, PendingChanges
  <2> QED
    BY <2>1, <2>2 DEF SealedInv, Seal, Sealable
<1>8. CASE SealResult
  <2>1. inputs' = inputs /\ loop'.at = "terminal" /\ Seal
        /\ (loop'.outcome = "succeeded" => Sealable)
    BY <1>0, <1>8 DEF SealResult, LoopKeeps
  <2>2. Pending' = Pending
    BY <2>1, PendingChanges
  <2> QED
    BY <2>1, <2>2 DEF SealedInv, Seal, Sealable
<1>9. CASE SaveTerminal
  <2>1. inputs' = inputs /\ turn' = turn /\ loop.at = "terminal" /\ loop'.outcome = loop.outcome
    BY <1>0, <1>9 DEF SaveTerminal, LoopKeeps, At, Go
  <2>2. Pending' = Pending
    BY <2>1, PendingChanges
  <2> QED
    BY <2>1, <2>2 DEF SealedInv
<1>10. CASE Clarify
  <2>1. inputs' = inputs /\ loop'.at = "pause" /\ (turn' = turn \/ turn' = "waiting_user_input")
    BY <1>0, <1>10 DEF Clarify, LoopKeeps, Go, Settle
  <2>2. Pending' = Pending
    BY <2>1, PendingChanges
  <2> QED
    BY <2>1, <2>2 DEF SealedInv
<1>11. CASE Complete \/ Finalize \/ Report
  <2>1. /\ inputs' = inputs /\ loop'.at \notin {"terminal", "complete"}
        /\ \/ turn' = turn
           \/ loop.at = "complete" /\ turn' = loop.outcome
           \/ turn' \in {"waiting_user_input", "cancelled", "failed"}
    <3>1. CASE Complete
      <4>1. inputs' = inputs /\ loop'.at \in {"finalize", "commitPause"}
        BY <1>0, <3>1 DEF Complete, LoopKeeps, Go
      <4>2. CASE At("complete") \/ At("pause")
        BY <3>1, <4>1, <4>2 DEF Complete, Settle, PausedStatus, At
      <4>3. CASE At("throw")
        <5>1. loop'.outcome \in {"cancelled", "failed"} /\ Settle(loop'.outcome)
          BY <1>0, <3>1, <4>3 DEF Complete, At
        <5> QED
          BY <4>1, <5>1 DEF Settle
      <4> QED
        BY <3>1, <4>2, <4>3 DEF Complete
    <3>2. CASE Finalize
      <4>1. UNCHANGED <<turn, inputs>> /\ loop'.at \in {"report", "markWaiting"}
        BY <1>0, <3>2 DEF Finalize, LoopKeeps, Go
      <4> QED
        BY <4>1
    <3>3. CASE Report
      BY <3>3 DEF Report, Idle
    <3> QED
      BY <1>11, <3>1, <3>2, <3>3
  <2>2. Pending' = Pending
    BY <2>1, PendingChanges
  <2>3. loop.outcome # "completing"
    BY <1>0 DEF Terminal
  <2> QED
    BY <2>1, <2>2, <2>3 DEF SealedInv
<1>12. CASE UNCHANGED vars
  BY <1>12 DEF vars, SealedInv, Pending
<1> QED
  BY <1>1, <1>3, <1>4, <1>5, <1>6, <1>7, <1>8, <1>9, <1>10, <1>11, <1>12 DEF Next, LoopStep

(* A turn that succeeded has read everything its users added.              *)
THEOREM SucceededAlwaysReadEverything == Spec => []SucceededReadEverything
<1>1. Init => SealedInv
  BY DEF Init, Idle, SealedInv
<1>2. TypeOK /\ SealedInv /\ [Next]_vars => SealedInv'
  BY NextKeepsSealed
<1>3. SealedInv => SucceededReadEverything
  BY DEF SealedInv, SucceededReadEverything
<1> QED
  BY <1>1, <1>2, <1>3, TypeCorrect, PTL DEF Spec

-----------------------------------------------------------------------------
(* The trajectory a process works on, and the checkpoint the next one      *)
(* takes it from, count every model call as long as no process crashed.    *)
Counts(t) ==
  /\ t.modelCalls <= MaxModelCalls
  /\ modelRuns <= t.modelCalls + (IF t.grace THEN 1 ELSE 0)

Working == {"top", "consume", "model", "tools", "observe", "finishing", "after", "consumeLast",
            "pause"}

ModelCounted ==
  /\ modelRuns <= MaxModelCalls + 1
  /\ loop.at = "idle" => request \in {"QUEUED", "WAITING_USER", "CANCELLING"} \cup Over
  /\ loop.at = "idle" /\ request \in {"QUEUED", "WAITING_USER"} => Counts(saved.trajectory)
  /\ loop.at \in {"claimed", "pause", "commitPause", "markWaiting"} => Counts(saved.trajectory)
  /\ loop.at \in Working => Counts(memory)
  /\ loop.at = "consume" => memory.modelCalls < MaxModelCalls

ModelInv == crashes = 0 => ModelCounted

(* Every model call is counted before the next one is made.                *)
LEMMA NextKeepsModel ==
  TypeOK /\ RequestInv /\ ModelInv /\ [Next]_vars => ModelInv'
<1> SUFFICES ASSUME TypeOK, RequestInv, ModelInv, [Next]_vars, crashes' = 0
             PROVE  ModelCounted'
  BY DEF ModelInv
<1>0. /\ loop \in [at : Stage, reading : Seq(Nat), batch : Nat, outcome : Terminal]
      /\ saved \in [phase : Phase, trajectory : Trajectory] /\ memory \in Trajectory
      /\ modelRuns \in Nat /\ crashes \in Nat
  BY DEF TypeOK
<1>a. MaxModelCalls \in Nat \ {0}
  BY BudgetAssumption
<1>b. ModelCounted /\ ~Crash
  <2>1. ~Crash
    BY <1>0 DEF Crash
  <2>2. crashes' = crashes
    BY <2>1 DEF Next, AppendInput, Stop, Claim, Start, Abandon, LoopStep, BeginIteration,
       LeaveLoop, ReadLast, Iterate, GoRound, ModelFails, Clarify, Exhausted, Answer, CallTools,
       ExecuteTools, Observe, FinishTool, ConsumeLast, Grace, SealResult, SaveTerminal, Complete,
       Finalize, Report, LoopKeeps, history, vars
  <2> QED
    BY <2>1, <2>2 DEF ModelInv
<1>1. CASE AppendInput
  BY <1>1, <1>b DEF AppendInput, history, ModelCounted, Counts
<1>2. CASE Stop \/ Abandon
  <2>1. UNCHANGED <<saved, memory, loop, modelRuns>> /\ request' \in {"CANCELLING"} \cup Over
    BY <1>2 DEF Stop, Abandon, history, Over
  <2> QED
    BY <1>b, <2>1 DEF ModelCounted, Counts, Over
<1>3. CASE Claim
  <2>1. UNCHANGED <<saved, memory, modelRuns>> /\ loop.at = "idle" /\ loop'.at = "claimed"
    BY <1>0, <1>3 DEF Claim, At, Go, history
  <2>2. request \in {"QUEUED", "STARTING", "WAITING_USER", "RUNNING"}
    BY <1>3 DEF Claim, Wakeable
  <2> QED
    BY <1>b, <2>1, <2>2 DEF ModelCounted, Counts, Working, Over
<1>4. CASE Start
  <2>1. CASE cancelling
    BY <1>b, <1>4, <2>1 DEF Start, Idle, history, ModelCounted, Counts, Working, Over
  <2>2. CASE ~cancelling
    <3>1. UNCHANGED <<saved, modelRuns>> /\ loop.at = "claimed" /\ loop'.at = "top"
          /\ memory' = saved.trajectory
      BY <1>0, <1>4, <2>2 DEF Start, At, Go, Restored, history
    <3> QED
      BY <1>b, <3>1 DEF ModelCounted, Counts, Working
  <2> QED
    BY <2>1, <2>2
<1>5. CASE BeginIteration
  <2>1. /\ UNCHANGED <<saved, memory, request, modelRuns>> /\ loop.at = "top"
        /\ memory.modelCalls < MaxModelCalls /\ loop'.at \in {"consume", "result"}
    BY <1>0, <1>5 DEF BeginIteration, LoopKeeps, history, At, ReadPending, End
  <2> QED
    BY <1>b, <2>1 DEF ModelCounted, Counts, Working
<1>6. CASE LeaveLoop \/ ReadLast \/ GoRound \/ ModelFails \/ Exhausted \/ Answer \/ Grace
           \/ SealResult \/ FinishTool
  <2>1. UNCHANGED <<saved, memory, request, modelRuns>>
    BY <1>6 DEF LeaveLoop, ReadLast, GoRound, ModelFails, Exhausted, Answer, Grace, SealResult,
       FinishTool, LoopKeeps, history
  <2>2. /\ loop'.at \in {"top", "after", "consumeLast", "result", "throw", "terminal"}
        /\ loop'.at \in {"top", "after", "consumeLast"} =>
             loop.at \in {"top", "after", "model", "finishing"}
    BY <1>0, <1>6 DEF LeaveLoop, ReadLast, GoRound, ModelFails, Exhausted, Answer, Grace,
       SealResult, FinishTool, At, Go, End, ReadPending
  <2> QED
    BY <1>b, <2>1, <2>2 DEF ModelCounted, Counts, Working
<1>7. CASE Iterate \/ ConsumeLast
  <2>1. /\ Trajected \in [seen : {Trajected.seen}, question : BOOLEAN, modelCalls : Nat,
                            toolCalls : Nat, grace : BOOLEAN]
        /\ Trajected.modelCalls = memory.modelCalls /\ Trajected.grace = memory.grace
    BY <1>0 DEF Trajected, WithInputs, Trajectory
  <2>2. CASE Iterate
    <3>1. /\ modelRuns' = modelRuns + 1 /\ loop.at = "consume" /\ loop'.at = "model"
          /\ memory' = [Trajected EXCEPT !.modelCalls = @ + 1]
      BY <1>0, <2>2 DEF Iterate, At
    <3>2. memory'.modelCalls = memory.modelCalls + 1 /\ memory'.grace = memory.grace
      BY <2>1, <3>1
    <3>3. memory.modelCalls \in Nat /\ memory.modelCalls < MaxModelCalls /\ Counts(memory)
      BY <1>0, <1>b, <3>1 DEF ModelCounted, Working, Trajectory
    <3>4. modelRuns' <= MaxModelCalls + 1
      BY <1>0, <1>a, <3>1, <3>3 DEF Counts
    <3>5. Counts(memory)'
      BY <1>0, <1>a, <3>1, <3>2, <3>3 DEF Counts
    <3> QED
      BY <3>1, <3>4, <3>5 DEF ModelCounted
  <2>3. CASE ConsumeLast
    <3>1. /\ modelRuns' = modelRuns \/ (modelRuns' = modelRuns + 1 /\ ~memory.grace)
          /\ loop.at = "consumeLast" /\ loop'.at = "grace"
      BY <1>0, <2>3 DEF ConsumeLast, At
    <3>2. memory.modelCalls \in Nat /\ Counts(memory) /\ modelRuns <= MaxModelCalls + 1
      BY <1>0, <1>b, <3>1 DEF ModelCounted, Working, Trajectory
    <3>3. modelRuns' <= MaxModelCalls + 1
      BY <1>0, <1>a, <3>1, <3>2 DEF Counts
    <3> QED
      BY <3>1, <3>3 DEF ModelCounted, Working
  <2> QED
    BY <1>7, <2>2, <2>3
<1>8. CASE Clarify
  <2>1. /\ UNCHANGED modelRuns /\ loop.at = "model" /\ loop'.at = "pause"
        /\ memory' = [memory EXCEPT !.question = TRUE] /\ saved'.trajectory = memory'
    BY <1>0, <1>8 DEF Clarify, LoopKeeps, history, At, Go, Checkpoint
  <2>2. memory'.modelCalls = memory.modelCalls /\ memory'.grace = memory.grace
    BY <1>0, <2>1 DEF Trajectory
  <2> QED
    BY <1>b, <2>1, <2>2 DEF ModelCounted, Counts, Working
<1>9. CASE (\E n \in BatchSizes : CallTools(n)) \/ Observe \/ SaveTerminal
  <2>1. /\ UNCHANGED <<memory, modelRuns>>
        /\ \/ loop.at \in {"model", "observe"} /\ loop'.at \in {"tools", "top", "after", "finishing"}
           \/ loop'.at = "complete"
    <3>1. CASE \E n \in BatchSizes : CallTools(n)
      BY <1>0, <3>1 DEF CallTools, LoopKeeps, history, At
    <3>2. CASE Observe \/ SaveTerminal
      BY <1>0, <3>2 DEF Observe, SaveTerminal, LoopKeeps, history, At, Go
    <3> QED
      BY <1>9, <3>1, <3>2
  <2> QED
    BY <1>b, <2>1 DEF ModelCounted, Counts, Working
<1>10. CASE ExecuteTools
  <2>1. /\ UNCHANGED modelRuns /\ loop.at = "tools" /\ loop'.at \in {"observe", "result", "throw"}
        /\ memory' = memory \/ memory' = [memory EXCEPT !.toolCalls = @ + loop.batch]
    BY <1>0, <1>10 DEF ExecuteTools, At, Go, End
  <2>2. memory'.modelCalls = memory.modelCalls /\ memory'.grace = memory.grace
    BY <1>0, <2>1 DEF Trajectory
  <2> QED
    BY <1>b, <2>1, <2>2 DEF ModelCounted, Counts, Working
<1>11. CASE Complete \/ Finalize
  <2>1. /\ UNCHANGED <<saved, modelRuns>>
        /\ \/ loop'.at \in {"finalize", "report"}
           \/ loop.at = "pause" /\ loop'.at = "commitPause"
           \/ loop.at = "commitPause" /\ loop'.at = "markWaiting"
    BY <1>0, <1>11 DEF Complete, Finalize, LoopKeeps, history, At, Go
  <2> QED
    BY <1>b, <2>1 DEF ModelCounted, Counts, Working
<1>13. CASE Report
  <2>1. /\ UNCHANGED <<saved, modelRuns>> /\ loop'.at = "idle"
        /\ request' = "WAITING_USER" => loop.at = "markWaiting"
        /\ request' \in {"WAITING_USER", "CANCELLING"} \cup Over
    BY <1>13 DEF Report, history, At, Idle, cancelling, Over
  <2> QED
    BY <1>b, <2>1 DEF ModelCounted, Counts, Working, Over
<1>12. CASE UNCHANGED vars
  BY <1>b, <1>12 DEF vars, history, ModelCounted, Counts
<1> QED
  BY <1>b, <1>1, <1>2, <1>3, <1>4, <1>5, <1>6, <1>7, <1>8, <1>9, <1>10, <1>11, <1>12,
     <1>13 DEF Next, LoopStep

(* The model calls of a turn stay within its budget and one grace call,    *)
(* over every pause and every answer, unless a crash forgets some.         *)
THEOREM ModelBudgetAlwaysHolds == Spec => []ModelBudgetHolds
<1>1. Init => RequestInv /\ ModelInv
  BY BudgetAssumption DEF Init, Idle, Fresh, RequestInv, Inside, ModelInv, ModelCounted, Counts,
     Working
<1>2. TypeOK /\ RequestInv /\ ModelInv /\ [Next]_vars => (RequestInv /\ ModelInv)'
  BY NextKeepsRequest, NextKeepsModel
<1>3. ModelInv => ModelBudgetHolds
  BY DEF ModelInv, ModelCounted, ModelBudgetHolds
<1> QED
  BY <1>1, <1>2, <1>3, TypeCorrect, PTL DEF Spec

(* What a turn does is bounded in both ways, over pauses and resumptions.  *)
THEOREM BudgetsAlwaysHold == Spec => []BudgetsHold
<1>1. ToolBudgetHolds /\ ModelBudgetHolds => BudgetsHold
  BY DEF BudgetsHold
<1> QED
  BY <1>1, ToolBudgetAlwaysHolds, ModelBudgetAlwaysHolds, PTL

-----------------------------------------------------------------------------
(* Where the loop stands tells the status of the turn.  The end of a turn   *)
(* comes before the end of its request, and a crash in between leaves a    *)
(* turn that is over with a request that could start it again; a turn that *)
(* was answered is safe from that, as its checkpoint is terminal.          *)
LifeInv ==
  /\ turn = "succeeded" =>
       /\ saved.phase = "terminal" /\ loop.at # "claimed"
       /\ request \in {"RUNNING", "CANCELLING"} \cup Over
  /\ request = "SETTLED" => Completed
  /\ loop.at \in {"top", "consume", "model", "tools", "observe", "finishing", "after",
                  "consumeLast", "grace", "throw"} => turn = "running"
  /\ loop.at \in {"result", "terminal", "complete"} => turn \in {"running", "completing"}
  /\ loop.at \in {"pause", "commitPause", "markWaiting"} => turn = "waiting_user_input"
  /\ loop.at = "complete" => saved.phase = "terminal"
  /\ loop.at = "finalize" => Completed
  /\ loop.at = "report" /\ loop.outcome # "cancelled" => Completed

(* How the status of a turn may change.                                    *)
LifeStep ==
  \/ turn' = turn
  \/ turn # "succeeded" /\ turn' = "running"
  \/ turn = "running" /\ turn' = "waiting_user_input"
  \/ turn = "running" /\ Pending = {} /\ turn' = "completing"
  \/ turn = "completing" /\ turn' = "succeeded"
  \/ turn # "succeeded" /\ turn' \in {"partial", "failed", "cancelled"}

(* What happens when the request ends, and that nothing happens after it.  *)
SettledStep ==
  /\ request \in Over => UNCHANGED <<turn, inputs, saved, request>>
  /\ request \notin Over /\ request' \in Over =>
       /\ UNCHANGED <<inputs, saved>>
       /\ turn' = turn \/ (turn # "succeeded" /\ turn' \in {"failed", "cancelled"})

LEMMA NextKeepsLife ==
  ASSUME TypeOK, RequestInv, SealedInv, LifeInv, [Next]_vars
  PROVE  LifeInv' /\ LifeStep
<1>0. /\ loop \in [at : Stage, reading : Seq(Nat), batch : Nat, outcome : Terminal]
      /\ turn \in TurnStatus
  BY DEF TypeOK
<1>1. CASE AppendInput
  BY <1>1 DEF AppendInput, LifeInv, LifeStep, Completed
<1>2. CASE Stop \/ Abandon
  <2>1. /\ loop' = loop /\ saved' = saved /\ (loop.at # "idle" => turn' = turn)
        /\ turn' = turn \/ (~Completed /\ turn' \in {"failed", "cancelled"})
        /\ request' \in {"CANCELLING", "CANCELLED", "SETTLED"}
        /\ request' = "SETTLED" => Completed'
        /\ request' = "CANCELLING" => turn' = turn /\ loop.at # "idle"
    <3>1. CASE Stop
      BY <3>1 DEF Stop, Completed, Terminal
    <3>2. CASE Abandon
      BY <3>2 DEF Abandon, cancelling, At, Completed, Terminal
    <3> QED
      BY <1>2, <3>1, <3>2
  <2>2. LifeStep
    BY <2>1 DEF LifeStep, Completed, Terminal
  <2>3. turn' = "succeeded" => turn = "succeeded"
    BY <2>1
  <2> QED
    BY <2>1, <2>2, <2>3 DEF LifeInv, Completed, Over
<1>3. CASE Claim
  <2>1. turn # "succeeded"
    BY <1>3 DEF Claim, Wakeable, LifeInv, Over
  <2>2. turn' = turn /\ loop'.at = "claimed" /\ request' = "STARTING"
    BY <1>0, <1>3 DEF Claim, Go
  <2> QED
    BY <2>1, <2>2 DEF LifeInv, LifeStep
<1>4. CASE Start
  <2>1. turn # "succeeded"
    BY <1>4 DEF Start, LifeInv, At
  <2>2. \/ turn' = turn /\ loop'.at = "idle" /\ request' = "CANCELLED"
        \/ turn' = "running" /\ loop'.at = "top" /\ request' = "RUNNING"
    BY <1>0, <1>4 DEF Start, Go, Idle
  <2> QED
    BY <2>1, <2>2 DEF LifeInv, LifeStep, Completed, Terminal
<1>5. CASE Crash
  <2>1. turn' = turn /\ request' = request /\ saved' = saved /\ loop'.at = "idle"
    BY <1>5 DEF Crash, Idle
  <2> QED
    BY <2>1 DEF LifeInv, LifeStep, Completed
<1>6. CASE \/ BeginIteration \/ LeaveLoop \/ ReadLast \/ Iterate \/ GoRound \/ ModelFails
           \/ Exhausted \/ (\E n \in BatchSizes : CallTools(n)) \/ ExecuteTools \/ Observe
           \/ ConsumeLast \/ Grace
  <2>1. turn' = turn /\ turn = "running" /\ loop.at \in Inside
    BY <1>6 DEF BeginIteration, LeaveLoop, ReadLast, Iterate, GoRound, ModelFails, Exhausted,
       CallTools, ExecuteTools, Observe, ConsumeLast, Grace, LoopKeeps, At, LifeInv, Inside
  <2>2. loop'.at \in {"top", "consume", "model", "tools", "observe", "finishing", "after",
                     "consumeLast", "grace", "throw", "result"}
    BY <1>0, <1>6 DEF BeginIteration, LeaveLoop, ReadLast, Iterate, GoRound, ModelFails, Exhausted,
       CallTools, ExecuteTools, Observe, ConsumeLast, Grace, Go, End, ReadPending
  <2>3. request' = request
    BY <1>6 DEF BeginIteration, LeaveLoop, ReadLast, Iterate, GoRound, ModelFails, Exhausted,
       CallTools, ExecuteTools, Observe, ConsumeLast, Grace, LoopKeeps
  <2>4. request \in {"RUNNING", "CANCELLING"}
    BY <2>1 DEF RequestInv
  <2> QED
    BY <2>1, <2>2, <2>3, <2>4 DEF LifeInv, LifeStep
<1>7. CASE Answer \/ FinishTool
  <2>1. turn = "running" /\ Seal /\ request' = request /\ loop.at \in Inside
    BY <1>7 DEF Answer, FinishTool, At, LifeInv, LoopKeeps, Inside
  <2>2. IF Sealable THEN turn' = "completing" /\ loop'.at = "result"
                    ELSE turn' = turn /\ loop'.at \in {"top", "after"}
    BY <1>0, <1>7, <2>1 DEF Answer, FinishTool, Seal, Go, End
  <2>3. request \in {"RUNNING", "CANCELLING"}
    BY <2>1 DEF RequestInv
  <2> QED
    BY <2>1, <2>2, <2>3 DEF LifeInv, LifeStep, Sealable
<1>8. CASE SealResult
  <2>1. turn \in {"running", "completing"} /\ Seal /\ loop'.at = "terminal"
        /\ request' = request /\ loop.at \in Inside
    BY <1>0, <1>8 DEF SealResult, At, LifeInv, LoopKeeps, Inside
  <2>2. IF Sealable THEN turn' = "completing" ELSE turn' = turn
    BY <2>1 DEF Seal
  <2>3. request \in {"RUNNING", "CANCELLING"}
    BY <2>1 DEF RequestInv
  <2> QED
    BY <2>1, <2>2, <2>3 DEF LifeInv, LifeStep, Sealable
<1>9. CASE SaveTerminal
  <2>1. turn \in {"running", "completing"} /\ turn' = turn /\ loop'.at = "complete"
        /\ saved'.phase = "terminal" /\ request' = request /\ loop.at \in Inside
    BY <1>0, <1>9 DEF SaveTerminal, At, Go, LifeInv, Checkpoint, LoopKeeps, Inside
  <2>2. request \in {"RUNNING", "CANCELLING"}
    BY <2>1 DEF RequestInv
  <2> QED
    BY <2>1, <2>2 DEF LifeInv, LifeStep
<1>10. CASE Clarify
  <2>1. turn = "running" /\ turn' = "waiting_user_input" /\ loop'.at = "pause"
        /\ request' = request /\ loop.at \in Inside
    BY <1>0, <1>10 DEF Clarify, Settle, Completed, Terminal, At, Go, LifeInv, LoopKeeps, Inside
  <2>2. request \in {"RUNNING", "CANCELLING"}
    BY <2>1 DEF RequestInv
  <2> QED
    BY <2>1, <2>2 DEF LifeInv, LifeStep
<1>11. CASE Complete
  <2>1. /\ turn \in {"running", "completing", "waiting_user_input"}
        /\ request' = request /\ saved' = saved /\ loop.at \in Inside
    BY <1>11 DEF Complete, At, LifeInv, LoopKeeps, Inside
  <2>2. \/ At("complete") /\ turn' = loop.outcome /\ loop'.at = "finalize"
        \/ At("pause") /\ turn' = turn /\ loop'.at = "commitPause" /\ turn = "waiting_user_input"
        \/ At("throw") /\ turn' \in {"cancelled", "failed"} /\ loop'.at = "finalize"
    <3>1. CASE At("complete")
      BY <1>0, <1>11, <2>1, <3>1 DEF Complete, Settle, Completed, Terminal, At, Go
    <3>2. CASE At("pause")
      BY <1>0, <1>11, <2>1, <3>2 DEF Complete, Settle, Completed, Terminal, At, Go, PausedStatus,
         LifeInv
    <3>3. CASE At("throw")
      <4>1. loop'.at = "finalize" /\ loop'.outcome \in {"cancelled", "failed"}
            /\ Settle(loop'.outcome)
        BY <1>0, <1>11, <3>3 DEF Complete, At
      <4> QED
        BY <2>1, <3>3, <4>1 DEF Settle, Completed, Terminal
    <3> QED
      BY <1>11, <3>1, <3>2, <3>3 DEF Complete
  <2>3. At("complete") => /\ loop.outcome = "succeeded" => turn = "completing"
                          /\ saved.phase = "terminal" /\ loop.outcome \in Terminal
    BY <1>0 DEF At, SealedInv, LifeInv
  <2>4. request \in {"RUNNING", "CANCELLING"}
    BY <2>1 DEF RequestInv
  <2>5. LifeStep
    BY <2>1, <2>2, <2>3 DEF LifeStep, Terminal
  <2> QED
    BY <2>1, <2>2, <2>3, <2>4, <2>5 DEF LifeInv, Completed, Terminal
<1>12. CASE Finalize
  <2>1. /\ UNCHANGED <<turn, request, saved>> /\ loop.at \in Inside
        /\ \/ loop'.at = "report" /\ loop'.outcome = "cancelled"
           \/ loop.at = "finalize" /\ loop'.at = "report" /\ loop'.outcome = loop.outcome
           \/ loop.at = "commitPause" /\ loop'.at = "markWaiting"
    BY <1>0, <1>12 DEF Finalize, LoopKeeps, At, Go, Inside
  <2>2. request \in {"RUNNING", "CANCELLING"}
    BY <2>1 DEF RequestInv
  <2> QED
    BY <2>1, <2>2 DEF LifeInv, LifeStep, Completed
<1>13. CASE Report
  <2>1. /\ UNCHANGED <<turn, saved>> /\ loop'.at = "idle" /\ loop.at \in {"report", "markWaiting"}
        /\ \/ request' = "CANCELLED"
           \/ loop.at = "report" /\ loop.outcome # "cancelled" /\ request' \in {"CANCELLING", "SETTLED"}
           \/ loop.at = "markWaiting" /\ request' \in {"CANCELLING", "WAITING_USER"}
    BY <1>13 DEF Report, Idle, cancelling, At
  <2> QED
    BY <2>1 DEF LifeInv, LifeStep, Completed, Over
<1>14. CASE UNCHANGED vars
  BY <1>14 DEF vars, LifeInv, LifeStep, Completed
<1> QED
  BY <1>1, <1>2, <1>3, <1>4, <1>5, <1>6, <1>7, <1>8, <1>9, <1>10, <1>11, <1>12, <1>13, <1>14
     DEF Next, LoopStep

(* A request ends by the report of the loop, by a stop or by the recovery. *)
LEMMA SettlementIsLast ==
  ASSUME TypeOK, RequestInv, LifeInv, [Next]_vars
  PROVE  SettledStep
<1>0. loop \in [at : Stage, reading : Seq(Nat), batch : Nat, outcome : Terminal]
  BY DEF TypeOK
<1>1. CASE request \in Over
  <2>1. loop.at = "idle"
    BY <1>0, <1>1 DEF RequestInv, Inside, Stage, Over
  <2>2. ~AppendInput
    BY <1>1 DEF AppendInput, Over, LifeInv, Completed, Terminal
  <2>3. ~(Stop \/ Claim \/ Start \/ Crash \/ Abandon)
    BY <1>1, <2>1 DEF Stop, Claim, Wakeable, Start, Crash, Abandon, At, Over, cancelling
  <2>4. ~LoopStep
    BY <2>1 DEF LoopStep, BeginIteration, LeaveLoop, ReadLast, Iterate, GoRound, ModelFails,
       Clarify, Exhausted, Answer, CallTools, ExecuteTools, Observe, FinishTool, ConsumeLast,
       Grace, SealResult, SaveTerminal, Complete, Finalize, Report, At
  <2>5. UNCHANGED vars
    BY <2>2, <2>3, <2>4 DEF Next
  <2> QED
    BY <1>1, <2>5 DEF vars, SettledStep
<1>2. CASE request \notin Over /\ request' \in Over
  <2>1. Stop \/ Start \/ Abandon \/ Report
    BY <1>2 DEF Next, AppendInput, Claim, Crash, LoopStep, BeginIteration, LeaveLoop, ReadLast,
       Iterate, GoRound, ModelFails, Clarify, Exhausted, Answer, CallTools, ExecuteTools, Observe,
       FinishTool, ConsumeLast, Grace, SealResult, SaveTerminal, Complete, Finalize, LoopKeeps,
       Over, vars
  <2>2. UNCHANGED <<inputs, saved>>
    BY <2>1 DEF Stop, Start, Abandon, Report
  <2>3. turn' = turn \/ (turn # "succeeded" /\ turn' \in {"failed", "cancelled"})
    <3>1. CASE Stop
      BY <3>1 DEF Stop, Terminal
    <3>2. CASE Start
      BY <1>2, <3>2 DEF Start, Over
    <3>3. CASE Abandon
      BY <3>3 DEF Abandon, Completed, Terminal
    <3>4. CASE Report
      BY <3>4 DEF Report
    <3> QED
      BY <2>1, <3>1, <3>2, <3>3, <3>4
  <2> QED
    BY <1>2, <2>2, <2>3 DEF SettledStep
<1> QED
  BY <1>1, <1>2 DEF SettledStep

(* What the log invariant says in the words of the promise.                *)
LogFactsAt(k) ==
  /\ ConsumedInputs = 1..k
  /\ saved.trajectory.seen = Promised!Oldest(k)
  /\ Pending = (k + 1)..Len(inputs)

LogFacts == Len(inputs) \in Nat /\ \E k \in 0..Len(inputs) : LogFactsAt(k)

LEMMA LogAsPromised ==
  TypeOK /\ LogInv => LogFacts
<1> SUFFICES ASSUME TypeOK, LogInv PROVE LogFacts
  OBVIOUS
<1>1. PICK k \in 0..Len(inputs) : LogAt(k)
  BY DEF LogInv
<1>2. inputs \in Seq(Input) /\ Len(inputs) \in Nat /\ k \in Nat /\ k <= Len(inputs)
  BY <1>1 DEF TypeOK
<1>3. ConsumedInputs = 1..k /\ Pending = (k + 1)..Len(inputs)
  BY <1>1, <1>2 DEF LogAt, ConsumedUpTo, ConsumedInputs, Pending
<1>4. saved.trajectory.seen = [i \in 1..k |-> i]
  BY <1>1, <1>2 DEF LogAt, Segment
<1> QED
  BY <1>2, <1>3, <1>4 DEF LogFacts, LogFactsAt, Promised!Oldest

(* A step takes an input in, reads some, or leaves the log alone.          *)
LogUntouched ==
  /\ Len(inputs)' = Len(inputs) /\ ConsumedInputs' = ConsumedInputs
  /\ saved'.trajectory.seen = saved.trajectory.seen

InputAccepted ==
  /\ Len(inputs)' = Len(inputs) + 1 /\ ConsumedInputs' = ConsumedInputs
  /\ saved'.trajectory.seen = saved.trajectory.seen
  /\ turn \in {"running", "waiting_user_input"} /\ turn' = turn

InputsRead ==
  /\ Len(inputs)' = Len(inputs)
  /\ \E n \in 1..Len(inputs) : /\ ConsumedInputs \subseteq 1..n /\ ConsumedInputs' = 1..n
                               /\ saved'.trajectory.seen = Promised!Oldest(n)
  /\ turn = "running" /\ turn' = turn

LEMMA LogStep ==
  ASSUME TypeOK, LifeInv, LogFacts, LogFacts', [Next]_vars
  PROVE  LogUntouched \/ InputAccepted \/ InputsRead
<1>1. PICK k \in 0..Len(inputs) : LogFactsAt(k)
  BY DEF LogFacts
<1>2. PICK m \in 0..Len(inputs)' : LogFactsAt(m)'
  BY DEF LogFacts
<1>3. Len(inputs) \in Nat /\ Len(inputs)' \in Nat /\ k \in Nat /\ m \in Nat
  BY DEF LogFacts
<1>4. \A a, b \in Nat : 1..a = 1..b => a = b
  OBVIOUS
<1>5. CASE inputs' = inputs
  <2>1. Len(inputs)' = Len(inputs) /\ ConsumedInputs' = ConsumedInputs
    BY <1>5 DEF ConsumedInputs
  <2>2. k = m
    <3>1. 1..k = 1..m
      BY <1>1, <1>2, <2>1 DEF LogFactsAt
    <3> QED
      BY <1>3, <1>4, <3>1
  <2>3. saved'.trajectory.seen = saved.trajectory.seen
    BY <1>1, <1>2, <2>2 DEF LogFactsAt, Promised!Oldest
  <2> QED
    BY <2>1, <2>3 DEF LogUntouched
<1>6. CASE AppendInput
  <2>1. UNCHANGED <<turn, saved>> /\ turn \in {"running", "waiting_user_input"}
    BY <1>6 DEF AppendInput
  <2> DEFINE kind == IF turn = "waiting_user_input" THEN "USER_RESPONSE" ELSE "STEERING"
             new  == [kind |-> kind, consumed |-> FALSE]
  <2>2. inputs' = Append(inputs, new) /\ new \in Input /\ ~new.consumed /\ inputs \in Seq(Input)
    BY <1>6 DEF AppendInput, Input, TypeOK
  <2> HIDE DEF new
  <2>3. /\ Len(inputs') = Len(inputs) + 1
        /\ \A i \in DOMAIN inputs : inputs'[i] = inputs[i]
        /\ DOMAIN inputs = 1..Len(inputs)
        /\ DOMAIN inputs' = 1..Len(inputs) \cup {Len(inputs) + 1}
        /\ ~inputs'[Len(inputs) + 1].consumed
    BY <2>2
  <2>4. ConsumedInputs' = ConsumedInputs
    BY <2>3 DEF ConsumedInputs
  <2> QED
    BY <2>1, <2>3, <2>4 DEF InputAccepted
<1>7. CASE Iterate \/ ConsumeLast
  <2>1. turn = "running" /\ turn' = turn
    BY <1>7 DEF Iterate, ConsumeLast, At, LifeInv
  <2>2. inputs' = inputs \/ inputs' = Consumed(loop.reading)
    BY <1>7 DEF Iterate, ConsumeLast, ConsumeInputs
  <2>3. CASE inputs' = Consumed(loop.reading)
    <3>1. inputs \in Seq(Input) /\ DOMAIN inputs = 1..Len(inputs)
      BY DEF TypeOK
    <3>2. /\ inputs' = [i \in 1..Len(inputs) |-> inputs'[i]]
          /\ \A i \in 1..Len(inputs) : \/ inputs'[i] = inputs[i]
                                       \/ inputs'[i] = [inputs[i] EXCEPT !.consumed = TRUE]
      BY <2>3, <3>1 DEF Consumed
    <3>3. ASSUME NEW i \in 1..Len(inputs)
          PROVE  inputs'[i] \in Input /\ (inputs[i].consumed => inputs'[i].consumed)
      <4>1. inputs[i] \in Input
        BY <3>1
      <4>2. [inputs[i] EXCEPT !.consumed = TRUE] \in Input
            /\ [inputs[i] EXCEPT !.consumed = TRUE].consumed
        BY <4>1 DEF Input
      <4> QED
        BY <3>2, <4>1, <4>2
    <3>4. inputs' \in [1..Len(inputs) -> Input]
      BY <3>2, <3>3
    <3>5. Len(inputs') = Len(inputs) /\ DOMAIN inputs' = 1..Len(inputs)
      BY <1>3, <3>4
    <3>6. ConsumedInputs \subseteq ConsumedInputs'
      BY <3>1, <3>3, <3>5 DEF ConsumedInputs
    <3>7. ConsumedInputs \subseteq 1..m /\ ConsumedInputs' = 1..m
          /\ saved'.trajectory.seen = Promised!Oldest(m)
      BY <1>2, <3>6 DEF LogFactsAt, Promised!Oldest
    <3>8. CASE m = 0
      <4>1. k = 0
        BY <1>1, <1>3, <3>7, <3>8 DEF LogFactsAt
      <4>2. saved'.trajectory.seen = saved.trajectory.seen /\ ConsumedInputs' = ConsumedInputs
        BY <1>1, <3>7, <3>8, <4>1 DEF LogFactsAt
      <4> QED
        BY <3>5, <4>2 DEF LogUntouched
    <3>9. CASE m # 0
      <4>1. m \in 1..Len(inputs)
        BY <1>3, <3>5, <3>9
      <4> QED
        BY <2>1, <3>5, <3>7, <4>1 DEF InputsRead
    <3> QED
      BY <3>8, <3>9
  <2> QED
    BY <1>5, <2>2, <2>3
<1> QED
  BY <1>5, <1>6, <1>7, PendingChanges

(* A step of the turn as the promise sees it.                              *)
LEMMA PromisedStep ==
  ASSUME TypeOK, SealedInv, LogFacts, LifeStep, SettledStep,
         LogUntouched \/ InputAccepted \/ InputsRead
  PROVE  [Promised!InputsNext]_(Promised!inputsVars)
<1>1. turn \in TurnStatus
  BY DEF TypeOK
<1>2. turn' = turn => LifeOf' = LifeOf
  BY DEF LifeOf
<1>3. turn \in {"running", "waiting_user_input"} => LifeOf = "open"
  BY DEF LifeOf, Terminal
<1>4. CASE request \in Over
  <2>1. UNCHANGED <<turn, inputs, saved, request>>
    BY <1>4 DEF SettledStep
  <2>2. UNCHANGED <<Len(inputs), ConsumedInputs, saved.trajectory.seen, LifeOf, request \in Over>>
    BY <1>2, <2>1 DEF ConsumedInputs
  <2> QED
    BY <2>2 DEF Promised!inputsVars
<1>5. turn # "succeeded" => LifeOf # "answered"
  BY <1>1 DEF Terminal, TurnStatus, LifeOf
<1>6. CASE request \notin Over /\ request' \in Over
  <2>1. /\ UNCHANGED <<inputs, saved>>
        /\ turn' = turn \/ (turn # "succeeded" /\ turn' \in {"failed", "cancelled"})
    BY <1>6 DEF SettledStep
  <2>2. UNCHANGED <<Len(inputs), ConsumedInputs, saved.trajectory.seen>>
    BY <2>1 DEF ConsumedInputs
  <2>3. turn' \in {"failed", "cancelled"} => LifeOf' = "given up"
    BY DEF LifeOf, Terminal
  <2>4. LifeOf' = LifeOf \/ (LifeOf # "answered" /\ LifeOf' = "given up")
    BY <1>2, <1>5, <2>1, <2>3
  <2>5. Promised!GiveUp
    BY <1>6, <2>2, <2>4 DEF Promised!GiveUp
  <2> QED
    BY <1>6, <2>5 DEF Promised!InputsNext
<1>7. CASE request \notin Over /\ request' \notin Over
  <2>0. (request \in Over)' = (request \in Over) /\ ~(request \in Over)
    BY <1>7
  <2>1. CASE InputAccepted
    <3>1. Promised!Accept
      BY <1>2, <1>3, <2>0, <2>1 DEF InputAccepted, Promised!Accept
    <3> QED
      BY <2>0, <3>1 DEF Promised!InputsNext
  <2>2. CASE InputsRead
    <3>1. Promised!Read
      BY <1>2, <1>3, <2>0, <2>2 DEF InputsRead, Promised!Read, Promised!Oldest
    <3> QED
      BY <2>0, <3>1 DEF Promised!InputsNext
  <2>3. CASE LogUntouched
    <3>1. UNCHANGED <<Len(inputs), ConsumedInputs, saved.trajectory.seen>>
      BY <2>3 DEF LogUntouched
    <3>2. CASE turn' = turn
      BY <1>2, <2>0, <3>1, <3>2 DEF Promised!inputsVars
    <3>3. Pending = {} => Promised!Unread = {}
      <4>1. PICK k \in 0..Len(inputs) : LogFactsAt(k)
        BY DEF LogFacts
      <4>2. Len(inputs) \in Nat
        BY DEF LogFacts
      <4> QED
        BY <4>1, <4>2 DEF LogFactsAt, Promised!Unread
    <3>4. CASE turn # "succeeded" /\ turn' = "running"
      <4>1. LifeOf' = "open"
        BY <3>4 DEF LifeOf, Terminal
      <4>2. Promised!Open
        BY <1>5, <2>0, <3>1, <3>4, <4>1 DEF Promised!Open
      <4> QED
        BY <2>0, <4>2 DEF Promised!InputsNext
    <3>5. CASE turn = "running" /\ turn' = "waiting_user_input"
      <4>1. LifeOf' = LifeOf
        BY <3>5 DEF LifeOf, Terminal
      <4> QED
        BY <2>0, <3>1, <4>1 DEF Promised!inputsVars
    <3>6. CASE turn = "running" /\ Pending = {} /\ turn' = "completing"
      <4>1. LifeOf' = "sealed"
        BY <3>6 DEF LifeOf, Terminal
      <4>2. Promised!SealUp
        BY <1>3, <2>0, <3>1, <3>3, <3>6, <4>1 DEF Promised!SealUp
      <4> QED
        BY <2>0, <4>2 DEF Promised!InputsNext
    <3>7. CASE turn = "completing" /\ turn' = "succeeded"
      <4>1. Pending = {}
        BY <3>7 DEF SealedInv
      <4>2. LifeOf = "sealed" /\ LifeOf' = "answered"
        BY <3>7 DEF LifeOf, Terminal
      <4>3. Promised!Succeed
        BY <2>0, <3>1, <3>3, <4>1, <4>2 DEF Promised!Succeed
      <4> QED
        BY <2>0, <4>3 DEF Promised!InputsNext
    <3>8. CASE turn # "succeeded" /\ turn' \in {"partial", "failed", "cancelled"}
      <4>1. LifeOf' = "given up"
        BY <3>8 DEF LifeOf, Terminal
      <4>2. Promised!GiveUp
        <5>1. LifeOf # "answered" /\ (request \in Over)' \in BOOLEAN
          BY <1>5, <1>7, <3>8
        <5> QED
          BY <3>1, <4>1, <5>1 DEF Promised!GiveUp
      <4> QED
        BY <2>0, <4>2 DEF Promised!InputsNext
    <3> QED
      BY <3>2, <3>4, <3>5, <3>6, <3>7, <3>8 DEF LifeStep
  <2> QED
    BY <2>1, <2>2, <2>3
<1> QED
  BY <1>4, <1>6, <1>7

(* A turn keeps the promise TurnInputs states, step by step: what is       *)
(* accepted is read once, in order and together with its checkpoint, the   *)
(* turn is sealed only when all is read, answered only when sealed and     *)
(* once and for all, taken up again after it gave up only while its        *)
(* request is not settled, and at rest after that                          *)
(* (AgentTurnRepository.start, appendInput, checkpoint, sealInputs,        *)
(* complete; ChatTurnRecoveryService).                                     *)
THEOREM InputsPromisedHolds == Spec => InputsPromised
<1> DEFINE IInv == TypeOK /\ LogInv /\ RequestInv /\ SealedInv /\ LifeInv /\ LogFacts
<1>1. Init => IInv /\ Promised!InputsInit
  <2> SUFFICES ASSUME Init PROVE IInv /\ Promised!InputsInit
    OBVIOUS
  <2>1. TypeOK /\ LogInv /\ LogFacts
    BY InitLog, LogAsPromised
  <2>2. RequestInv /\ SealedInv /\ LifeInv
    BY DEF Init, Idle, RequestInv, Inside, SealedInv, LifeInv, Completed, Terminal
  <2>3. LifeOf = "unborn" /\ Len(inputs) = 0 /\ ConsumedInputs = {} /\ ~(request \in Over)
    <3>1. turn = "none" /\ inputs = <<>> /\ request = "QUEUED"
      BY DEF Init
    <3> QED
      BY <3>1 DEF LifeOf, ConsumedInputs, Terminal, Over
  <2>4. saved.trajectory.seen = Promised!Oldest(0)
    <3>1. PICK k \in 0..Len(inputs) : LogFactsAt(k)
      BY <2>1 DEF LogFacts
    <3> QED
      BY <2>3, <3>1 DEF LogFactsAt
  <2> QED
    BY <2>1, <2>2, <2>3, <2>4 DEF Promised!InputsInit
<1>2. ASSUME IInv, [Next]_vars
      PROVE  IInv' /\ [Promised!InputsNext]_(Promised!inputsVars)
  <2>1. TypeOK' /\ LogInv' /\ RequestInv' /\ SealedInv' /\ LifeInv' /\ LifeStep
    BY <1>2, NextKeepsLog, NextKeepsRequest, NextKeepsSealed, NextKeepsLife
  <2>2. LogFacts'
    BY <2>1, LogAsPromised, PTL
  <2>3. LogUntouched \/ InputAccepted \/ InputsRead
    BY <1>2, <2>2, LogStep
  <2>4. SettledStep
    BY <1>2, SettlementIsLast
  <2> QED
    BY <1>2, <2>1, <2>2, <2>3, <2>4, PromisedStep
<1> QED
  BY <1>1, <1>2, PTL DEF Spec, InputsPromised, Promised!InputsSpec
=============================================================================
