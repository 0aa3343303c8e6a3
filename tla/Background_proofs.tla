-------------------------- MODULE Background_proofs --------------------------
(***************************************************************************)
(* Proofs about the services in the background.                            *)
(*                                                                         *)
(* Automation: for any number of automations, callers and restarts, an     *)
(* automation has one run at a time, and a message that is unfinished has  *)
(* a turn that is going to finish it.                                      *)
(*                                                                         *)
(* GrowReviews: for any number of events, attempts and faults, the uses of *)
(* a version are counted, and both tables are worked off as LeasedJobs     *)
(* promises.                                                               *)
(***************************************************************************)
EXTENDS MCBackground, FiniteSetTheorems, SequenceTheorems, TLAPS

Read    == [status : Alive \cup Terminal, wake : 0..MaxWakes]
Found   == Automations \X (1..MaxWakes)
Request == [of : Automations \cup {Nobody},
            write : {"none", "pause", "resume", "cancel", "complete", "wake", "unwake"}]

(* The types, without the bounds of a run on what is spent.                *)
Typed ==
  /\ automation \in [Automations -> Row]
  /\ runs \in [Automations -> Seq(Run)]
  /\ found \subseteq Found
  /\ caller \in [Callers -> Request]
  /\ chat \in BOOLEAN /\ deleted \in BOOLEAN

(***************************************************************************)
(* claimDue has listed at most one automation, and that one has no open    *)
(* run: only its claim opens one, and takes it off the list.  Whether its  *)
(* row still has the wake-up time that was listed does not matter here.    *)
(***************************************************************************)
ListedOnce  == \A d, e \in found : d = e
ListedIsFree == \A d \in found : \A i \in DOMAIN runs[d[1]] : runs[d[1]][i].status \notin OpenRun

(* A request that is being served has something to write.                  *)
AsksSomething == \A c \in Callers : caller[c].of # Nobody => caller[c].write # "none"

(* What one run says of its own message.                                   *)
HasATurn(run) == run.unfinished => run.at = "agent" /\ run.status \in {"RUNNING", "CANCELLING"}

IInv == Typed /\ ListedOnce /\ ListedIsFree /\ OneOpenRun /\ UnfinishedIsRunning /\ AsksSomething

LEMMA Initially == ASSUME MaxWakes \in Nat \ {0}, Init PROVE IInv
<1>1. Typed
  <2>1. \A k \in 1..MaxWakes : Created(k) \in Row
    BY DEF Created, Row, Alive
  <2>2. Cancelled \in Row /\ NoRequest \in Request
    BY DEF Cancelled, Row, Terminal, NoRequest, Request, Nobody
  <2>3. automation \in [Automations -> Row]
    BY <2>1, <2>2 DEF Init
  <2>4. <<>> \in Seq(Run)
    BY EmptySeq
  <2>5. runs \in [Automations -> Seq(Run)] /\ caller \in [Callers -> Request]
    BY <2>2, <2>4 DEF Init
  <2> QED
    BY <2>3, <2>5 DEF Init, Typed
<1>2. \A a \in Automations : DOMAIN runs[a] = {}
  <2>1. \A a \in Automations : runs[a] = <<>>
    BY DEF Init
  <2>2. DOMAIN <<>> = {}
    OBVIOUS
  <2> QED
    BY <2>1, <2>2
<1>3. OneOpenRun /\ UnfinishedIsRunning /\ ListedOnce /\ ListedIsFree
  BY <1>2 DEF Init, OneOpenRun, UnfinishedIsRunning, ListedOnce, ListedIsFree
<1>4. AsksSomething
  BY DEF Init, AsksSomething, NoRequest, Nobody
<1> QED
  BY <1>1, <1>3, <1>4 DEF IInv

(* What is written to the row of an automation is a row.                   *)
LEMMA RowsWritten ==
  ASSUME MaxWakes \in Nat, NEW row \in Row
  PROVE  /\ \A status \in Alive \cup Terminal : Asleep(row, status) \in Row
         /\ CanWake(row) => Waking(row) \in Row
         /\ \A completes \in BOOLEAN : AfterRun(row, completes) \in Row
         /\ [row EXCEPT !.wake = 0] \in Row
         /\ \A wake \in 0..MaxWakes : [row EXCEPT !.status = "ACTIVE", !.wake = wake] \in Row
         /\ CanWake(row) => [row EXCEPT !.wake = row.wakes + 1, !.wakes = @ + 1] \in Row
<1> DEFINE Wakes == 0..MaxWakes
           A == [status : Alive \cup Terminal, wake : Wakes, wakes : Wakes]
<1>1. 0 \in Wakes /\ row.wakes \in Wakes /\ (CanWake(row) => row.wakes + 1 \in Wakes)
  BY DEF Row, CanWake
<1>2. Row = A
  BY DEF Row
<1>3. row \in A
  BY <1>2
<1> HIDE DEF Wakes
<1>4. \A status \in Alive \cup Terminal : Asleep(row, status) \in A
  BY <1>1, <1>3 DEF Asleep
<1>5. CanWake(row) => Waking(row) \in A
  BY <1>1, <1>3 DEF Waking, Alive
<1>6. [row EXCEPT !.wake = 0] \in A
  BY <1>1, <1>3
<1>7. \A wake \in Wakes : [row EXCEPT !.status = "ACTIVE", !.wake = wake] \in A
  BY <1>3 DEF Alive
<1>8. CanWake(row) => [row EXCEPT !.wake = row.wakes + 1, !.wakes = @ + 1] \in A
  BY <1>1, <1>3
<1>9. \A completes \in BOOLEAN : AfterRun(row, completes) \in A
  BY <1>4, <1>5 DEF AfterRun, Terminal
<1> QED
  BY <1>2, <1>4, <1>5, <1>6, <1>7, <1>8, <1>9 DEF Wakes

(***************************************************************************)
(* A step that opens no run and lists nothing: it has to show that an      *)
(* ended run stays one, and that each unfinished message has its turn.     *)
(***************************************************************************)
LEMMA RunsGoOn ==
  ASSUME IInv, found' \subseteq found,
         \A a \in Automations : DOMAIN runs'[a] = DOMAIN runs[a],
         \A a \in Automations : \A i \in DOMAIN runs[a] :
           /\ runs'[a][i].status \in OpenRun => runs[a][i].status \in OpenRun
           /\ HasATurn(runs'[a][i])
  PROVE  ListedOnce' /\ ListedIsFree' /\ OneOpenRun' /\ UnfinishedIsRunning'
<1>1. ListedOnce'
  BY DEF IInv, ListedOnce
<1>2. ListedIsFree'
  <2>1. \A d \in found' : d[1] \in Automations
    BY DEF IInv, Typed, Found
  <2> QED
    BY <2>1 DEF IInv, ListedIsFree
<1>3. OneOpenRun'
  BY DEF IInv, OneOpenRun
<1>4. UnfinishedIsRunning'
  BY DEF UnfinishedIsRunning, HasATurn
<1> QED
  BY <1>1, <1>2, <1>3, <1>4

(* The same for a step of one run.                                         *)
LEMMA RunMoves ==
  ASSUME IInv, NEW a \in Automations, NEW i \in DOMAIN runs[a], NEW run \in Run,
         Advance(a, i, run), found' = found,
         run.status \in OpenRun => runs[a][i].status \in OpenRun,
         HasATurn(run)
  PROVE  /\ runs' \in [Automations -> Seq(Run)]
         /\ ListedOnce' /\ ListedIsFree' /\ OneOpenRun' /\ UnfinishedIsRunning'
<1>1. /\ runs \in [Automations -> Seq(Run)] /\ runs[a] \in Seq(Run)
      /\ runs' = [runs EXCEPT ![a] = [runs[a] EXCEPT ![i] = run]]
  BY DEF IInv, Typed, Advance
<1>2. /\ [runs[a] EXCEPT ![i] = run] \in Seq(Run)
      /\ DOMAIN [runs[a] EXCEPT ![i] = run] = DOMAIN runs[a]
      /\ \A j \in DOMAIN runs[a] : [runs[a] EXCEPT ![i] = run][j] = IF j = i THEN run ELSE runs[a][j]
  BY <1>1, ExceptSeq
<1> DEFINE new == [runs[a] EXCEPT ![i] = run]
<1> HIDE DEF new
<1>3. \A b \in Automations : runs'[b] = IF b = a THEN new ELSE runs[b]
  BY <1>1 DEF new
<1>4. runs' \in [Automations -> Seq(Run)]
  BY <1>1, <1>2 DEF new
<1>5. /\ new \in Seq(Run) /\ DOMAIN new = DOMAIN runs[a]
      /\ \A j \in DOMAIN runs[a] : new[j] = IF j = i THEN run ELSE runs[a][j]
  BY <1>2 DEF new
<1>6. \A b \in Automations : \A j \in DOMAIN runs[b] : HasATurn(runs[b][j])
  BY DEF IInv, UnfinishedIsRunning, HasATurn
<1>7. \A b \in Automations : DOMAIN runs'[b] = DOMAIN runs[b]
  BY <1>3, <1>5
<1>8. \A b \in Automations : \A j \in DOMAIN runs[b] :
        /\ runs'[b][j].status \in OpenRun => runs[b][j].status \in OpenRun
        /\ HasATurn(runs'[b][j])
  BY <1>3, <1>5, <1>6
<1> QED
  BY <1>4, <1>7, <1>8, RunsGoOn

(* execute(), step by step; only the turn of the agent leaves a message    *)
(* unfinished, and it begins with a run that is RUNNING.                   *)
LEMMA ExecuteKeeps ==
  ASSUME MaxWakes \in Nat, IInv, NEW a \in Automations, NEW i \in DOMAIN runs[a], Execute(a, i)
  PROVE  IInv'
<1> DEFINE old == runs[a][i]
<1>1. /\ old \in Run /\ HasATurn(old) /\ automation[a] \in Row
      /\ automation \in [Automations -> Row]
  <2>1. runs[a] \in Seq(Run)
    BY DEF IInv, Typed
  <2> QED
    BY <2>1, ElementOfSeq DEF IInv, Typed, UnfinishedIsRunning, HasATurn
<1>2. ASSUME NEW run \in Run, Advance(a, i, run), HasATurn(run),
             run.status \in OpenRun => old.status \in OpenRun,
             automation' \in [Automations -> Row],
             UNCHANGED <<found, caller, chat, deleted>>
      PROVE  IInv'
  <2>1. /\ runs' \in [Automations -> Seq(Run)]
        /\ ListedOnce' /\ ListedIsFree' /\ OneOpenRun' /\ UnfinishedIsRunning'
    BY <1>2, RunMoves
  <2> QED
    BY <1>2, <2>1 DEF IInv, Typed, AsksSomething
<1> HIDE DEF old
<1>3. Ended(old) \in Run /\ Ended(old).status = "ENDED" /\ Ended(old).unfinished = old.unfinished
  <2>1. NothingRead \in [status : Alive \cup Terminal, wake : 0..MaxWakes]
    BY DEF NothingRead, Alive
  <2>2. Left(old) \in Run /\ Left(old).unfinished = old.unfinished
    BY <1>1, <2>1 DEF Left, Run
  <2> QED
    BY <2>2 DEF Ended, Run
<1>4. CASE PrepareRun(a, i)
  <2>1. UNCHANGED <<found, caller, chat, deleted>> /\ old.at = "none" /\ old.status = "PENDING"
    BY <1>4 DEF PrepareRun, old
  <2>2. ~old.unfinished
    BY <1>1, <2>1 DEF HasATurn
  <2>3. CASE Advance(a, i, [old EXCEPT !.status = "RUNNING", !.at = "prepared"]) /\ UNCHANGED automation
    <3>1. [old EXCEPT !.status = "RUNNING", !.at = "prepared"] \in Run
      BY <1>1 DEF Run, OpenRun
    <3>2. HasATurn([old EXCEPT !.status = "RUNNING", !.at = "prepared"])
      BY <1>1, <2>2 DEF HasATurn, Run
    <3> QED
      BY <1>1, <1>2, <2>1, <2>3, <3>1, <3>2 DEF OpenRun
  <2>4. CASE Advance(a, i, Ended(old)) /\ automation' = [automation EXCEPT ![a] = Asleep(@, "COMPLETED")]
    <3>1. automation' \in [Automations -> Row]
      BY <1>1, <2>4, RowsWritten DEF Terminal
    <3> QED
      BY <1>2, <1>3, <2>1, <2>2, <2>4, <3>1 DEF HasATurn, OpenRun
  <2> QED
    BY <1>4, <2>3, <2>4 DEF PrepareRun, old
<1>5. CASE PrepareMessages(a, i)
  <2>1. old.at = "prepared" /\ UNCHANGED <<automation, found, caller, chat, deleted>>
    BY <1>5 DEF PrepareMessages, old
  <2>2. ~old.unfinished
    BY <1>1, <2>1 DEF HasATurn
  <2>3. \/ \E at \in {"stopped", "busy"} : Advance(a, i, [old EXCEPT !.at = at])
        \/ old.status = "RUNNING" /\ Advance(a, i, [old EXCEPT !.at = "agent", !.unfinished = TRUE])
    BY <1>5 DEF PrepareMessages, old
  <2>4. ASSUME NEW at \in {"stopped", "busy"}, Advance(a, i, [old EXCEPT !.at = at])
        PROVE  IInv'
    <3>1. [old EXCEPT !.at = at] \in Run /\ HasATurn([old EXCEPT !.at = at])
      BY <1>1, <2>2 DEF Run, HasATurn
    <3>2. [old EXCEPT !.at = at].status = old.status
      BY <1>1 DEF Run
    <3> QED
      BY <1>1, <1>2, <2>1, <2>4, <3>1, <3>2
  <2>5. CASE old.status = "RUNNING" /\ Advance(a, i, [old EXCEPT !.at = "agent", !.unfinished = TRUE])
    <3>1. /\ [old EXCEPT !.at = "agent", !.unfinished = TRUE] \in Run
          /\ HasATurn([old EXCEPT !.at = "agent", !.unfinished = TRUE])
      BY <1>1, <2>5 DEF Run, HasATurn
    <3> QED
      BY <1>1, <1>2, <2>1, <2>5, <3>1 DEF OpenRun
  <2> QED
    BY <2>3, <2>4, <2>5
<1>6. CASE MarkRunPending(a, i)
  <2> DEFINE run == [old EXCEPT !.at = "none", !.status = IF @ = "RUNNING" THEN "PENDING" ELSE @]
  <2>1. old.at = "busy" /\ UNCHANGED <<automation, found, caller, chat, deleted>> /\ Advance(a, i, run)
    BY <1>6 DEF MarkRunPending, old
  <2>2. run \in Run /\ (run.status \in OpenRun => old.status \in OpenRun)
    BY <1>1 DEF Run, OpenRun
  <2>3. HasATurn(run)
    BY <1>1, <2>1 DEF HasATurn, Run
  <2> QED
    BY <1>1, <1>2, <2>1, <2>2, <2>3
<1>7. CASE Commit(a, i)
  <2>1. PICK blocked \in BOOLEAN :
          Advance(a, i, [old EXCEPT !.at = "committed", !.unfinished = FALSE, !.blocked = blocked])
    BY <1>7 DEF Commit, old
  <2> DEFINE run == [old EXCEPT !.at = "committed", !.unfinished = FALSE, !.blocked = blocked]
  <2>2. run \in Run /\ run.status = old.status /\ HasATurn(run)
    BY <1>1 DEF Run, HasATurn
  <2> QED
    BY <1>1, <1>2, <1>7, <2>1, <2>2 DEF Commit
<1>8. CASE FinishRead(a, i)
  <2> DEFINE read == [status |-> automation[a].status, wake |-> automation[a].wake]
             run  == [old EXCEPT !.at = "finishing", !.read = read]
  <2>1. old.at \in {"committed", "stopped"} /\ UNCHANGED <<automation, found, caller, chat, deleted>>
        /\ Advance(a, i, run)
    BY <1>8 DEF FinishRead, old
  <2>2. read \in Read
    BY <1>1 DEF Row, Read
  <2>3. run \in Run /\ run.status = old.status
    BY <1>1, <2>2 DEF Run, Read
  <2>4. HasATurn(run)
    BY <1>1, <2>1 DEF HasATurn, Run
  <2> QED
    BY <1>1, <1>2, <2>1, <2>3, <2>4
<1>9. CASE FinishRun(a, i)
  <2>1. PICK completes \in BOOLEAN : automation' = [automation EXCEPT ![a] = FinishRow(old, @, completes)]
    BY <1>9 DEF FinishRun, old
  <2>2. old.at = "finishing" /\ Advance(a, i, Ended(old)) /\ UNCHANGED <<found, caller, chat, deleted>>
    BY <1>9 DEF FinishRun, old
  <2>3. old.read \in Read
    BY <1>1 DEF Run, Read
  <2>4. FinishRow(old, automation[a], completes) \in Row
    <3>1. /\ Asleep(automation[a], "PAUSED") \in Row
          /\ [automation[a] EXCEPT !.wake = 0] \in Row
          /\ [automation[a] EXCEPT !.status = "ACTIVE", !.wake = old.read.wake] \in Row
      <4>1. old.read.wake \in 0..MaxWakes
        BY <2>3 DEF Read
      <4> QED
        BY <1>1, <4>1, RowsWritten DEF Alive
    <3>2. AfterRun(automation[a], completes) \in Row
      BY <1>1, RowsWritten
    <3> QED
      BY <3>1, <3>2 DEF FinishRow
  <2>5. ~old.unfinished
    BY <1>1, <2>2 DEF HasATurn
  <2> QED
    BY <1>1, <1>2, <1>3, <2>1, <2>2, <2>4, <2>5 DEF HasATurn, OpenRun
<1> QED
  BY <1>4, <1>5, <1>6, <1>7, <1>8, <1>9 DEF Execute

(* The list of what is due only has automations without an open run ...    *)
LEMMA FindDueKeeps == ASSUME IInv, FindDue PROVE IInv'
<1>1. PICK a \in Automations : automation[a].wake # 0 /\ ~HasOpenRun(a) /\ found' = {<<a, automation[a].wake>>}
  BY DEF FindDue
<1>2. UNCHANGED <<automation, runs, caller, chat, deleted>>
  BY DEF FindDue
<1>3. automation[a] \in Row
  BY DEF IInv, Typed
<1>4. automation[a].wake \in 0..MaxWakes
  BY <1>3 DEF Row
<1>5. automation[a].wake \in 1..MaxWakes
  BY <1>1, <1>4
<1>6. Typed' /\ AsksSomething'
  BY <1>1, <1>2, <1>5 DEF IInv, Typed, AsksSomething, Found
<1>7. ListedOnce' /\ ListedIsFree'
  BY <1>1, <1>2 DEF ListedOnce, ListedIsFree, HasOpenRun
<1>8. OneOpenRun' /\ UnfinishedIsRunning'
  BY <1>2 DEF IInv, OneOpenRun, UnfinishedIsRunning
<1> QED
  BY <1>6, <1>7, <1>8 DEF IInv

(* ... so that the run which a claim opens is the only one.                *)
LEMMA ClaimDueKeeps == ASSUME MaxWakes \in Nat, IInv, ClaimDue PROVE IInv'
<1>1. PICK d \in found :
        LET a   == d[1]
            row == automation[a]
            hit == row.status = "ACTIVE" /\ row.wake = d[2]
        IN /\ found' = found \ {d}
           /\ automation' = IF hit THEN [automation EXCEPT ![a].wake = 0] ELSE automation
           /\ runs' = IF hit THEN [runs EXCEPT ![a] = Append(@,
                        [status |-> "PENDING", unfinished |-> FALSE, at |-> "none",
                         blocked |-> FALSE, read |-> NothingRead])]
                      ELSE runs
           /\ UNCHANGED <<caller, chat, deleted, spent>>
  BY DEF ClaimDue
<1> DEFINE a     == d[1]
           fresh == [status |-> "PENDING", unfinished |-> FALSE, at |-> "none",
                     blocked |-> FALSE, read |-> NothingRead]
<1>2. /\ found' = {} /\ a \in Automations /\ UNCHANGED <<caller, chat, deleted>>
      /\ \A i \in DOMAIN runs[a] : runs[a][i].status \notin OpenRun
  BY <1>1 DEF IInv, ListedOnce, ListedIsFree, Typed, Found
<1> HIDE DEF a
<1>3. automation[a] \in Row /\ runs[a] \in Seq(Run)
  BY <1>2 DEF IInv, Typed
<1>4. automation' \in [Automations -> Row]
  <2>1. [automation[a] EXCEPT !.wake = 0] \in Row
    BY <1>3, RowsWritten
  <2>2. automation' = automation \/ automation' = [automation EXCEPT ![a] = [automation[a] EXCEPT !.wake = 0]]
    BY <1>1 DEF a
  <2> QED
    BY <2>1, <2>2 DEF IInv, Typed
<1>5. ListedOnce' /\ ListedIsFree' /\ AsksSomething'
  BY <1>2 DEF ListedOnce, ListedIsFree, IInv, AsksSomething
<1>6. CASE runs' = runs
  BY <1>2, <1>4, <1>5, <1>6 DEF IInv, Typed, OneOpenRun, UnfinishedIsRunning
<1>7. CASE runs' = [runs EXCEPT ![a] = Append(runs[a], fresh)]
  <2>1. fresh \in Run /\ fresh.status = "PENDING" /\ ~fresh.unfinished
    BY DEF NothingRead, Run, OpenRun, Alive
  <2> HIDE DEF fresh
  <2> DEFINE new == Append(runs[a], fresh)
             n   == Len(runs[a])
  <2>2. /\ new \in Seq(Run) /\ DOMAIN new = 1..(n + 1) /\ DOMAIN runs[a] = 1..n /\ n \in Nat
        /\ \A i \in 1..n : new[i] = runs[a][i]
        /\ new[n + 1] = fresh
    BY <1>3, <2>1, AppendProperties
  <2> HIDE DEF new, n
  <2>3. \A b \in Automations : runs'[b] = IF b = a THEN new ELSE runs[b]
    BY <1>7 DEF new, IInv, Typed
  <2>4. runs' \in [Automations -> Seq(Run)]
    BY <1>7, <2>2 DEF new, IInv, Typed
  <2>5. \A i \in 1..(n + 1) : i \in 1..n \/ i = n + 1
    BY <2>2
  <2>6. \A i \in DOMAIN new : new[i].status \in OpenRun => i = n + 1
    BY <1>2, <2>2, <2>5
  <2>7. OneOpenRun'
    BY <2>3, <2>6 DEF IInv, OneOpenRun
  <2>8. UnfinishedIsRunning'
    <3>1. \A i \in DOMAIN new : new[i].unfinished => i \in 1..n
      BY <2>1, <2>2, <2>5
    <3> QED
      BY <1>2, <2>2, <2>3, <3>1 DEF IInv, UnfinishedIsRunning
  <2> QED
    BY <1>2, <1>4, <1>5, <2>4, <2>7, <2>8 DEF IInv, Typed
<1> QED
  BY <1>1, <1>6, <1>7 DEF a

(***************************************************************************)
(* A step that goes through all the runs of some automations: it changes   *)
(* each for itself, and the message of a run it leaves unfinished is that  *)
(* of a turn that goes on.                                                 *)
(***************************************************************************)
LEMMA RunsMapped ==
  ASSUME IInv, NEW a \in Automations, NEW new,
         new = [i \in DOMAIN runs[a] |-> new[i]],
         \A i \in DOMAIN runs[a] :
           /\ new[i] \in Run
           /\ new[i].status \in OpenRun => runs[a][i].status \in OpenRun
           /\ HasATurn(new[i])
  PROVE  /\ new \in Seq(Run) /\ DOMAIN new = DOMAIN runs[a]
         /\ \A i \in DOMAIN runs[a] :
              /\ new[i].status \in OpenRun => runs[a][i].status \in OpenRun
              /\ HasATurn(new[i])
<1>1. runs[a] \in Seq(Run)
  BY DEF IInv, Typed
<1>2. DOMAIN runs[a] = 1..Len(runs[a]) /\ Len(runs[a]) \in Nat
  BY <1>1, LenProperties
<1>3. new \in [1..Len(runs[a]) -> Run]
  BY <1>2
<1>4. new \in Seq(Run)
  BY <1>2, <1>3, SeqDef
<1> QED
  BY <1>4

(* A run that is asked to stop stays one that is over, or under way.       *)
LEMMA WithdrawnRuns ==
  ASSUME IInv, NEW a \in Automations, NEW i \in DOMAIN runs[a]
  PROVE  /\ Withdrawn(a)[i] \in Run
         /\ Withdrawn(a)[i].status \in OpenRun => runs[a][i].status \in OpenRun
         /\ Withdrawn(a)[i].unfinished = runs[a][i].unfinished
         /\ HasATurn(Withdrawn(a)[i])
<1> DEFINE old == runs[a][i]
           new == Withdrawn(a)[i]
<1>1. old \in Run /\ HasATurn(old)
  <2>1. runs[a] \in Seq(Run)
    BY DEF IInv, Typed
  <2> QED
    BY <2>1, ElementOfSeq DEF IInv, UnfinishedIsRunning, HasATurn
<1>2. new = CASE old.status = "PENDING" -> [old EXCEPT !.status = "ENDED"]
              [] old.status = "RUNNING" -> [old EXCEPT !.status = "CANCELLING"]
              [] OTHER -> old
  BY DEF Withdrawn
<1> HIDE DEF old, new
<1>3. new \in Run /\ new.unfinished = old.unfinished
  BY <1>1, <1>2 DEF Run, OpenRun
<1>4. new.status \in OpenRun => old.status \in OpenRun
  BY <1>1, <1>2 DEF Run, OpenRun
<1>5. HasATurn(new)
  BY <1>1, <1>2 DEF Run, HasATurn
<1> QED
  BY <1>3, <1>4, <1>5 DEF old, new

(* A request is asked for and served: it only withdraws runs.              *)
LEMMA RequestKeeps ==
  ASSUME MaxWakes \in Nat, IInv, NEW c \in Callers, Ask(c) \/ Serve(c)
  PROVE  IInv'
<1>1. CASE Ask(c)
  <2>1. PICK a \in Automations : \E w \in Allowed(a) : caller' = [caller EXCEPT ![c] = [of |-> a, write |-> w]]
    BY <1>1 DEF Ask
  <2>2. PICK w \in Allowed(a) : caller' = [caller EXCEPT ![c] = [of |-> a, write |-> w]]
    BY <2>1
  <2>3. w \in {"pause", "resume", "cancel", "complete", "wake", "unwake"}
    BY <2>2 DEF Allowed
  <2>4. [of |-> a, write |-> w] \in Request
    BY <2>3 DEF Request
  <2>5. caller' \in [Callers -> Request] /\ AsksSomething'
    BY <2>2, <2>3, <2>4 DEF IInv, Typed, AsksSomething
  <2>6. UNCHANGED <<automation, runs, found, chat, deleted>>
    BY <1>1 DEF Ask
  <2> QED
    BY <2>5, <2>6 DEF IInv, Typed, ListedOnce, ListedIsFree, OneOpenRun, UnfinishedIsRunning
<1>2. CASE Serve(c)
  <2> DEFINE a     == caller[c].of
             write == caller[c].write
  <2>1. /\ a \in Automations
        /\ write \in {"pause", "resume", "cancel", "complete", "wake", "unwake"}
        /\ automation[a] \in Row
    BY <1>2 DEF Serve, IInv, Typed, Request, AsksSomething
  <2>2. /\ write \in {"wake", "resume"} => CanWake(automation[a])
        /\ automation' = [automation EXCEPT ![a] = Written(automation[a], write)]
        /\ runs' = IF write \in {"pause", "cancel"} THEN [runs EXCEPT ![a] = Withdrawn(a)] ELSE runs
        /\ caller' = [caller EXCEPT ![c] = NoRequest]
        /\ UNCHANGED <<found, chat, deleted>>
    BY <1>2 DEF Serve
  <2> HIDE DEF a, write
  <2>3. Written(automation[a], write) \in Row
    <3>1. CASE write \in {"pause", "cancel", "complete"}
      <4>1. /\ Asleep(automation[a], "PAUSED") \in Row /\ Asleep(automation[a], "CANCELLED") \in Row
            /\ Asleep(automation[a], "COMPLETED") \in Row
        BY <2>1, RowsWritten DEF Alive, Terminal
      <4> QED
        BY <3>1, <4>1 DEF Written
    <3>2. CASE write = "unwake"
      BY <2>1, <3>2, RowsWritten DEF Written
    <3>3. CASE write \in {"wake", "resume"}
      BY <2>1, <2>2, <3>3, RowsWritten DEF Written
    <3> QED
      BY <2>1, <3>1, <3>2, <3>3
  <2>4. automation' \in [Automations -> Row] /\ caller' \in [Callers -> Request] /\ AsksSomething'
    <3>1. NoRequest \in Request /\ NoRequest.of = Nobody
      BY DEF NoRequest, Request, Nobody
    <3> QED
      BY <2>2, <2>3, <3>1 DEF IInv, Typed, AsksSomething
  <2>5. CASE runs' = runs
    BY <2>2, <2>4, <2>5 DEF IInv, Typed, ListedOnce, ListedIsFree, OneOpenRun, UnfinishedIsRunning
  <2>6. CASE runs' = [runs EXCEPT ![a] = Withdrawn(a)]
    <3>1. Withdrawn(a) = [i \in DOMAIN runs[a] |-> Withdrawn(a)[i]]
      BY DEF Withdrawn
    <3>2. /\ Withdrawn(a) \in Seq(Run) /\ DOMAIN Withdrawn(a) = DOMAIN runs[a]
          /\ \A i \in DOMAIN runs[a] :
               /\ Withdrawn(a)[i].status \in OpenRun => runs[a][i].status \in OpenRun
               /\ HasATurn(Withdrawn(a)[i])
      BY <2>1, <3>1, WithdrawnRuns, RunsMapped
    <3>3. \A b \in Automations : runs'[b] = IF b = a THEN Withdrawn(a) ELSE runs[b]
      BY <2>6 DEF IInv, Typed
    <3>4. \A b \in Automations : \A i \in DOMAIN runs[b] : HasATurn(runs[b][i])
      BY DEF IInv, UnfinishedIsRunning, HasATurn
    <3>5. runs' \in [Automations -> Seq(Run)]
      BY <2>6, <3>2 DEF IInv, Typed
    <3>6. ListedOnce' /\ ListedIsFree' /\ OneOpenRun' /\ UnfinishedIsRunning'
      BY <2>2, <3>2, <3>3, <3>4, RunsGoOn
    <3> QED
      BY <2>2, <2>4, <3>5, <3>6 DEF IInv, Typed
  <2> QED
    BY <2>2, <2>5, <2>6
<1> QED
  BY <1>1, <1>2

(* Chat turns do not touch the runs.                                       *)
LEMMA ChatKeeps == ASSUME IInv, ChatTurn PROVE IInv'
<1>1. UNCHANGED <<automation, runs, found, caller, deleted>> /\ chat' \in BOOLEAN
  BY DEF ChatTurn
<1> QED
  BY <1>1 DEF IInv, Typed, ListedOnce, ListedIsFree, OneOpenRun, UnfinishedIsRunning, AsksSomething

(***************************************************************************)
(* The deletion of the conversation and a restart go through every run.    *)
(***************************************************************************)
LEMMA AllRunsMapped ==
  ASSUME IInv, NEW new, found' \subseteq found,
         runs' = [a \in Automations |-> new[a]],
         \A a \in Automations :
           /\ new[a] = [i \in DOMAIN runs[a] |-> new[a][i]]
           /\ \A i \in DOMAIN runs[a] :
                /\ new[a][i] \in Run
                /\ new[a][i].status \in OpenRun => runs[a][i].status \in OpenRun
                /\ HasATurn(new[a][i])
  PROVE  /\ runs' \in [Automations -> Seq(Run)]
         /\ ListedOnce' /\ ListedIsFree' /\ OneOpenRun' /\ UnfinishedIsRunning'
<1>1. ASSUME NEW a \in Automations
      PROVE  /\ new[a] \in Seq(Run) /\ DOMAIN new[a] = DOMAIN runs[a]
             /\ \A i \in DOMAIN runs[a] :
                  /\ new[a][i].status \in OpenRun => runs[a][i].status \in OpenRun
                  /\ HasATurn(new[a][i])
  BY RunsMapped
<1>2. runs' \in [Automations -> Seq(Run)]
  BY <1>1
<1>3. \A a \in Automations : runs'[a] = new[a]
  OBVIOUS
<1> QED
  BY <1>1, <1>2, <1>3, RunsGoOn

LEMMA DeletionKeeps == ASSUME MaxWakes \in Nat, IInv, DeleteConversation PROVE IInv'
<1> DEFINE new == [a \in Automations |-> [i \in DOMAIN runs[a] |->
                    [Withdrawn(a)[i] EXCEPT !.unfinished = @ /\ automation[a].status \notin Alive]]]
<1>1. runs' = new /\ deleted' = TRUE /\ UNCHANGED <<found, caller, chat>>
  BY DEF DeleteConversation
<1>2. automation' \in [Automations -> Row]
  <2>1. \A a \in Automations : automation[a] \in Row /\ Asleep(automation[a], "CANCELLED") \in Row
    BY RowsWritten DEF IInv, Typed, Terminal
  <2> QED
    BY <2>1 DEF DeleteConversation
<1>3. ASSUME NEW a \in Automations, NEW i \in DOMAIN runs[a]
      PROVE  /\ new[a][i] \in Run
             /\ new[a][i].status \in OpenRun => runs[a][i].status \in OpenRun
             /\ HasATurn(new[a][i])
  <2> DEFINE run == Withdrawn(a)[i]
             alive == automation[a].status \in Alive
  <2>1. /\ run \in Run /\ HasATurn(run)
        /\ run.status \in OpenRun => runs[a][i].status \in OpenRun
    BY WithdrawnRuns
  <2>2. new[a][i] = [run EXCEPT !.unfinished = @ /\ ~alive]
    OBVIOUS
  <2> HIDE DEF run, new
  <2>3. CASE alive
    <3>1. new[a][i] = [run EXCEPT !.unfinished = FALSE]
      BY <2>1, <2>2, <2>3 DEF Run
    <3> QED
      BY <2>1, <3>1 DEF Run, HasATurn
  <2>4. CASE ~alive
    <3>1. new[a][i] = run
      BY <2>1, <2>2, <2>4 DEF Run
    <3> QED
      BY <2>1, <3>1
  <2> QED
    BY <2>3, <2>4
<1>4. \A a \in Automations : new[a] = [i \in DOMAIN runs[a] |-> new[a][i]]
  OBVIOUS
<1>5. new = [a \in Automations |-> new[a]]
  OBVIOUS
<1> HIDE DEF new
<1>6. /\ runs' \in [Automations -> Seq(Run)]
      /\ ListedOnce' /\ ListedIsFree' /\ OneOpenRun' /\ UnfinishedIsRunning'
  BY <1>1, <1>3, <1>4, <1>5, AllRunsMapped
<1> QED
  BY <1>1, <1>2, <1>6 DEF IInv, Typed, AsksSomething

(* A message that a lost run left unfinished is settled by the recovery.   *)
LEMMA RestartKeeps == ASSUME MaxWakes \in Nat, IInv, Restart PROVE IInv'
<1> DEFINE new == [a \in Automations |-> [i \in DOMAIN runs[a] |-> RecoveredRun(runs[a][i])]]
<1>1. /\ runs' = new /\ found' = {} /\ caller' = [c \in Callers |-> NoRequest]
      /\ UNCHANGED <<chat, deleted>>
  BY DEF Restart
<1>2. automation' \in [Automations -> Row]
  <2>1. PICK completed \in SUBSET Automations :
          automation' = [a \in Automations |->
            IF automation[a].status = "ACTIVE" /\ Interrupted(a)
            THEN AfterRun(automation[a], a \in completed) ELSE automation[a]]
    BY DEF Restart
  <2>2. \A a \in Automations : automation[a] \in Row /\ AfterRun(automation[a], a \in completed) \in Row
    <3> SUFFICES ASSUME NEW a \in Automations
                 PROVE  automation[a] \in Row /\ AfterRun(automation[a], a \in completed) \in Row
      OBVIOUS
    <3>1. automation[a] \in Row /\ (a \in completed) \in BOOLEAN
      BY DEF IInv, Typed
    <3> QED
      BY <3>1, RowsWritten
  <2> QED
    BY <2>1, <2>2
<1>3. ASSUME NEW a \in Automations, NEW i \in DOMAIN runs[a]
      PROVE  /\ new[a][i] \in Run
             /\ new[a][i].status \in OpenRun => runs[a][i].status \in OpenRun
             /\ HasATurn(new[a][i])
  <2> DEFINE old == runs[a][i]
  <2>1. old \in Run /\ HasATurn(old)
    <3>1. runs[a] \in Seq(Run)
      BY DEF IInv, Typed
    <3> QED
      BY <3>1, ElementOfSeq DEF IInv, UnfinishedIsRunning, HasATurn
  <2>2. new[a][i] = RecoveredRun(old)
    OBVIOUS
  <2> HIDE DEF old, new
  <2>3. Left(old) \in Run /\ Left(old).status = old.status /\ Left(old).unfinished = old.unfinished
    <3>1. NothingRead \in [status : Alive \cup Terminal, wake : 0..MaxWakes]
      BY DEF NothingRead, Alive
    <3> QED
      BY <2>1, <3>1 DEF Left, Run
  <2>4. CASE old.status \in {"RUNNING", "CANCELLING"}
    <3>1. new[a][i] = [Ended(old) EXCEPT !.unfinished = FALSE]
      BY <2>2, <2>4 DEF RecoveredRun
    <3>2. /\ [Ended(old) EXCEPT !.unfinished = FALSE] \in Run
          /\ [Ended(old) EXCEPT !.unfinished = FALSE].status = "ENDED"
          /\ ~[Ended(old) EXCEPT !.unfinished = FALSE].unfinished
      BY <2>3 DEF Ended, Run
    <3> QED
      BY <3>1, <3>2 DEF HasATurn, OpenRun, old
  <2>5. CASE old.status \notin {"RUNNING", "CANCELLING"}
    <3>1. new[a][i] = Left(old)
      BY <2>2, <2>5 DEF RecoveredRun
    <3> QED
      BY <2>1, <2>3, <2>5, <3>1 DEF HasATurn, old
  <2> QED
    BY <2>4, <2>5
<1>4. \A a \in Automations : new[a] = [i \in DOMAIN runs[a] |-> new[a][i]]
  OBVIOUS
<1>5. new = [a \in Automations |-> new[a]]
  OBVIOUS
<1> HIDE DEF new
<1>6. /\ runs' \in [Automations -> Seq(Run)]
      /\ ListedOnce' /\ ListedIsFree' /\ OneOpenRun' /\ UnfinishedIsRunning'
  BY <1>1, <1>3, <1>4, <1>5, AllRunsMapped
<1>7. caller' \in [Callers -> Request] /\ AsksSomething'
  BY <1>1 DEF NoRequest, Request, AsksSomething, Nobody
<1> QED
  BY <1>1, <1>2, <1>6, <1>7 DEF IInv, Typed

LEMMA Invariance == ASSUME MaxWakes \in Nat \ {0} PROVE Spec => []IInv
<1>1. IInv /\ [Next]_vars => IInv'
  <2> SUFFICES ASSUME IInv, [Next]_vars PROVE IInv'
    OBVIOUS
  <2>1. CASE UNCHANGED vars
    BY <2>1 DEF vars, IInv, Typed, ListedOnce, ListedIsFree, OneOpenRun, UnfinishedIsRunning, AsksSomething
  <2>2. CASE Next
    BY <2>2, FindDueKeeps, ClaimDueKeeps, ChatKeeps, DeletionKeeps, RestartKeeps, ExecuteKeeps, RequestKeeps
    DEF Next
  <2> QED
    BY <2>1, <2>2
<1> QED
  BY <1>1, Initially, PTL DEF Spec

(* An automation has at most one run that is not over, whatever is paused, *)
(* resumed, rescheduled or lost between the list of what is due and its    *)
(* claim, and however many requests are served side by side (claimDue,     *)
(* execute, resume).                                                       *)
THEOREM OneOpenRunHolds ==
  ASSUME MaxWakes \in Nat \ {0}
  PROVE  Spec => []OneOpenRun
<1>1. IInv => OneOpenRun
  BY DEF IInv
<1> QED
  BY <1>1, Invariance, PTL

(* An unfinished message, which keeps every automation of its conversation *)
(* waiting, has a turn that is going to finish it, over cancellations, the *)
(* deletion of the conversation and restarts (prepareMessages, finishRun,  *)
(* the recovery).                                                          *)
THEOREM UnfinishedIsRunningHolds ==
  ASSUME MaxWakes \in Nat \ {0}
  PROVE  Spec => []UnfinishedIsRunning
<1>1. IInv => UnfinishedIsRunning
  BY DEF IInv
<1> QED
  BY <1>1, Invariance, PTL

(* Rows, runs, requests and what is spent keep their types, for any bounds *)
(* of a run: what finishRun writes of an older read is a row as well.      *)
THEOREM TypeCorrect ==
  ASSUME MaxWakes \in Nat \ {0}, MaxEdits \in Nat, MaxChats \in Nat, MaxRestarts \in Nat
  PROVE  Spec => []TypeOK
<1> DEFINE Bounded == spent \in [edits : 0..MaxEdits, chats : 0..MaxChats, restarts : 0..MaxRestarts]
<1>1. Init => Bounded
  BY DEF Init
<1>2. ASSUME Bounded, [Next]_vars PROVE Bounded'
  <2>1. CASE UNCHANGED vars
    BY <1>2, <2>1 DEF vars
  <2>2. ASSUME NEW a \in Automations, NEW i \in DOMAIN runs[a], Execute(a, i)
        PROVE  spent' = spent
    BY <2>2 DEF Execute, PrepareRun, PrepareMessages, MarkRunPending, Commit, FinishRead, FinishRun
  <2>3. CASE FindDue \/ ClaimDue \/ DeleteConversation
    BY <1>2, <2>3 DEF FindDue, ClaimDue, DeleteConversation
  <2>4. ASSUME NEW c \in Callers, Ask(c) \/ Serve(c)
        PROVE  spent' = spent \/ (spent.edits < MaxEdits /\ spent' = [spent EXCEPT !.edits = @ + 1])
    BY <2>4 DEF Ask, Serve
  <2>5. CASE ChatTurn
    BY <1>2, <2>5 DEF ChatTurn
  <2>6. CASE Restart
    BY <1>2, <2>6 DEF Restart
  <2> QED
    BY <1>2, <2>1, <2>2, <2>3, <2>4, <2>5, <2>6 DEF Next
<1>3. IInv /\ Bounded => TypeOK
  BY DEF IInv, Typed, TypeOK, Found, Request
<1> QED
  BY <1>1, <1>2, <1>3, Invariance, PTL DEF Spec

-----------------------------------------------------------------------------
(* The reviews.                                                            *)
OutboxRow   == [status : {"pending", "claimed", "delivered", "dead"}, attempts : Nat,
                outcome : {"completed", "failed", "load_failed", "none"}]
Observation == [total : Nat, negative : Nat, inRow : Nat, previous : BOOLEAN,
                closed : BOOLEAN, rolledBack : BOOLEAN]
Review      == [status : {"none", "PENDING", "RUNNING", "COMPLETED", "SKIPPED", "FAILED"},
                attempts : Nat]
Loop(places) == [at : places, of : Events \cup {"none"}, todo : SUBSET Events, rolledBack : BOOLEAN]
Dispatcher  == Loop({"next", "settle", "restore", "publish", "save", "mark", "pass", "observe", "deliver"})
Worker      == Loop({"next", "focus", "draft", "publish", "skip", "save", "failed"})

(* The types, without the bounds of a run.                                 *)
GrowTyped ==
  /\ outbox \in [Events -> OutboxRow]
  /\ effect \in Observation
  /\ receipts \in SUBSET Events /\ IsFiniteSet(receipts)
  /\ draft \in {"none", "rollback", "review"}
  /\ dispatcher \in Dispatcher
  /\ reviews \in [Events -> Review]
  /\ worker \in Worker
  /\ faults \in Nat
  /\ history \in [before : Nat, torn : Nat] /\ history.torn <= faults

(***************************************************************************)
(* A tick works on what it has claimed, which nobody else touches.         *)
(***************************************************************************)
DispatcherWorks ==
  /\ dispatcher.at # "next" => dispatcher.of \in dispatcher.todo
  /\ \A e \in dispatcher.todo : outbox[e].status = "claimed"

JustFailed(e) == worker.at = "failed" /\ worker.of = e

WorkerWorks ==
  /\ worker.at # "next" => worker.of \in worker.todo
  /\ \A e \in worker.todo : reviews[e].status = IF JustFailed(e) THEN "FAILED" ELSE "RUNNING"

(***************************************************************************)
(* What the dispatcher knows, from its look at the receipt and at the      *)
(* observation to the end of the delivery.                                 *)
(***************************************************************************)
SettlingKnows ==
  /\ dispatcher.at \in {"restore", "publish", "save"} => ~effect.closed
  /\ dispatcher.at \in {"restore", "publish", "save", "mark"} => dispatcher.of \notin receipts
  /\ dispatcher.at \in {"observe", "deliver"} =>
       dispatcher.of \in receipts \/ outbox[dispatcher.of].outcome = "none"
  /\ dispatcher.at = "pass" => effect.closed

(***************************************************************************)
(* The count is ahead of the receipts by one between the two writes, and   *)
(* stays ahead when the second is lost; it falls behind only when closed.  *)
(***************************************************************************)
Ahead == IF dispatcher.at = "mark" THEN 1 ELSE 0

CountKept ==
  /\ \A e \in Events : outbox[e].status = "delivered" /\ outbox[e].outcome # "none" => e \in receipts
  /\ ~effect.closed => effect.total >= history.before + Cardinality(receipts) + Ahead
  /\ effect.total <= history.before + Cardinality(receipts) + history.torn + Ahead

GrowInv == GrowTyped /\ DispatcherWorks /\ WorkerWorks /\ SettlingKnows /\ CountKept

(***************************************************************************)
(* An event that nobody works on was given back below the limit, or its    *)
(* delivery was lost; and so with a review.                                *)
(***************************************************************************)
DeliveriesBounded ==
  \A e \in Events :
    /\ outbox[e].attempts <= MaxAttempts + faults
    /\ outbox[e].status = "pending" => outbox[e].attempts < MaxAttempts
    /\ outbox[e].status = "claimed" /\ e \notin dispatcher.todo =>
         outbox[e].attempts < MaxAttempts + faults

RunsBounded ==
  \A e \in Events :
    /\ reviews[e].attempts <= MaxAttempts + faults
    /\ reviews[e].status \in {"none", "PENDING"} => reviews[e].attempts < MaxAttempts
    /\ reviews[e].status = "RUNNING" /\ ~(worker.at # "next" /\ worker.of = e) =>
         reviews[e].attempts < MaxAttempts + faults

-----------------------------------------------------------------------------
LEMMA GrowInitially == ASSUME GrowInit PROVE GrowInv
<1>1. AtRest \in Dispatcher /\ AtRest \in Worker /\ AtRest.at = "next" /\ AtRest.todo = {}
  BY DEF AtRest, Dispatcher, Worker, Loop
<1>2. effect \in Observation
  <2>1. \A b \in BOOLEAN : Seen(2, 2, b) \in Observation /\ Seen(9, 0, b) \in Observation
    BY DEF Seen, Observation
  <2> QED
    BY <2>1 DEF GrowInit
<1>3. outbox \in [Events -> OutboxRow] /\ \A e \in Events : outbox[e].status = "pending"
  BY DEF GrowInit, OutboxRow
<1>4. IsFiniteSet(receipts) /\ Cardinality(receipts) = 0
  BY FS_EmptySet DEF GrowInit
<1>5. GrowTyped
  BY <1>1, <1>2, <1>3, <1>4 DEF GrowInit, GrowTyped, Review, Observation
<1>6. DispatcherWorks /\ WorkerWorks /\ SettlingKnows
  BY <1>1 DEF GrowInit, DispatcherWorks, WorkerWorks, SettlingKnows
<1>7. CountKept
  BY <1>1, <1>2, <1>3, <1>4 DEF GrowInit, CountKept, Ahead, Observation
<1> QED
  BY <1>5, <1>6, <1>7 DEF GrowInv

(* A delivery or a run that is over leaves the rest of the batch.          *)
LEMMA NextOfBatch ==
  /\ dispatcher \in Dispatcher =>
       /\ Next1(dispatcher) \in Dispatcher /\ Next1(dispatcher).at = "next"
       /\ Next1(dispatcher).todo = dispatcher.todo \ {dispatcher.of}
  /\ worker \in Worker =>
       /\ Next1(worker) \in Worker /\ Next1(worker).at = "next"
       /\ Next1(worker).todo = worker.todo \ {worker.of}
<1>1. ASSUME NEW places, "next" \in places, NEW rest \in SUBSET Events
      PROVE  /\ [AtRest EXCEPT !.todo = rest] \in Loop(places)
             /\ [AtRest EXCEPT !.todo = rest].at = "next"
             /\ [AtRest EXCEPT !.todo = rest].todo = rest
  <2>1. AtRest \in Loop(places) /\ AtRest.at = "next"
    BY <1>1 DEF AtRest, Loop
  <2> QED
    BY <1>1, <2>1 DEF Loop
<1>2. ASSUME dispatcher \in Dispatcher
      PROVE  /\ Next1(dispatcher) \in Dispatcher /\ Next1(dispatcher).at = "next"
             /\ Next1(dispatcher).todo = dispatcher.todo \ {dispatcher.of}
  <2>1. dispatcher.todo \ {dispatcher.of} \in SUBSET Events
    BY <1>2 DEF Dispatcher, Loop
  <2> QED
    BY <1>1, <2>1 DEF Next1, Dispatcher
<1>3. ASSUME worker \in Worker
      PROVE  /\ Next1(worker) \in Worker /\ Next1(worker).at = "next"
             /\ Next1(worker).todo = worker.todo \ {worker.of}
  <2>1. worker.todo \ {worker.of} \in SUBSET Events
    BY <1>3 DEF Worker, Loop
  <2> QED
    BY <1>1, <2>1 DEF Next1, Worker
<1> QED
  BY <1>2, <1>3

(* What an outcome makes of the observation: one more, and nothing else    *)
(* of what the invariant speaks of.                                        *)
LEMMA OneMore ==
  ASSUME NEW e \in Events, effect \in Observation
  PROVE  Counted(e) \in Observation /\ Counted(e).total = effect.total + 1
<1>1. \A t, n, m \in Nat :
        /\ [effect EXCEPT !.total = t, !.negative = n, !.inRow = m] \in Observation
        /\ [effect EXCEPT !.total = t, !.negative = n, !.inRow = m].total = t
  BY DEF Observation
<1>2. effect.total + 1 \in Nat /\ effect.inRow + 1 \in Nat /\ 0 \in Nat
      /\ effect.negative + 1 \in Nat /\ effect.negative + 0 \in Nat
  BY DEF Observation
<1>3. CASE outbox[e].outcome # "completed"
  <2> DEFINE next == [effect EXCEPT !.total = effect.total + 1, !.negative = effect.negative + 1,
                                    !.inRow = effect.inRow + 1]
  <2>1. Counted(e) = next
    BY <1>3, Zenon DEF Counted
  <2>2. next \in Observation /\ next.total = effect.total + 1
    BY <1>1, <1>2
  <2> QED
    BY <2>1, <2>2, Zenon
<1>4. CASE ~(outbox[e].outcome # "completed")
  <2> DEFINE next == [effect EXCEPT !.total = effect.total + 1, !.negative = effect.negative + 0,
                                    !.inRow = 0]
  <2>1. Counted(e) = next
    BY <1>4, Zenon DEF Counted
  <2>2. next \in Observation /\ next.total = effect.total + 1
    BY <1>1, <1>2
  <2> QED
    BY <2>1, <2>2, Zenon
<1> QED
  BY <1>3, <1>4

(* The parts of the dispatcher's step that change neither table nor count. *)
LEMMA DispatcherGoesOn ==
  ASSUME GrowInv,
         NEW e, e = dispatcher.of,
         Settle(e) \/ Restore(e) \/ PublishRestored(e) \/ \E x \in dispatcher.todo : Begin(x)
  PROVE  GrowInv'
<1>0. GrowTyped /\ dispatcher \in Dispatcher
  BY DEF GrowInv, GrowTyped
<1>1. /\ UNCHANGED <<outbox, effect, receipts, reviews, worker, faults, history>>
      /\ dispatcher.at # "mark"
  BY DEF Settle, Restore, PublishRestored, Begin
<1>2. /\ dispatcher' \in Dispatcher /\ dispatcher'.todo = dispatcher.todo
      /\ dispatcher'.at # "mark" /\ dispatcher'.of \in dispatcher.todo
      /\ draft' \in {"none", "rollback", "review"}
  <2>0. dispatcher.at # "next" => dispatcher.of \in dispatcher.todo
    BY DEF GrowInv, DispatcherWorks
  <2>1. draft' \in {"none", "rollback", "review"}
    BY <1>0 DEF GrowTyped, Settle, Restore, PublishRestored, Begin
  <2>2. CASE Settle(e)
    <3>1. \E at \in {"observe", "pass", "restore", "save"} : dispatcher' = [dispatcher EXCEPT !.at = at]
      BY <2>2, Zenon DEF Settle
    <3>2. dispatcher.at # "next"
      BY <2>2 DEF Settle
    <3> QED
      BY <1>0, <2>0, <2>1, <3>1, <3>2 DEF Dispatcher, Loop
  <2>3. CASE Restore(e)
    BY <1>0, <2>0, <2>1, <2>3 DEF Restore, Dispatcher, Loop
  <2>4. CASE PublishRestored(e)
    BY <1>0, <2>0, <2>1, <2>4 DEF PublishRestored, Dispatcher, Loop
  <2>5. CASE \E x \in dispatcher.todo : Begin(x)
    BY <1>0, <2>0, <2>1, <2>5 DEF Begin, Awake, Dispatcher, Loop
  <2> QED
    BY <2>2, <2>3, <2>4, <2>5
<1>3. GrowTyped'
  BY <1>0, <1>1, <1>2 DEF GrowTyped
<1>4. DispatcherWorks'
  BY <1>0, <1>1, <1>2 DEF GrowInv, DispatcherWorks
<1>5. WorkerWorks'
  BY <1>1 DEF GrowInv, WorkerWorks, JustFailed
<1>6. SettlingKnows'
  <2>1. CASE Settle(e)
    BY <1>0, <1>1, <2>1 DEF GrowInv, SettlingKnows, Settle, Dispatcher, Loop
  <2>2. CASE Restore(e) \/ PublishRestored(e)
    BY <1>0, <1>1, <2>2 DEF GrowInv, SettlingKnows, Restore, PublishRestored, Dispatcher, Loop
  <2>3. CASE \E x \in dispatcher.todo : Begin(x)
    BY <1>0, <1>1, <2>3 DEF GrowInv, SettlingKnows, Begin, Awake, Dispatcher, Loop
  <2> QED
    BY <2>1, <2>2, <2>3
<1>7. CountKept'
  BY <1>1, <1>2 DEF GrowInv, CountKept, Ahead
<1> QED
  BY <1>3, <1>4, <1>5, <1>6, <1>7 DEF GrowInv

(* The two writes: the count, and the receipt of what was counted or came  *)
(* too late.                                                               *)
LEMMA SaveKeeps == ASSUME GrowInv, Save(dispatcher.of) PROVE GrowInv'
<1> DEFINE e == dispatcher.of
<1>0. GrowTyped /\ dispatcher \in Dispatcher /\ effect \in Observation /\ e \in Events /\ e \in dispatcher.todo
  BY DEF GrowInv, GrowTyped, DispatcherWorks, Save, Dispatcher, Loop
<1>1. /\ dispatcher.at = "save" /\ dispatcher' = [dispatcher EXCEPT !.at = "mark"]
      /\ UNCHANGED <<outbox, receipts, draft, reviews, worker, faults, history>>
  BY DEF Save
<1>2. /\ dispatcher' \in Dispatcher /\ dispatcher'.at = "mark"
      /\ dispatcher'.of = e /\ dispatcher'.todo = dispatcher.todo
  BY <1>0, <1>1 DEF Dispatcher, Loop
<1>3. effect' \in Observation /\ effect'.total = effect.total + 1
  BY <1>0, OneMore DEF Save, Observation, Dispatcher, Loop
<1>4. GrowTyped' /\ DispatcherWorks'
  BY <1>0, <1>1, <1>2, <1>3 DEF GrowInv, GrowTyped, DispatcherWorks
<1>5. WorkerWorks'
  BY <1>1 DEF GrowInv, WorkerWorks, JustFailed
<1>6. SettlingKnows'
  BY <1>1, <1>2 DEF GrowInv, SettlingKnows
<1>7. CountKept'
  <2>1. Cardinality(receipts) \in Nat
    BY <1>0, FS_CardinalityType DEF GrowTyped
  <2> QED
    BY <1>0, <1>1, <1>2, <1>3, <2>1 DEF GrowInv, SettlingKnows, GrowTyped, CountKept, Ahead, Observation
<1> QED
  BY <1>4, <1>5, <1>6, <1>7 DEF GrowInv

LEMMA MarkKeeps == ASSUME GrowInv, Mark(dispatcher.of) PROVE GrowInv'
<1> DEFINE e == dispatcher.of
<1>0. GrowTyped /\ dispatcher \in Dispatcher /\ effect \in Observation /\ e \in Events /\ e \in dispatcher.todo
  BY DEF GrowInv, GrowTyped, DispatcherWorks, Mark, Dispatcher, Loop
<1>1. /\ dispatcher.at \in {"mark", "pass"} /\ dispatcher' = [dispatcher EXCEPT !.at = "observe"]
      /\ receipts' = receipts \cup {e}
      /\ UNCHANGED <<outbox, effect, draft, reviews, worker, faults, history>>
  BY DEF Mark
<1>2. /\ dispatcher' \in Dispatcher /\ dispatcher'.at = "observe"
      /\ dispatcher'.of = e /\ dispatcher'.todo = dispatcher.todo
  BY <1>0, <1>1 DEF Dispatcher, Loop
<1>3. /\ IsFiniteSet(receipts') /\ Cardinality(receipts) \in Nat
      /\ Cardinality(receipts') = Cardinality(receipts) + IF e \in receipts THEN 0 ELSE 1
  BY <1>0, <1>1, FS_AddElement, FS_CardinalityType DEF GrowTyped
<1>4. GrowTyped' /\ DispatcherWorks'
  BY <1>0, <1>1, <1>2, <1>3 DEF GrowInv, GrowTyped, DispatcherWorks
<1>5. WorkerWorks'
  BY <1>1 DEF GrowInv, WorkerWorks, JustFailed
<1>6. SettlingKnows'
  BY <1>1, <1>2 DEF GrowInv, SettlingKnows
<1>7. CountKept'
  BY <1>0, <1>1, <1>2, <1>3 DEF GrowInv, SettlingKnows, GrowTyped, CountKept, Ahead, Observation
<1> QED
  BY <1>4, <1>5, <1>6, <1>7 DEF GrowInv

(* A batch is claimed from a tick that has nothing in hand.                *)
LEMMA ClaimEventsKeeps == ASSUME GrowInv, ClaimEvents PROVE GrowInv'
<1> DEFINE batch == {e \in Events : outbox[e].status \in {"pending", "claimed"}}
<1>0. GrowTyped /\ dispatcher \in Dispatcher
  BY DEF GrowInv, GrowTyped
<1>1. /\ dispatcher.at = "next" /\ dispatcher' = [dispatcher EXCEPT !.todo = batch]
      /\ UNCHANGED <<effect, receipts, draft, reviews, worker, faults, history>>
  BY DEF ClaimEvents, Idle
<1>2. dispatcher' \in Dispatcher /\ dispatcher'.at = "next" /\ dispatcher'.todo = batch
  BY <1>0, <1>1 DEF Dispatcher, Loop
<1>3. /\ outbox' \in [Events -> OutboxRow]
      /\ \A e \in Events : /\ outbox'[e].outcome = outbox[e].outcome
                           /\ outbox'[e].status = IF e \in batch THEN "claimed" ELSE outbox[e].status
  <2>1. outbox' = [e \in Events |-> IF e \notin batch THEN outbox[e]
                     ELSE [outbox[e] EXCEPT !.status = "claimed", !.attempts = @ + 1]]
    BY DEF ClaimEvents
  <2>2. ASSUME NEW r \in OutboxRow
        PROVE  LET claimed == [r EXCEPT !.status = "claimed", !.attempts = @ + 1] IN
               claimed \in OutboxRow /\ claimed.status = "claimed" /\ claimed.outcome = r.outcome
    <3>1. \A n \in Nat : LET claimed == [r EXCEPT !.status = "claimed", !.attempts = n] IN
                         claimed \in OutboxRow /\ claimed.status = "claimed" /\ claimed.outcome = r.outcome
      BY DEF OutboxRow
    <3>2. r.attempts + 1 \in Nat
      BY DEF OutboxRow
    <3> QED
      BY <3>1, <3>2
  <2>3. \A e \in Events : outbox[e] \in OutboxRow
    BY <1>0 DEF GrowTyped
  <2> HIDE DEF batch
  <2>4. \A e \in Events : /\ outbox'[e] \in OutboxRow
                          /\ outbox'[e].outcome = outbox[e].outcome
                          /\ outbox'[e].status = IF e \in batch THEN "claimed" ELSE outbox[e].status
    BY <2>1, <2>2, <2>3
  <2> QED
    BY <2>1, <2>4
<1>4. GrowTyped' /\ DispatcherWorks'
  BY <1>0, <1>1, <1>2, <1>3 DEF GrowTyped, DispatcherWorks
<1>5. WorkerWorks'
  BY <1>1 DEF GrowInv, WorkerWorks, JustFailed
<1>6. SettlingKnows'
  BY <1>2 DEF SettlingKnows
<1>7. CountKept'
  BY <1>1, <1>2, <1>3 DEF GrowInv, CountKept, Ahead
<1> QED
  BY <1>4, <1>5, <1>6, <1>7 DEF GrowInv

(* The observer puts a review where there was none.                        *)
LEMMA ObserveKeeps == ASSUME GrowInv, Observe(dispatcher.of) PROVE GrowInv'
<1> DEFINE e == dispatcher.of
<1>0. GrowTyped /\ dispatcher \in Dispatcher /\ e \in Events /\ e \in dispatcher.todo
  BY DEF GrowInv, GrowTyped, DispatcherWorks, Observe, Dispatcher, Loop
<1>1. /\ dispatcher.at = "observe" /\ dispatcher' = [dispatcher EXCEPT !.at = "deliver"]
      /\ UNCHANGED <<outbox, effect, receipts, draft, worker, faults, history>>
  BY DEF Observe
<1>2. /\ dispatcher' \in Dispatcher /\ dispatcher'.at = "deliver"
      /\ dispatcher'.of = e /\ dispatcher'.todo = dispatcher.todo
  BY <1>0, <1>1 DEF Dispatcher, Loop
<1>3. reviews' = reviews \/ (reviews[e].status = "none" /\ reviews' = [reviews EXCEPT ![e].status = "PENDING"])
  BY DEF Observe
<1>4. /\ reviews' \in [Events -> Review]
      /\ \A x \in Events : reviews[x].status # "none" => reviews'[x].status = reviews[x].status
  BY <1>0, <1>3 DEF GrowTyped, Review
<1>5. GrowTyped' /\ DispatcherWorks'
  BY <1>0, <1>1, <1>2, <1>4 DEF GrowInv, GrowTyped, DispatcherWorks
<1>6. WorkerWorks'
  <2>1. \A x \in worker.todo : x \in Events /\ reviews[x].status # "none"
    BY <1>0 DEF GrowInv, WorkerWorks, GrowTyped, Worker, Loop
  <2> QED
    BY <1>1, <1>4, <2>1 DEF GrowInv, WorkerWorks, JustFailed
<1>7. SettlingKnows' /\ CountKept'
  BY <1>1, <1>2 DEF GrowInv, SettlingKnows, CountKept, Ahead
<1> QED
  BY <1>5, <1>6, <1>7 DEF GrowInv

(* A delivery ends: with success only over a receipt, and a failure between *)
(* the two writes leaves one count more than receipts.                      *)
LEMMA DeliverKeeps == ASSUME GrowInv, Deliver(dispatcher.of) PROVE GrowInv'
<1> DEFINE e == dispatcher.of
<1>0. GrowTyped /\ dispatcher \in Dispatcher /\ e \in Events /\ e \in dispatcher.todo
  BY DEF GrowInv, GrowTyped, DispatcherWorks, Deliver, Dispatcher, Loop
<1>1. /\ dispatcher.at = "deliver" /\ outbox' = [outbox EXCEPT ![e].status = "delivered"]
      /\ UNCHANGED <<effect, receipts, draft, reviews, worker, faults, history>>
  BY DEF Deliver
<1>2. /\ dispatcher' \in Dispatcher /\ dispatcher'.at = "next"
      /\ dispatcher'.todo = dispatcher.todo \ {e}
  BY <1>0, NextOfBatch DEF Deliver
<1>3. /\ outbox' \in [Events -> OutboxRow] /\ outbox'[e].status = "delivered"
      /\ outbox'[e].outcome = outbox[e].outcome
      /\ \A x \in Events \ {e} : outbox'[x] = outbox[x]
  BY <1>0, <1>1 DEF GrowTyped, OutboxRow
<1>4. GrowTyped'
  BY <1>0, <1>1, <1>2, <1>3 DEF GrowTyped
<1>5. DispatcherWorks' /\ SettlingKnows'
  BY <1>0, <1>2, <1>3 DEF GrowInv, DispatcherWorks, SettlingKnows, Dispatcher, Loop
<1>6. WorkerWorks'
  BY <1>1 DEF GrowInv, WorkerWorks, JustFailed
<1>7. CountKept'
  BY <1>1, <1>2, <1>3 DEF GrowInv, SettlingKnows, CountKept, Ahead
<1> QED
  BY <1>4, <1>5, <1>6, <1>7 DEF GrowInv

(* Whatever ends the work of the dispatcher before its time.               *)
LEMMA TornCountKept ==
  ASSUME GrowInv, Tear, faults' = faults \/ Fault, dispatcher.at = "mark" => Fault,
         UNCHANGED <<effect, receipts>>, dispatcher'.at = "next",
         \A e \in Events : /\ outbox'[e].status = "delivered" => outbox[e].status = "delivered"
                            /\ outbox'[e].outcome = outbox[e].outcome
  PROVE  /\ faults' \in Nat /\ history' \in [before : Nat, torn : Nat]
         /\ history'.torn <= faults' /\ CountKept'
<1>0. /\ history \in [before : Nat, torn : Nat] /\ history.torn <= faults /\ faults \in Nat
      /\ effect \in Observation /\ Cardinality(receipts) \in Nat
  BY FS_CardinalityType DEF GrowInv, GrowTyped
<1>1. CASE dispatcher.at = "mark"
  <2>1. faults' = faults + 1 /\ history' = [history EXCEPT !.torn = @ + 1]
    BY <1>1 DEF Tear, Fault
  <2>2. /\ history' \in [before : Nat, torn : Nat]
        /\ history'.torn = history.torn + 1 /\ history'.before = history.before
    BY <1>0, <2>1
  <2> QED
    BY <1>0, <1>1, <2>1, <2>2 DEF GrowInv, CountKept, Ahead, Observation
<1>2. CASE dispatcher.at # "mark"
  BY <1>0, <1>2 DEF Tear, Fault, GrowInv, CountKept, Ahead, Observation
<1> QED
  BY <1>1, <1>2

LEMMA DeliveryFailsKeeps == ASSUME GrowInv, DeliveryFails(dispatcher.of) PROVE GrowInv'
<1> DEFINE e == dispatcher.of
<1>0. GrowTyped /\ dispatcher \in Dispatcher /\ e \in Events /\ e \in dispatcher.todo
  BY DEF GrowInv, GrowTyped, DispatcherWorks, DeliveryFails, Dispatcher, Loop
<1>1. /\ UNCHANGED <<effect, receipts, draft, reviews, worker>> /\ Tear
      /\ faults' = faults \/ Fault
      /\ dispatcher.at = "mark" => Fault
  BY DEF DeliveryFails
<1>2. /\ dispatcher' \in Dispatcher /\ dispatcher'.at = "next"
      /\ dispatcher'.todo = dispatcher.todo \ {e}
  BY <1>0, NextOfBatch DEF DeliveryFails
<1>3. /\ outbox' \in [Events -> OutboxRow] /\ outbox'[e].status # "delivered"
      /\ outbox'[e].outcome = outbox[e].outcome
      /\ \A x \in Events \ {e} : outbox'[x] = outbox[x]
  <2>1. \E status \in {"dead", "pending"} : outbox' = [outbox EXCEPT ![e].status = status]
    BY DEF DeliveryFails
  <2> QED
    BY <1>0, <2>1 DEF GrowTyped, OutboxRow
<1>4. /\ faults' \in Nat /\ history' \in [before : Nat, torn : Nat]
      /\ history'.torn <= faults' /\ CountKept'
  <2>1. \A x \in Events : /\ outbox'[x].status = "delivered" => outbox[x].status = "delivered"
                           /\ outbox'[x].outcome = outbox[x].outcome
    BY <1>3
  <2> QED
    BY <1>1, <1>2, <2>1, TornCountKept
<1>5. GrowTyped'
  BY <1>0, <1>1, <1>2, <1>3, <1>4 DEF GrowTyped
<1>6. DispatcherWorks' /\ SettlingKnows'
  BY <1>0, <1>2, <1>3 DEF GrowInv, DispatcherWorks, SettlingKnows, Dispatcher, Loop
<1>7. WorkerWorks'
  BY <1>1 DEF GrowInv, WorkerWorks, JustFailed
<1> QED
  BY <1>4, <1>5, <1>6, <1>7 DEF GrowInv

LEMMA CrashKeeps == ASSUME GrowInv, Crash PROVE GrowInv'
<1>1. /\ UNCHANGED <<outbox, effect, receipts, draft, reviews>> /\ Tear /\ Fault
      /\ dispatcher' = AtRest /\ worker' = AtRest
  BY DEF Crash
<1>2. /\ AtRest \in Dispatcher /\ AtRest \in Worker /\ AtRest.at = "next" /\ AtRest.todo = {}
  BY DEF AtRest, Dispatcher, Worker, Loop
<1>3. /\ faults' \in Nat /\ history' \in [before : Nat, torn : Nat]
      /\ history'.torn <= faults' /\ CountKept'
  BY <1>1, <1>2, TornCountKept
<1>4. GrowTyped'
  BY <1>1, <1>2, <1>3 DEF GrowInv, GrowTyped
<1>5. DispatcherWorks' /\ WorkerWorks' /\ SettlingKnows'
  BY <1>1, <1>2 DEF DispatcherWorks, WorkerWorks, SettlingKnows
<1> QED
  BY <1>3, <1>4, <1>5 DEF GrowInv

(* So does one whose failure could not be written.                         *)
LEMMA LeaveClaimedKeeps == ASSUME GrowInv, LeaveClaimed(dispatcher.of) PROVE GrowInv'
<1>0. GrowTyped /\ dispatcher \in Dispatcher
  BY DEF GrowInv, GrowTyped
<1>1. /\ UNCHANGED <<outbox, effect, receipts, draft, reviews, worker>> /\ Tear /\ Fault
      /\ dispatcher' = Next1(dispatcher)
  BY DEF LeaveClaimed
<1>2. /\ dispatcher' \in Dispatcher /\ dispatcher'.at = "next"
      /\ dispatcher'.todo = dispatcher.todo \ {dispatcher.of}
  BY <1>0, <1>1, NextOfBatch
<1>3. /\ faults' \in Nat /\ history' \in [before : Nat, torn : Nat]
      /\ history'.torn <= faults' /\ CountKept'
  BY <1>1, <1>2, TornCountKept
<1>4. GrowTyped'
  BY <1>0, <1>1, <1>2, <1>3 DEF GrowTyped
<1>5. DispatcherWorks' /\ SettlingKnows'
  BY <1>1, <1>2 DEF GrowInv, DispatcherWorks, SettlingKnows
<1>6. WorkerWorks'
  BY <1>1 DEF GrowInv, WorkerWorks, JustFailed
<1> QED
  BY <1>3, <1>4, <1>5, <1>6 DEF GrowInv

LEMMA DispatcherKeeps == ASSUME GrowInv, DispatcherStep PROVE GrowInv'
BY DispatcherGoesOn, SaveKeeps, MarkKeeps, ClaimEventsKeeps, ObserveKeeps, DeliverKeeps,
   DeliveryFailsKeeps, LeaveClaimedKeeps DEF DispatcherStep

-----------------------------------------------------------------------------
(* The worker touches neither the outbox nor the count; of the reviews, it *)
(* changes those it has claimed or is about to claim.                      *)
LEMMA WorkerAlone ==
  ASSUME GrowInv, UNCHANGED <<outbox, effect, receipts, dispatcher, faults, history>> \/
               (UNCHANGED <<outbox, effect, receipts, dispatcher, history>> /\ Fault),
         draft' \in {"none", "rollback", "review"},
         reviews' \in [Events -> Review], worker' \in Worker, WorkerWorks'
  PROVE  GrowInv'
<1>1. UNCHANGED <<outbox, effect, receipts, dispatcher, history>> /\ faults' \in Nat /\ faults' >= faults
  BY DEF GrowInv, GrowTyped, Fault
<1>2. history.torn <= faults'
  BY <1>1 DEF GrowInv, GrowTyped
<1>3. GrowTyped'
  BY <1>1, <1>2 DEF GrowInv, GrowTyped
<1>4. DispatcherWorks' /\ SettlingKnows' /\ CountKept'
  BY <1>1 DEF GrowInv, DispatcherWorks, SettlingKnows, CountKept, Ahead
<1> QED
  BY <1>3, <1>4 DEF GrowInv

LEMMA ClaimReviewsKeeps == ASSUME GrowInv, ClaimReviews PROVE GrowInv'
<1> DEFINE batch == {e \in Events : Claimable(e)}
<1>0. worker \in Worker /\ reviews \in [Events -> Review]
  BY DEF GrowInv, GrowTyped
<1>1. /\ worker.at = "next" /\ worker' = [worker EXCEPT !.todo = batch]
      /\ reviews' = [e \in Events |-> IF e \in batch THEN [reviews[e] EXCEPT !.status = "RUNNING"]
                                      ELSE reviews[e]]
      /\ UNCHANGED <<outbox, effect, receipts, draft, dispatcher, faults, history>>
  BY DEF ClaimReviews, Idle
<1>2. worker' \in Worker /\ worker'.at = "next" /\ worker'.todo = batch
  BY <1>0, <1>1 DEF Worker, Loop
<1>3. reviews' \in [Events -> Review] /\ \A e \in batch : reviews'[e].status = "RUNNING"
  BY <1>0, <1>1 DEF Review
<1>4. WorkerWorks'
  BY <1>2, <1>3 DEF WorkerWorks, JustFailed
<1> QED
  BY <1>1, <1>2, <1>3, <1>4, WorkerAlone DEF GrowInv, GrowTyped

(* The steps of a run that leave the status of the review alone.           *)
LEMMA RunGoesOn ==
  ASSUME GrowInv,
         (\E e \in worker.todo : Start(e)) \/
         Focus(worker.of) \/ Draft(worker.of) \/ PublishDraft(worker.of)
  PROVE  /\ GrowInv' /\ UNCHANGED <<outbox, faults>> /\ ~JustFailed(worker.of)
         /\ worker'.of \in worker.todo /\ worker'.todo = worker.todo
         /\ worker'.at \notin {"next", "failed"} /\ worker.at # "failed"
         /\ \A e \in Events : reviews'[e].status = reviews[e].status
<1>0. worker \in Worker /\ reviews \in [Events -> Review] /\ draft \in {"none", "rollback", "review"}
  BY DEF GrowInv, GrowTyped
<1>1. /\ UNCHANGED <<outbox, effect, receipts, dispatcher, faults, history>>
      /\ worker.at # "failed" /\ draft' \in {"none", "rollback", "review"}
  BY <1>0 DEF Start, Focus, Draft, PublishDraft
<1>2. /\ worker' \in Worker /\ worker'.todo = worker.todo
      /\ worker'.at \notin {"next", "failed"} /\ worker'.of \in worker.todo
  BY <1>0 DEF GrowInv, WorkerWorks, Start, Focus, Draft, PublishDraft, Awake, Worker, Loop
<1>3. /\ reviews' \in [Events -> Review]
      /\ \A e \in Events : reviews'[e].status = reviews[e].status
  <2>1. reviews' = reviews \/ \E e \in worker.todo : reviews' = [reviews EXCEPT ![e].attempts = @ + 1]
    BY DEF Start, Focus, Draft, PublishDraft
  <2> QED
    BY <1>0, <2>1 DEF Review
<1>4. WorkerWorks'
  BY <1>0, <1>1, <1>2, <1>3 DEF GrowInv, WorkerWorks, JustFailed, Worker, Loop
<1> QED
  BY <1>1, <1>2, <1>3, <1>4, WorkerAlone DEF JustFailed

(* A run fails: its review is FAILED, and still the worker's.              *)
LEMMA ReviewFailsKeeps ==
  ASSUME GrowInv, ReviewFails(worker.of)
  PROVE  /\ GrowInv' /\ UNCHANGED outbox /\ (faults' = faults \/ Fault)
         /\ worker.of \in worker.todo /\ ~JustFailed(worker.of)
         /\ JustFailed(worker.of)' /\ worker' = [worker EXCEPT !.at = "failed"]
         /\ reviews' = [reviews EXCEPT ![worker.of].status = "FAILED"]
<1> DEFINE e == worker.of
<1>0. worker \in Worker /\ reviews \in [Events -> Review] /\ draft \in {"none", "rollback", "review"}
  BY DEF GrowInv, GrowTyped
<1>1. /\ UNCHANGED <<outbox, effect, receipts, draft, dispatcher, history>>
      /\ worker.at \notin {"next", "failed"}
      /\ worker' = [worker EXCEPT !.at = "failed"]
      /\ reviews' = [reviews EXCEPT ![e].status = "FAILED"]
      /\ faults' = faults \/ Fault
  BY DEF ReviewFails
<1>2. e \in worker.todo /\ e \in Events
  BY <1>0, <1>1 DEF GrowInv, WorkerWorks, Worker, Loop
<1>3. worker' \in Worker /\ worker'.at = "failed" /\ worker'.of = e /\ worker'.todo = worker.todo
  BY <1>0, <1>1 DEF Worker, Loop
<1>4. /\ reviews' \in [Events -> Review] /\ reviews'[e].status = "FAILED"
      /\ \A x \in Events \ {e} : reviews'[x] = reviews[x]
  BY <1>0, <1>1, <1>2 DEF Review
<1>5. WorkerWorks'
  BY <1>0, <1>1, <1>2, <1>3, <1>4 DEF GrowInv, WorkerWorks, JustFailed, Worker, Loop
<1>6. GrowInv'
  BY <1>0, <1>1, <1>3, <1>4, <1>5, WorkerAlone
<1> QED
  BY <1>1, <1>2, <1>3, <1>6 DEF JustFailed

(* A run is over: its review is concluded, or was failed and may be put    *)
(* back below the limit.                                                   *)
LEMMA RunEnds ==
  ASSUME GrowInv, Conclude(worker.of) \/ Retry(worker.of)
  PROVE  /\ GrowInv' /\ UNCHANGED <<outbox, faults>> /\ worker'.at = "next"
         /\ worker.at # "next" /\ worker.of \in worker.todo
         /\ worker'.todo = worker.todo \ {worker.of}
         /\ reviews[worker.of].status = IF worker.at = "failed" THEN "FAILED" ELSE "RUNNING"
         /\ \/ worker.at = "failed" /\ reviews' = reviews
            \/ /\ worker.at = "failed" /\ ~(reviews[worker.of].attempts >= MaxAttempts)
               /\ reviews' = [reviews EXCEPT ![worker.of].status = "PENDING"]
            \/ /\ worker.at # "failed"
               /\ \E status \in {"SKIPPED", "COMPLETED"} :
                    reviews' = [reviews EXCEPT ![worker.of].status = status]
<1> DEFINE e == worker.of
<1>0. worker \in Worker /\ reviews \in [Events -> Review] /\ draft \in {"none", "rollback", "review"}
  BY DEF GrowInv, GrowTyped
<1>1. /\ UNCHANGED <<outbox, effect, receipts, draft, dispatcher, faults, history>>
      /\ worker.at # "next" /\ worker' = Next1(worker)
  BY DEF Conclude, Retry
<1>2. /\ e \in worker.todo /\ e \in Events
      /\ reviews[e].status = IF worker.at = "failed" THEN "FAILED" ELSE "RUNNING"
  BY <1>0, <1>1 DEF GrowInv, WorkerWorks, Worker, Loop, JustFailed
<1>3. worker' \in Worker /\ worker'.at = "next" /\ worker'.todo = worker.todo \ {e}
  BY <1>0, <1>1, NextOfBatch
<1>4. \/ worker.at = "failed" /\ reviews' = reviews
      \/ worker.at = "failed" /\ ~(reviews[e].attempts >= MaxAttempts)
         /\ reviews' = [reviews EXCEPT ![e].status = "PENDING"]
      \/ worker.at # "failed"
         /\ \E status \in {"SKIPPED", "COMPLETED"} : reviews' = [reviews EXCEPT ![e].status = status]
  <2>1. CASE Conclude(e)
    BY <2>1 DEF Conclude
  <2>2. CASE Retry(e)
    BY <2>2 DEF Retry
  <2> QED
    BY <2>1, <2>2
<1>5. reviews' \in [Events -> Review] /\ \A x \in Events \ {e} : reviews'[x] = reviews[x]
  BY <1>0, <1>2, <1>4 DEF Review
<1>6. WorkerWorks'
  BY <1>0, <1>2, <1>3, <1>5 DEF GrowInv, WorkerWorks, JustFailed, Worker, Loop
<1>7. GrowInv'
  BY <1>0, <1>1, <1>3, <1>5, <1>6, WorkerAlone
<1> QED
  BY <1>1, <1>2, <1>3, <1>4, <1>7

LEMMA WorkerKeeps == ASSUME GrowInv, WorkerStep PROVE GrowInv'
BY ClaimReviewsKeeps, RunGoesOn, ReviewFailsKeeps, RunEnds DEF WorkerStep

LEMMA GrowInvariance == GrowSpec => []GrowInv
<1>1. ASSUME GrowInv, [GrowNext]_growVars PROVE GrowInv'
  <2>1. CASE UNCHANGED growVars
    <3>1. GrowTyped' /\ DispatcherWorks' /\ SettlingKnows'
      BY <1>1, <2>1 DEF growVars, GrowInv, GrowTyped, DispatcherWorks, SettlingKnows
    <3>2. WorkerWorks'
      BY <1>1, <2>1 DEF growVars, GrowInv, WorkerWorks, JustFailed
    <3>3. CountKept'
      BY <1>1, <2>1 DEF growVars, GrowInv, CountKept, Ahead
    <3> QED
      BY <3>1, <3>2, <3>3 DEF GrowInv
  <2> QED
    BY <1>1, <2>1, DispatcherKeeps, WorkerKeeps, CrashKeeps DEF GrowNext
<1> QED
  BY <1>1, GrowInitially, PTL DEF GrowSpec

(* What a rollback decides on, for any number of events, deliveries and    *)
(* faults: an event with an outcome is not delivered without its receipt,  *)
(* an open observation has counted no fewer uses than there are receipts,  *)
(* and never more than those and one for each time the second of the two   *)
(* writes was lost                                                         *)
(* (GrowSkillUsageSettlement.settle, GrowEffectTracker.recordUsage).       *)
THEOREM UsesCountedHolds == GrowSpec => []UsesCounted
<1>1. GrowInv => UsesCounted
  <2> SUFFICES ASSUME GrowInv PROVE UsesCounted
    OBVIOUS
  <2>1. /\ effect.total \in Nat /\ history.before \in Nat /\ history.torn \in Nat
        /\ Cardinality(receipts) \in Nat
    BY FS_CardinalityType DEF GrowInv, GrowTyped, Observation
  <2> QED
    BY <2>1 DEF GrowInv, CountKept, Ahead, UsesCounted
<1> QED
  BY <1>1, GrowInvariance, PTL

-----------------------------------------------------------------------------
(* The two tables as job tables: what the refinement maps them to.         *)
DeliveryJob ==
  [e \in Events |-> CASE outbox[e].status = "pending"   -> "waiting"
                     [] outbox[e].status = "claimed"   -> "taken"
                     [] outbox[e].status = "delivered" -> "done"
                     [] OTHER                          -> "dead"]

ReviewJob ==
  [e \in Events |-> CASE reviews[e].status = "none"    -> "none"
                     [] reviews[e].status = "PENDING" -> "waiting"
                     [] reviews[e].status \in {"COMPLETED", "SKIPPED"} -> "done"
                     [] reviews[e].status = "FAILED" /\ ~(worker.at = "failed" /\ worker.of = e)
                                                      -> "dead"
                     [] OTHER                         -> "taken"]

(* A job that changes alone.                                               *)
LEMMA DeliveryBecomes ==
  ASSUME NEW e \in Events, NEW to, DeliveryJob[e] = "taken",
         DeliveryJob' = [DeliveryJob EXCEPT ![e] = to], to \in {"waiting", "done", "dead"}
  PROVE  Deliveries!JobNext
BY DEF Deliveries!JobNext, Deliveries!GiveBack, Deliveries!Finish, Deliveries!Bury,
       Deliveries!Become, DeliveryJob

LEMMA DeliveryStep == ASSUME GrowInv, [GrowNext]_growVars PROVE [Deliveries!JobNext]_DeliveryJob
<1> DEFINE e == dispatcher.of
<1>0. outbox \in [Events -> OutboxRow] /\ DispatcherWorks /\ dispatcher \in Dispatcher
  BY DEF GrowInv, GrowTyped
<1>1. CASE ClaimEvents
  <2> DEFINE batch == {x \in Events : DeliveryJob[x] = "waiting"}
  <2>1. DeliveryJob' = [x \in Events |-> IF x \in batch THEN "taken" ELSE DeliveryJob[x]]
    BY <1>0, <1>1 DEF ClaimEvents, DeliveryJob, OutboxRow
  <2>2. Deliveries!Take
    BY <2>1 DEF Deliveries!Take, DeliveryJob
  <2> QED
    BY <2>2 DEF Deliveries!JobNext
<1>2. CASE Deliver(e) \/ DeliveryFails(e)
  <2>1. e \in Events /\ outbox[e].status = "claimed"
    BY <1>0, <1>2 DEF Deliver, DeliveryFails, DispatcherWorks, Dispatcher, Loop
  <2>2. \E status \in {"delivered", "dead", "pending"} : outbox' = [outbox EXCEPT ![e].status = status]
    BY <1>2 DEF Deliver, DeliveryFails
  <2>3. \E to \in {"waiting", "done", "dead"} : DeliveryJob' = [DeliveryJob EXCEPT ![e] = to]
    <3> DEFINE Life(status) == CASE status = "pending"   -> "waiting"
                                 [] status = "claimed"   -> "taken"
                                 [] status = "delivered" -> "done"
                                 [] OTHER                -> "dead"
    <3>1. PICK status \in {"delivered", "dead", "pending"} : outbox' = [outbox EXCEPT ![e].status = status]
      BY <2>2
    <3>2. DeliveryJob = [x \in Events |-> Life(outbox[x].status)]
      BY DEF DeliveryJob
    <3>3. DeliveryJob' = [x \in Events |-> Life(outbox'[x].status)]
      BY DEF DeliveryJob
    <3>4. \A x \in Events : outbox'[x].status = IF x = e THEN status ELSE outbox[x].status
      BY <1>0, <2>1, <3>1 DEF OutboxRow
    <3>5. Life(status) \in {"waiting", "done", "dead"}
      BY <3>1
    <3> HIDE DEF Life
    <3>6. DeliveryJob' = [DeliveryJob EXCEPT ![e] = Life(status)]
      BY <3>2, <3>3, <3>4
    <3> QED
      BY <3>5, <3>6
  <2>4. DeliveryJob[e] = "taken"
    BY <2>1 DEF DeliveryJob
  <2> QED
    BY <2>1, <2>3, <2>4, DeliveryBecomes
<1>3. CASE UNCHANGED outbox
  BY <1>3 DEF DeliveryJob
<1>4. ClaimEvents \/ Deliver(e) \/ DeliveryFails(e) \/ UNCHANGED outbox
  BY DEF GrowNext, growVars, DispatcherStep, Begin, Settle, Restore, PublishRestored, Save, Mark, Observe,
     LeaveClaimed, WorkerStep, ClaimReviews, Start, Focus, Draft, PublishDraft, Conclude, ReviewFails,
     Retry, Crash
<1> QED
  BY <1>1, <1>2, <1>3, <1>4

LEMMA DeliveriesImplemented == GrowSpec => Deliveries!JobSpec
<1>1. GrowInit => Deliveries!JobInit
  BY DEF GrowInit, Deliveries!JobInit
<1> QED
  BY <1>1, DeliveryStep, GrowInvariance, PTL DEF GrowSpec, Deliveries!JobSpec, DeliveryJob

-----------------------------------------------------------------------------
(* The life of a review is that of its row, but for one that just failed.  *)
Life(status) ==
  CASE status = "none"    -> "none"
    [] status = "PENDING" -> "waiting"
    [] status \in {"COMPLETED", "SKIPPED"} -> "done"
    [] status = "FAILED" -> "dead"
    [] OTHER -> "taken"

LEMMA LifeOf ==
  ASSUME NEW e \in Events
  PROVE  /\ ReviewJob[e]  = IF reviews[e].status = "FAILED" /\ JustFailed(e)
                           THEN "taken" ELSE Life(reviews[e].status)
         /\ ReviewJob'[e] = IF reviews'[e].status = "FAILED" /\ JustFailed(e)'
                           THEN "taken" ELSE Life(reviews'[e].status)
BY DEF ReviewJob, Life, JustFailed

(* Two functions on the events are equal if they are everywhere.           *)
LEMMA SameLives ==
  ASSUME \A e \in Events : ReviewJob'[e] = ReviewJob[e]
  PROVE  UNCHANGED ReviewJob
BY DEF ReviewJob

LEMMA ReviewBecomes ==
  ASSUME NEW e \in Events, \A x \in Events \ {e} : ReviewJob'[x] = ReviewJob[x],
         \/ ReviewJob[e] = "taken" /\ ReviewJob'[e] \in {"waiting", "done", "dead"}
         \/ ReviewJob[e] = "none" /\ ReviewJob'[e] = "waiting"
  PROVE  Reviews!JobNext
<1>1. ReviewJob' = [ReviewJob EXCEPT ![e] = ReviewJob'[e]]
  <2>1. /\ ReviewJob = [x \in Events |-> ReviewJob[x]]
        /\ ReviewJob' = [x \in Events |-> ReviewJob'[x]]
    BY DEF ReviewJob
  <2> QED
    BY <2>1
<1> QED
  BY <1>1 DEF Reviews!JobNext, Reviews!Put, Reviews!GiveBack, Reviews!Finish, Reviews!Bury,
              Reviews!Become, ReviewJob

(* A worker with nothing in hand takes what waits, and again what was lost *)
(* while it was taken.                                                     *)
LEMMA ReviewsTaken == ASSUME GrowInv, ClaimReviews PROVE Reviews!JobNext
<1> DEFINE batch == {e \in Events : ReviewJob[e] = "waiting"}
<1>0. reviews \in [Events -> Review] /\ worker \in Worker
  BY DEF GrowInv, GrowTyped
<1>1. \A e \in Events : ~JustFailed(e) /\ ~JustFailed(e)'
  BY <1>0 DEF ClaimReviews, Idle, JustFailed, Worker, Loop
<1>2. ASSUME NEW e \in Events
      PROVE  ReviewJob'[e] = IF e \in batch THEN "taken" ELSE ReviewJob[e]
  <2>1. reviews'[e].status = IF Claimable(e) THEN "RUNNING" ELSE reviews[e].status
    BY <1>0 DEF ClaimReviews, Review
  <2>2. /\ ReviewJob[e] = Life(reviews[e].status)
        /\ ReviewJob'[e] = Life(reviews'[e].status)
    BY <1>1, LifeOf
  <2> QED
    BY <1>0, <2>1, <2>2 DEF Life, Claimable, Review
<1>3. ReviewJob' = [e \in Events |-> IF e \in batch THEN "taken" ELSE ReviewJob[e]]
  <2>1. \A e \in Events : ReviewJob'[e] = IF e \in batch THEN "taken" ELSE ReviewJob[e]
    BY <1>2
  <2> QED
    BY <2>1 DEF ReviewJob
<1>4. Reviews!Take
  BY <1>3 DEF Reviews!Take, ReviewJob
<1> QED
  BY <1>4 DEF Reviews!JobNext

LEMMA ReviewStep == ASSUME GrowInv, [GrowNext]_growVars PROVE [Reviews!JobNext]_ReviewJob
<1> DEFINE e == worker.of
<1>0. /\ reviews \in [Events -> Review] /\ worker \in Worker /\ WorkerWorks
      /\ dispatcher \in Dispatcher /\ DispatcherWorks
  BY DEF GrowInv, GrowTyped
<1>1. CASE ClaimReviews
  BY <1>1, ReviewsTaken
<1>2. CASE Observe(dispatcher.of)
  <2> DEFINE d == dispatcher.of
  <2>1. d \in Events /\ UNCHANGED worker
    BY <1>0, <1>2 DEF Observe, DispatcherWorks, Dispatcher, Loop
  <2>2. \A x \in Events : JustFailed(x)' = JustFailed(x)
    BY <2>1 DEF JustFailed
  <2>3. CASE reviews' = reviews
    BY <2>1, <2>3 DEF ReviewJob
  <2>4. CASE reviews[d].status = "none" /\ reviews' = [reviews EXCEPT ![d].status = "PENDING"]
    <3>1. \A x \in Events : reviews'[x].status = IF x = d THEN "PENDING" ELSE reviews[x].status
      BY <1>0, <2>1, <2>4 DEF Review
    <3>2. ReviewJob[d] = "none" /\ ReviewJob'[d] = "waiting"
      BY <2>1, <2>4, <3>1, LifeOf DEF Life
    <3>3. \A x \in Events \ {d} : ReviewJob'[x] = ReviewJob[x]
      BY <2>2, <3>1, LifeOf
    <3> QED
      BY <2>1, <3>2, <3>3, ReviewBecomes
  <2> QED
    BY <1>2, <2>3, <2>4 DEF Observe
<1>3. CASE (\E x \in worker.todo : Start(x)) \/ Focus(e) \/ Draft(e) \/ PublishDraft(e)
  <2>1. \A x \in Events : /\ reviews'[x].status = reviews[x].status
                          /\ ~JustFailed(x) /\ ~JustFailed(x)'
    BY <1>3, RunGoesOn DEF JustFailed
  <2> QED
    BY <2>1, LifeOf, SameLives
<1>4. CASE ReviewFails(e)
  <2>1. e \in worker.todo /\ e \in Events /\ ~JustFailed(e)
    BY <1>0, <1>4, ReviewFailsKeeps DEF Worker, Loop
  <2>2. reviews[e].status = "RUNNING"
    BY <1>0, <2>1 DEF WorkerWorks
  <2>3. \A x \in Events : /\ reviews'[x].status = IF x = e THEN "FAILED" ELSE reviews[x].status
                          /\ ~JustFailed(x) /\ (JustFailed(x)' <=> x = e)
    BY <1>0, <1>4, <2>1, ReviewFailsKeeps DEF Review, JustFailed, ReviewFails, Worker, Loop
  <2>4. \A x \in Events : ReviewJob'[x] = ReviewJob[x]
    BY <2>2, <2>3, LifeOf DEF Life
  <2> QED
    BY <2>4, SameLives
<1>5. CASE Conclude(e) \/ Retry(e)
  <2>1. /\ e \in Events /\ e \in worker.todo /\ worker'.at = "next"
        /\ reviews[e].status = IF worker.at = "failed" THEN "FAILED" ELSE "RUNNING"
    BY <1>0, <1>5, RunEnds DEF Worker, Loop
  <2>2. ReviewJob[e] = "taken"
    BY <2>1, LifeOf DEF Life, JustFailed
  <2>3. \A x \in Events : ~JustFailed(x)' /\ (x # e => ~JustFailed(x))
    BY <2>1 DEF JustFailed
  <2>4. \A x \in Events \ {e} : reviews'[x].status = reviews[x].status
    BY <1>0, <1>5, <2>1, RunEnds DEF Review
  <2>5. reviews'[e].status \in {"FAILED", "PENDING", "SKIPPED", "COMPLETED"}
    BY <1>0, <1>5, <2>1, RunEnds DEF Review
  <2>6. ReviewJob'[e] \in {"waiting", "done", "dead"}
    BY <2>1, <2>3, <2>5, LifeOf DEF Life
  <2>7. \A x \in Events \ {e} : ReviewJob'[x] = ReviewJob[x]
    BY <2>3, <2>4, LifeOf
  <2> QED
    BY <2>1, <2>2, <2>6, <2>7, ReviewBecomes
<1>6. CASE Crash
  <2>1. UNCHANGED reviews /\ \A x \in Events : ~JustFailed(x)'
    BY <1>6 DEF Crash, AtRest, JustFailed
  <2>2. CASE worker.at = "failed"
    <3>1. e \in Events /\ reviews[e].status = "FAILED" /\ JustFailed(e)
      BY <1>0, <2>2 DEF WorkerWorks, JustFailed, Worker, Loop
    <3>2. ReviewJob[e] = "taken" /\ ReviewJob'[e] = "dead"
      BY <2>1, <3>1, LifeOf DEF Life
    <3>3. \A x \in Events \ {e} : ReviewJob'[x] = ReviewJob[x]
      <4>1. \A x \in Events \ {e} : ~JustFailed(x)
        BY DEF JustFailed
      <4> QED
        BY <2>1, <4>1, LifeOf
    <3> QED
      BY <3>1, <3>2, <3>3, ReviewBecomes
  <2>3. CASE worker.at # "failed"
    <3>1. \A x \in Events : ~JustFailed(x)
      BY <2>3 DEF JustFailed
    <3> QED
      BY <2>1, <3>1, LifeOf, SameLives
  <2> QED
    BY <2>2, <2>3
<1>7. CASE UNCHANGED <<reviews, worker>>
  BY <1>7 DEF ReviewJob
<1>8. \/ ClaimReviews \/ (\E x \in worker.todo : Start(x)) \/ Observe(dispatcher.of)
      \/ Focus(e) \/ Draft(e) \/ PublishDraft(e) \/ Conclude(e) \/ ReviewFails(e) \/ Retry(e)
      \/ Crash \/ UNCHANGED <<reviews, worker>>
  BY DEF GrowNext, growVars, WorkerStep, DispatcherStep, ClaimEvents, Begin, Settle, Restore, PublishRestored,
     Save, Mark, Deliver, DeliveryFails, LeaveClaimed
<1> QED
  BY <1>1, <1>2, <1>3, <1>4, <1>5, <1>6, <1>7, <1>8

LEMMA ReviewsImplemented == GrowSpec => Reviews!JobSpec
<1>1. GrowInit => Reviews!JobInit
  BY DEF GrowInit, Reviews!JobInit
<1> QED
  BY <1>1, ReviewStep, GrowInvariance, PTL DEF GrowSpec, Reviews!JobSpec, ReviewJob

(* Both tables are worked off as LeasedJobs promises, step by step: what   *)
(* was delivered or given up is not delivered again, and a review that is  *)
(* over is not run or put again, over any number of crashes and faults     *)
(* (GrowOutboxDispatcher.deliver, GrowObserver.observe,                    *)
(* GrowReviewWorker.process).                                              *)
THEOREM ImplementsJobsHolds == GrowSpec => ImplementsJobs
BY DeliveriesImplemented, ReviewsImplemented DEF ImplementsJobs

-----------------------------------------------------------------------------
(* How often a delivery is tried.                                          *)
LEMMA DeliveriesStayBounded ==
  ASSUME MaxAttempts \in Nat, GrowInv, [GrowNext]_growVars, DeliveriesBounded
  PROVE  DeliveriesBounded'
<1> DEFINE d == dispatcher.of
<1>0. /\ outbox \in [Events -> OutboxRow] /\ DispatcherWorks /\ dispatcher \in Dispatcher
      /\ faults \in Nat /\ \A e \in Events : outbox[e].attempts \in Nat
  BY DEF GrowInv, GrowTyped, OutboxRow
<1>1. CASE ClaimEvents
  <2> DEFINE batch == {e \in Events : outbox[e].status \in {"pending", "claimed"}}
  <2>1. /\ outbox' = [e \in Events |-> IF e \notin batch THEN outbox[e]
                        ELSE [outbox[e] EXCEPT !.status = "claimed", !.attempts = @ + 1]]
        /\ dispatcher.todo = {} /\ dispatcher' = [dispatcher EXCEPT !.todo = batch]
        /\ faults' = faults
    BY <1>1 DEF ClaimEvents, Idle
  <2>2. dispatcher'.todo = batch
    BY <1>0, <2>1 DEF Dispatcher, Loop
  <2>3. ASSUME NEW e \in Events
        PROVE  IF e \in batch
               THEN outbox'[e].status = "claimed" /\ outbox'[e].attempts = outbox[e].attempts + 1
               ELSE outbox'[e] = outbox[e]
    <3>1. outbox[e] \in OutboxRow
      BY <1>0
    <3> HIDE DEF batch
    <3>2. CASE e \in batch
      BY <2>1, <3>1, <3>2 DEF OutboxRow
    <3>3. CASE e \notin batch
      BY <2>1, <3>3
    <3> QED
      BY <3>2, <3>3
  <2>4. ASSUME NEW e \in Events
        PROVE  /\ outbox'[e].attempts <= MaxAttempts + faults
               /\ outbox'[e].status = "pending" => outbox'[e].attempts < MaxAttempts
               /\ outbox'[e].status = "claimed" => e \in batch
    <3>1. CASE e \in batch
      <4>1. outbox[e].attempts < MaxAttempts + faults
        <5>1. outbox[e].attempts \in Nat /\ MaxAttempts \in Nat /\ faults \in Nat
          BY <1>0
        <5>2. e \notin dispatcher.todo
          BY <2>1
        <5>3. CASE outbox[e].status = "pending"
          BY <5>1, <5>3 DEF DeliveriesBounded
        <5>4. CASE outbox[e].status = "claimed"
          BY <5>1, <5>2, <5>4 DEF DeliveriesBounded
        <5> QED
          BY <3>1, <5>3, <5>4
      <4>2. outbox'[e].status = "claimed" /\ outbox'[e].attempts = outbox[e].attempts + 1
        BY <2>3, <3>1
      <4> QED
        BY <1>0, <3>1, <4>1, <4>2
    <3>2. CASE e \notin batch
      <4>1. outbox'[e] = outbox[e]
        BY <2>3, <3>2
      <4> QED
        BY <3>2, <4>1 DEF DeliveriesBounded
    <3> QED
      BY <3>1, <3>2
  <2> QED
    BY <2>1, <2>2, <2>4 DEF DeliveriesBounded
<1>2. CASE Deliver(d) \/ DeliveryFails(d)
  <2>1. /\ d \in Events /\ dispatcher'.todo = dispatcher.todo \ {d}
        /\ faults' \in Nat /\ faults <= faults'
    BY <1>0, <1>2, NextOfBatch DEF Deliver, DeliveryFails, DispatcherWorks, Dispatcher, Loop, Fault
  <2>2. \E status \in {"delivered", "dead", "pending"} :
          /\ outbox' = [outbox EXCEPT ![d].status = status]
          /\ status = "pending" => ~(outbox[d].attempts >= MaxAttempts)
    BY <1>2 DEF Deliver, DeliveryFails
  <2>3. /\ \A e \in Events : outbox'[e].attempts = outbox[e].attempts
        /\ \A e \in Events \ {d} : outbox'[e].status = outbox[e].status
        /\ outbox'[d].status # "claimed"
        /\ outbox'[d].status = "pending" => ~(outbox[d].attempts >= MaxAttempts)
    BY <1>0, <2>1, <2>2 DEF OutboxRow
  <2> QED
    BY <1>0, <2>1, <2>3 DEF DeliveriesBounded
<1>3. CASE Crash
  <2>1. UNCHANGED outbox /\ faults' = faults + 1
    BY <1>3 DEF Crash, Fault
  <2> QED
    BY <1>0, <2>1 DEF DeliveriesBounded
<1>4. CASE UNCHANGED <<outbox>> /\ faults' \in Nat /\ faults <= faults' /\ dispatcher'.todo = dispatcher.todo
  BY <1>0, <1>4 DEF DeliveriesBounded
<1>5. CASE LeaveClaimed(d)
  <2>1. UNCHANGED outbox /\ faults' = faults + 1
    BY <1>5 DEF LeaveClaimed, Fault
  <2> QED
    BY <1>0, <2>1 DEF DeliveriesBounded
<1>6. \/ ClaimEvents \/ Deliver(d) \/ DeliveryFails(d) \/ LeaveClaimed(d) \/ Crash
      \/ UNCHANGED <<outbox>> /\ faults' \in Nat /\ faults <= faults' /\ dispatcher'.todo = dispatcher.todo
  <2>1. CASE WorkerStep \/ UNCHANGED growVars
    BY <1>0, <2>1 DEF growVars, WorkerStep, ClaimReviews, Start, Focus, Draft, PublishDraft, Conclude,
       ReviewFails, Retry, Fault
  <2>2. CASE DispatcherStep
    <3>1. CASE Settle(d) \/ Restore(d) \/ PublishRestored(d)
      <4>1. dispatcher'.todo = dispatcher.todo
        BY <1>0, <3>1 DEF Settle, Restore, PublishRestored, Dispatcher, Loop
      <4> QED
        BY <1>0, <3>1, <4>1 DEF Settle, Restore, PublishRestored
    <3>2. CASE Save(d) \/ Mark(d) \/ Observe(d)
      BY <1>0, <3>2 DEF Save, Mark, Observe, Dispatcher, Loop
    <3>3. CASE \E e \in dispatcher.todo : Begin(e)
      BY <1>0, <3>3 DEF Begin, Awake, Dispatcher, Loop
    <3> QED
      BY <2>2, <3>1, <3>2, <3>3 DEF DispatcherStep
  <2> QED
    BY <2>1, <2>2 DEF GrowNext
<1> QED
  BY <1>1, <1>2, <1>3, <1>4, <1>5, <1>6

(* How often a review is run.                                              *)
LEMMA RunsStayBounded ==
  ASSUME MaxAttempts \in Nat, GrowInv, [GrowNext]_growVars, RunsBounded
  PROVE  RunsBounded'
<1> DEFINE w == worker.of
<1>0. /\ reviews \in [Events -> Review] /\ WorkerWorks /\ worker \in Worker
      /\ faults \in Nat /\ \A e \in Events : reviews[e].attempts \in Nat
      /\ MaxAttempts \in Nat
  BY DEF GrowInv, GrowTyped, Review
<1>1. CASE ClaimReviews
  <2>1. /\ \A e \in Events : reviews'[e].attempts = reviews[e].attempts
        /\ \A e \in Events : reviews'[e].status = IF Claimable(e) THEN "RUNNING" ELSE reviews[e].status
    BY <1>0, <1>1 DEF ClaimReviews, Review
  <2>2. /\ worker.at = "next" /\ faults' = faults
    BY <1>1 DEF ClaimReviews, Idle
  <2>3. ASSUME NEW e \in Events, Claimable(e)
        PROVE  reviews[e].attempts < MaxAttempts + faults
    <3>1. CASE reviews[e].status = "PENDING"
      BY <1>0, <3>1 DEF RunsBounded
    <3>2. CASE reviews[e].status = "RUNNING"
      BY <2>2, <3>2 DEF RunsBounded
    <3> QED
      BY <2>3, <3>1, <3>2 DEF Claimable
  <2> QED
    BY <2>1, <2>2, <2>3 DEF RunsBounded, Claimable
<1>2. CASE \E e \in worker.todo : Start(e)
  <2>1. PICK e \in worker.todo : Start(e)
    BY <1>2
  <2>2. /\ e \in Events /\ worker.at = "next" /\ faults' = faults
        /\ worker'.at = "focus" /\ worker'.of = e
    BY <1>0, <2>1 DEF Start, Awake, Worker, Loop
  <2>3. reviews[e].status = "RUNNING"
    BY <1>0, <2>2 DEF WorkerWorks, JustFailed
  <2>4. /\ \A x \in Events : reviews'[x].status = reviews[x].status
        /\ \A x \in Events \ {e} : reviews'[x].attempts = reviews[x].attempts
        /\ reviews'[e].attempts = reviews[e].attempts + 1
    BY <1>0, <2>1, <2>2 DEF Start, Review
  <2>5. reviews[e].attempts < MaxAttempts + faults
    BY <2>2, <2>3 DEF RunsBounded
  <2>6. reviews'[e].attempts <= MaxAttempts + faults
    BY <1>0, <2>2, <2>4, <2>5
  <2> QED
    BY <2>2, <2>3, <2>4, <2>6 DEF RunsBounded
<1>3. CASE Focus(w) \/ Draft(w) \/ PublishDraft(w)
  <2>1. /\ worker.at # "next" /\ worker'.at # "next" /\ worker'.of = w
        /\ UNCHANGED <<reviews, faults>>
    BY <1>0, <1>3 DEF Focus, Draft, PublishDraft, Worker, Loop
  <2> QED
    BY <2>1 DEF RunsBounded
<1>4. CASE ReviewFails(w) \/ Conclude(w) \/ Retry(w)
  <2>1. /\ worker.at # "next" /\ w \in Events
        /\ faults' \in Nat /\ faults <= faults'
    <3>1. worker.at # "next"
      BY <1>4 DEF ReviewFails, Conclude, Retry
    <3> QED
      BY <1>0, <1>4, <3>1 DEF ReviewFails, Conclude, Retry, Fault, WorkerWorks, Worker, Loop
  <2>2. \/ reviews' = reviews /\ reviews[w].status = "FAILED"
        \/ \E status \in {"FAILED", "PENDING", "SKIPPED", "COMPLETED"} :
             /\ reviews' = [reviews EXCEPT ![w].status = status]
             /\ status = "PENDING" => ~(reviews[w].attempts >= MaxAttempts)
    <3>1. CASE ReviewFails(w)
      BY <3>1, ReviewFailsKeeps
    <3>2. CASE Conclude(w) \/ Retry(w)
      BY <3>2, RunEnds
    <3> QED
      BY <1>4, <3>1, <3>2
  <2>3. /\ \A e \in Events : reviews'[e].attempts = reviews[e].attempts
        /\ \A e \in Events \ {w} : reviews'[e].status = reviews[e].status
        /\ reviews'[w].status \in {"FAILED", "PENDING", "SKIPPED", "COMPLETED"}
        /\ reviews'[w].status = "PENDING" => ~(reviews[w].attempts >= MaxAttempts)
    BY <1>0, <2>1, <2>2 DEF Review
  <2> QED
    BY <1>0, <2>1, <2>3 DEF RunsBounded
<1>5. CASE Crash
  <2>1. UNCHANGED reviews /\ faults' = faults + 1
    BY <1>5 DEF Crash, Fault
  <2> QED
    BY <1>0, <2>1 DEF RunsBounded
<1>6. CASE Observe(dispatcher.of)
  <2> DEFINE d == dispatcher.of
  <2>1. /\ UNCHANGED <<worker, faults>>
        /\ \/ reviews' = reviews
           \/ reviews[d].status = "none" /\ reviews' = [reviews EXCEPT ![d].status = "PENDING"]
    BY <1>6 DEF Observe
  <2>2. /\ \A e \in Events : reviews'[e].attempts = reviews[e].attempts
        /\ \A e \in Events : \/ reviews'[e].status = reviews[e].status
                             \/ reviews[e].status = "none" /\ reviews'[e].status = "PENDING"
    BY <1>0, <2>1 DEF Review
  <2> QED
    BY <2>1, <2>2 DEF RunsBounded
<1>7. CASE UNCHANGED <<reviews, worker>> /\ faults' \in Nat /\ faults <= faults'
  BY <1>0, <1>7 DEF RunsBounded
<1>8. \/ ClaimReviews \/ (\E x \in worker.todo : Start(x)) \/ Observe(dispatcher.of)
      \/ Focus(w) \/ Draft(w) \/ PublishDraft(w) \/ Conclude(w) \/ ReviewFails(w) \/ Retry(w)
      \/ Crash
      \/ UNCHANGED <<reviews, worker>> /\ faults' \in Nat /\ faults <= faults'
  <2>1. CASE DispatcherStep
    <3>1. Observe(dispatcher.of) \/ UNCHANGED <<reviews, worker>>
      BY <2>1 DEF DispatcherStep, ClaimEvents, Begin, Settle, Restore, PublishRestored, Save, Mark,
         Deliver, DeliveryFails, LeaveClaimed
    <3>2. faults' = faults \/ Fault
      BY <2>1 DEF DispatcherStep, ClaimEvents, Begin, Settle, Restore, PublishRestored, Save, Mark,
         Observe, Deliver, DeliveryFails, LeaveClaimed
    <3> QED
      BY <1>0, <3>1, <3>2 DEF Fault
  <2>2. CASE UNCHANGED growVars
    BY <1>0, <2>2 DEF growVars
  <2> QED
    BY <2>1, <2>2 DEF GrowNext, WorkerStep
<1> QED
  BY <1>1, <1>2, <1>3, <1>4, <1>5, <1>6, <1>7, <1>8

(* The types, and with them how often a delivery and a review are tried:   *)
(* at most MaxAttempts times, and once more for each time the process, or  *)
(* the word of a failed delivery, was lost (claim and claimPending, which  *)
(* take a lost claim again without a look at the attempts).                *)
THEOREM GrowTypeCorrect ==
  ASSUME MaxAttempts \in Nat \ {0}, MaxFaults \in Nat
  PROVE  GrowSpec => []GrowTypeOK
<1> DEFINE Within == faults <= MaxFaults
<1>1. ASSUME GrowInit PROVE DeliveriesBounded /\ RunsBounded /\ Within
  <2>1. \A e \in Events : outbox[e].status = "pending" /\ outbox[e].attempts = 0
    BY <1>1 DEF GrowInit
  <2>2. \A e \in Events : reviews[e].status = "none" /\ reviews[e].attempts = 0
    BY <1>1 DEF GrowInit
  <2> QED
    BY <1>1, <2>1, <2>2 DEF GrowInit, DeliveriesBounded, RunsBounded
<1>2. ASSUME GrowInv, Within, [GrowNext]_growVars PROVE Within'
  <2>1. faults \in Nat
    BY <1>2 DEF GrowInv, GrowTyped
  <2>2. faults' = faults \/ Fault
    BY <1>2 DEF GrowNext, growVars, WorkerStep, DispatcherStep, ClaimEvents, Begin, Settle, Restore,
       PublishRestored, Save, Mark, Observe, Deliver, DeliveryFails, LeaveClaimed,
       ClaimReviews, Start, Focus, Draft, PublishDraft, Conclude, ReviewFails, Retry, Crash
  <2> QED
    BY <1>2, <2>1, <2>2 DEF Fault
<1>3. ASSUME GrowInv, DeliveriesBounded, RunsBounded, Within PROVE GrowTypeOK
  <2>1. faults \in 0..MaxFaults /\ faults \in Nat /\ MaxAttempts \in Nat
    BY <1>3 DEF GrowInv, GrowTyped
  <2>2. \A e \in Events : /\ outbox[e].attempts \in 0..(MaxAttempts + MaxFaults)
                          /\ reviews[e].attempts \in 0..(MaxAttempts + MaxFaults)
    BY <1>3, <2>1 DEF GrowInv, GrowTyped, OutboxRow, Review, DeliveriesBounded, RunsBounded
  <2>3. outbox \in [Events -> [status : {"pending", "claimed", "delivered", "dead"},
                               attempts : 0..(MaxAttempts + MaxFaults),
                               outcome : {"completed", "failed", "load_failed", "none"}]]
    BY <1>3, <2>2 DEF GrowInv, GrowTyped, OutboxRow
  <2>4. reviews \in [Events -> [status : {"none", "PENDING", "RUNNING", "COMPLETED", "SKIPPED", "FAILED"},
                                attempts : 0..(MaxAttempts + MaxFaults)]]
    BY <1>3, <2>2 DEF GrowInv, GrowTyped, Review
  <2>5. history \in [before : Nat, torn : 0..faults]
    BY <1>3, <2>1 DEF GrowInv, GrowTyped
  <2>6. /\ dispatcher.at \in {"next", "settle", "restore", "publish", "save", "mark", "pass", "observe", "deliver"}
        /\ worker.at \in {"next", "focus", "draft", "publish", "skip", "save", "failed"}
        /\ dispatcher.todo \in SUBSET Events /\ worker.todo \in SUBSET Events
    BY <1>3 DEF GrowInv, GrowTyped, Dispatcher, Worker, Loop
  <2> QED
    BY <1>3, <2>1, <2>3, <2>4, <2>5, <2>6 DEF GrowInv, GrowTyped, GrowTypeOK, Observation
<1>4. ASSUME GrowInv, DeliveriesBounded, RunsBounded, [GrowNext]_growVars
      PROVE  DeliveriesBounded' /\ RunsBounded'
  BY <1>4, DeliveriesStayBounded, RunsStayBounded
<1> QED
  BY <1>1, <1>2, <1>3, <1>4, GrowInvariance, PTL DEF GrowSpec

-----------------------------------------------------------------------------
(* The behaviours TLC looks at are behaviours of each of the services, so  *)
(* what is proved of each holds of them.                                   *)
LEMMA ServicesAreBoth == ServicesSpec => GrowSpec /\ Spec
<1>1. ServicesInit => GrowInit /\ Init
  BY DEF ServicesInit
<1>2. [ServicesNext]_<<service, growVars, schedulesVars>> => [GrowNext]_growVars /\ [Next]_vars
  BY DEF ServicesNext, schedulesVars
<1> QED
  BY <1>1, <1>2, PTL DEF ServicesSpec, GrowSpec, Spec

(* Reviews and automations keep their types side by side, for any bounds   *)
(* of a run.                                                               *)
THEOREM ServicesTypeCorrect ==
  ASSUME MaxAttempts \in Nat \ {0}, MaxFaults \in Nat,
         MaxWakes \in Nat \ {0}, MaxEdits \in Nat, MaxChats \in Nat, MaxRestarts \in Nat
  PROVE  ServicesSpec => []TypesOK
<1>1. GrowTypeOK /\ TypeOK => TypesOK
  BY DEF TypesOK
<1> QED
  BY ServicesAreBoth, GrowTypeCorrect, TypeCorrect, <1>1, PTL
=============================================================================
