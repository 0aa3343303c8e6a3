----------------------------- MODULE Automation -----------------------------
(***************************************************************************)
(* The automations of one conversation: the scheduler claims those that    *)
(* are due and executes their runs, between the chat turns of the          *)
(* conversation, while users and the agent pause, resume, change, complete *)
(* or cancel them.  A service method that reads a row and writes it later, *)
(* by its id alone, is two steps; a restart loses the runs under way.      *)
(***************************************************************************)
EXTENDS Naturals, Sequences

CONSTANTS
  Automations,
  Callers,          \* requests that may be served side by side
  MaxWakes,         \* bounds of a run: times of waking up of an automation,
  MaxEdits,         \* requests of the callers,
  MaxChats,         \* chat turns
  MaxRestarts       \* and restarts

VARIABLES
  automation,       \* automation -> its row; wake 0 is no nextWakeAt
  runs,             \* automation -> its runs, and where execute() is with each
  found,            \* what claimDue has listed and not yet claimed
  caller,           \* caller -> the request it has read the row for
  chat,             \* a chat turn of the conversation is open: it runs or waits for an answer
  deleted,          \* the conversation is in the recycle bin
  spent             \* requests, chat turns and restarts so far

vars == <<automation, runs, found, caller, chat, deleted, spent>>

OpenRun     == {"PENDING", "RUNNING", "CANCELLING"}
Terminal    == {"COMPLETED", "CANCELLED"}
Alive       == {"ACTIVE", "PAUSED"}
Nobody      == "none"
NothingRead == [status |-> "ACTIVE", wake |-> 0]
NoRequest   == [of |-> Nobody, write |-> "none"]
Row         == [status : Alive \cup Terminal, wake : 0..MaxWakes, wakes : 0..MaxWakes]
Run         == [status : OpenRun \cup {"ENDED"}, unfinished : BOOLEAN,
                at : {"none", "prepared", "busy", "stopped", "agent", "committed", "finishing"},
                blocked : BOOLEAN, read : [status : Alive \cup Terminal, wake : 0..MaxWakes]]

TypeOK ==
  /\ automation \in [Automations -> Row]
  /\ runs \in [Automations -> Seq(Run)]
  /\ found \subseteq Automations \X (1..MaxWakes)
  /\ caller \in [Callers -> [of : Automations \cup {Nobody},
                             write : {"none", "pause", "resume", "cancel", "complete",
                                      "wake", "unwake"}]]
  /\ chat \in BOOLEAN /\ deleted \in BOOLEAN
  /\ spent \in [edits : 0..MaxEdits, chats : 0..MaxChats, restarts : 0..MaxRestarts]

(* An automation has been created, or has woken up before, or was cancelled. *)
Created(wakes) == [status |-> "ACTIVE", wake |-> wakes, wakes |-> wakes]
Cancelled      == [status |-> "CANCELLED", wake |-> 0, wakes |-> 1]

Init ==
  /\ automation \in [Automations -> {Created(k) : k \in 1..MaxWakes} \cup {Cancelled}]
  /\ runs = [a \in Automations |-> <<>>]
  /\ found = {}
  /\ caller = [c \in Callers |-> NoRequest]
  /\ chat = FALSE /\ deleted = FALSE
  /\ spent = [edits |-> 0, chats |-> 0, restarts |-> 0]

-----------------------------------------------------------------------------
(* Rows.                                                                   *)
Asleep(row, status) == [row EXCEPT !.status = status, !.wake = 0]
CanWake(row)        == row.wakes < MaxWakes
Waking(row)         == [row EXCEPT !.status = "ACTIVE", !.wake = row.wakes + 1, !.wakes = row.wakes + 1]
HasOpenRun(a)       == \E i \in DOMAIN runs[a] : runs[a][i].status \in OpenRun

(* A recurring automation has a next time; one that ran once, has reached  *)
(* maxRuns or has expired is completed.                                    *)
AfterRun(row, completes) ==
  IF completes \/ ~CanWake(row) THEN Asleep(row, "COMPLETED") ELSE Waking(row)

(* Run i of a moves on inside execute(), or is over.                       *)
Advance(a, i, run) == runs' = [runs EXCEPT ![a][i] = run]
Left(run)          == [run EXCEPT !.at = "none", !.blocked = FALSE, !.read = NothingRead]
Ended(run)         == [Left(run) EXCEPT !.status = "ENDED"]

(* Ends the pending runs of a and asks those under way to stop.            *)
Withdrawn(a) ==
  [i \in DOMAIN runs[a] |->
     CASE runs[a][i].status = "PENDING" -> [runs[a][i] EXCEPT !.status = "ENDED"]
       [] runs[a][i].status = "RUNNING" -> [runs[a][i] EXCEPT !.status = "CANCELLING"]
       [] OTHER -> runs[a][i]]

-----------------------------------------------------------------------------
(* The scheduler.  Whether a wake-up time has passed is left open.         *)

(* Mutant: automations whose run is still open are listed as well. *)
FindDueAnyway ==
  /\ found = {}
  /\ \E a \in Automations :
       /\ automation[a].status = "ACTIVE" /\ automation[a].wake # 0
       /\ found' = {<<a, automation[a].wake>>}
  /\ UNCHANGED <<automation, runs, caller, chat, deleted, spent>>

(* claimDue: the list ...                                                  *)
FindDue ==
  /\ found = {}
  /\ \E a \in Automations :
       /\ automation[a].status = "ACTIVE" /\ automation[a].wake # 0 /\ ~HasOpenRun(a)
       /\ found' = {<<a, automation[a].wake>>}
  /\ UNCHANGED <<automation, runs, caller, chat, deleted, spent>>

(* ... and the claim of each, which looks at the row once more.            *)
ClaimDue ==
  \E d \in found :
    LET a   == d[1]
        row == automation[a]
        hit == row.status = "ACTIVE" /\ row.wake = d[2]
    IN /\ found' = found \ {d}
       /\ automation' = IF hit THEN [automation EXCEPT ![a].wake = 0] ELSE automation
       /\ runs' = IF hit THEN [runs EXCEPT ![a] = Append(@,
                    [status |-> "PENDING", unfinished |-> FALSE, at |-> "none",
                     blocked |-> FALSE, read |-> NothingRead])]
                  ELSE runs
       /\ UNCHANGED <<caller, chat, deleted, spent>>

(* execute(), in flight once per run: prepareRun                           *)
PrepareRun(a, i) ==
  LET run == runs[a][i]
  IN /\ run.at = "none" /\ run.status = "PENDING"
     /\ automation[a].status = "ACTIVE" /\ ~deleted
     /\ \/ /\ Advance(a, i, [run EXCEPT !.status = "RUNNING", !.at = "prepared"])
           /\ UNCHANGED automation
        \/ /\ Advance(a, i, Ended(run))
           /\ automation' = [automation EXCEPT ![a] = Asleep(@, "COMPLETED")]
     /\ UNCHANGED <<found, caller, chat, deleted, spent>>

(* A chat turn makes the conversation busy by its status while it runs and *)
(* by its unfinished message while it waits for the user.                  *)
Busy(a, i) ==
  \/ chat
  \/ \E b \in Automations : \E j \in DOMAIN runs[b] :
       \/ runs[b][j].unfinished
       \/ /\ <<b, j>> # <<a, i>>
          /\ runs[b][j].status = "RUNNING" /\ runs[b][j].at \in {"agent", "committed", "finishing"}

(* prepareMessages, under the conversation's advisory lock                 *)
PrepareMessages(a, i) ==
  LET run == runs[a][i]
  IN /\ run.at = "prepared"
     /\ Advance(a, i,
          CASE deleted \/ run.status # "RUNNING" -> [run EXCEPT !.at = "stopped"]
            [] ~deleted /\ run.status = "RUNNING" /\ Busy(a, i) -> [run EXCEPT !.at = "busy"]
            [] OTHER -> [run EXCEPT !.at = "agent", !.unfinished = TRUE])
     /\ UNCHANGED <<automation, found, caller, chat, deleted, spent>>

(* Mutant: a run that finds the conversation busy is left as it is. *)
LeaveRunning(a, i) ==
  /\ runs[a][i].at = "busy"
  /\ Advance(a, i, [runs[a][i] EXCEPT !.at = "none"])
  /\ UNCHANGED <<automation, found, caller, chat, deleted, spent>>

(* busy: markRunPending, which passes over a run that is being cancelled   *)
MarkRunPending(a, i) ==
  LET run == runs[a][i]
  IN /\ run.at = "busy"
     /\ Advance(a, i, [run EXCEPT !.at = "none",
                         !.status = IF @ = "RUNNING" THEN "PENDING" ELSE @])
     /\ UNCHANGED <<automation, found, caller, chat, deleted, spent>>

(* The agent's turn ends, cancelled or not, and its message is committed.  *)
Commit(a, i) ==
  LET run == runs[a][i]
  IN /\ run.at = "agent"
     /\ \E blocked \in BOOLEAN :
          Advance(a, i, [run EXCEPT !.at = "committed", !.unfinished = FALSE, !.blocked = blocked])
     /\ UNCHANGED <<automation, found, caller, chat, deleted, spent>>

(* finishRun is one transaction, which reads the automation first ...      *)
FinishRead(a, i) ==
  LET run == runs[a][i]
  IN /\ run.at \in {"committed", "stopped"}
     /\ Advance(a, i, [run EXCEPT !.at = "finishing", !.read = [status |-> automation[a].status, wake |-> automation[a].wake]])
     /\ UNCHANGED <<automation, found, caller, chat, deleted, spent>>

(* ... and writes what it made of what it read.                            *)
FinishRow(run, row, completes) ==
  CASE run.read.status # "ACTIVE" -> [row EXCEPT !.wake = 0]
    [] run.read.status = "ACTIVE" /\ run.blocked -> Asleep(row, "PAUSED")
    [] run.read.status = "ACTIVE" /\ ~run.blocked /\ (run.read.wake = 0 \/ completes) -> AfterRun(row, completes)
    [] OTHER -> [row EXCEPT !.status = "ACTIVE", !.wake = run.read.wake]

FinishRun(a, i) ==
  LET run == runs[a][i]
  IN /\ run.at = "finishing"
     /\ Advance(a, i, Ended(run))
     /\ \E completes \in BOOLEAN :
          automation' = [automation EXCEPT ![a] = FinishRow(run, @, completes)]
     /\ UNCHANGED <<found, caller, chat, deleted, spent>>

-----------------------------------------------------------------------------
(* What a request writes, given the row it reads; {} when it is refused.   *)
(* resume completes an automation that has expired; update gives a new     *)
(* wake-up time to an active automation only.                              *)
Allowed(a) ==
  CASE automation[a].status = "ACTIVE" -> {"pause", "cancel", "complete"} \cup
                                          {w \in {"wake"} : CanWake(automation[a])}
    [] automation[a].status = "PAUSED" -> {"cancel", "complete", "unwake"} \cup
         {w \in {"resume"} : CanWake(automation[a]) /\ ~HasOpenRun(a)}
    [] OTHER -> {}

Ask(c) ==
  /\ caller[c] = NoRequest /\ spent.edits < MaxEdits /\ ~deleted
  /\ \E a \in Automations : \E w \in Allowed(a) :
       caller' = [caller EXCEPT ![c] = [of |-> a, write |-> w]]
  /\ spent' = [spent EXCEPT !.edits = @ + 1]
  /\ UNCHANGED <<automation, runs, found, chat, deleted>>

Written(row, write) ==
  CASE write = "pause"    -> Asleep(row, "PAUSED")
    [] write = "cancel"   -> Asleep(row, "CANCELLED")
    [] write = "complete" -> Asleep(row, "COMPLETED")
    [] write = "unwake"   -> [row EXCEPT !.wake = 0]
    [] write = "wake"     -> [row EXCEPT !.wake = row.wakes + 1, !.wakes = @ + 1]
    [] write = "resume"   -> Waking(row)

Serve(c) ==
  LET a     == caller[c].of
      write == caller[c].write
  IN /\ a # Nobody
     /\ write \in {"wake", "resume"} => CanWake(automation[a])
     /\ automation' = [automation EXCEPT ![a] = Written(@, write)]
     /\ runs' = IF write \in {"pause", "cancel"} THEN [runs EXCEPT ![a] = Withdrawn(a)] ELSE runs
     /\ caller' = [caller EXCEPT ![c] = NoRequest]
     /\ UNCHANGED <<found, chat, deleted, spent>>

(* A chat turn of the conversation begins, beside an automation or not, or *)
(* ends.  One that asks its user a question ends only with the answer or a *)
(* stop, so nothing is assumed of when that is.                            *)
ChatTurn ==
  /\ \/ ~chat /\ spent.chats < MaxChats /\ ~deleted /\ spent' = [spent EXCEPT !.chats = @ + 1]
     \/ chat /\ UNCHANGED spent
  /\ chat' = ~chat
  /\ UNCHANGED <<automation, runs, found, caller, deleted>>

(* cancelByConversationInTransaction: the message of a run is closed here. *)
DeleteConversation ==
  /\ ~deleted /\ deleted' = TRUE
  /\ automation' = [a \in Automations |->
       IF automation[a].status \in Alive THEN Asleep(automation[a], "CANCELLED") ELSE automation[a]]
  /\ runs' = [a \in Automations |-> [i \in DOMAIN runs[a] |->
       [Withdrawn(a)[i] EXCEPT !.unfinished = @ /\ automation[a].status \notin Alive]]]
  /\ UNCHANGED <<found, caller, chat, spent>>

-----------------------------------------------------------------------------
(* A restart: what was under way is lost, the rows are recovered before    *)
(* anything else is served.                                                *)
(* Mutant: runs that were being cancelled are not recovered. *)
RecoveredRunning(run) ==
  IF run.status = "RUNNING" THEN [Ended(run) EXCEPT !.unfinished = FALSE] ELSE Left(run)

RecoveredRun(run) ==
  IF run.status \in {"RUNNING", "CANCELLING"} THEN [Ended(run) EXCEPT !.unfinished = FALSE]
  ELSE Left(run)

Interrupted(a) == \E i \in DOMAIN runs[a] : runs[a][i].status \in {"RUNNING", "CANCELLING"}

Restart ==
  /\ spent.restarts < MaxRestarts
  /\ \E completed \in SUBSET Automations :
       automation' = [a \in Automations |->
         IF automation[a].status = "ACTIVE" /\ Interrupted(a)
         THEN AfterRun(automation[a], a \in completed) ELSE automation[a]]
  /\ runs' = [a \in Automations |-> [i \in DOMAIN runs[a] |-> RecoveredRun(runs[a][i])]]
  /\ found' = {} /\ caller' = [c \in Callers |-> NoRequest]
  /\ spent' = [spent EXCEPT !.restarts = @ + 1]
  /\ UNCHANGED <<chat, deleted>>

Execute(a, i) ==
  \/ PrepareRun(a, i) \/ PrepareMessages(a, i) \/ MarkRunPending(a, i)
  \/ Commit(a, i) \/ FinishRead(a, i) \/ FinishRun(a, i)

Next ==
  \/ FindDue \/ ClaimDue \/ ChatTurn \/ DeleteConversation \/ Restart
  \/ \E a \in Automations : \E i \in DOMAIN runs[a] : Execute(a, i)
  \/ \E c \in Callers : Ask(c) \/ Serve(c)

Spec == Init /\ [][Next]_vars

(* The scheduler's timer ticks on, execute() and the turns it starts run   *)
(* to their end, and requests are served.                                  *)
FairSpec ==
  /\ Spec
  /\ WF_vars(FindDue) /\ WF_vars(ClaimDue)
  /\ \A a \in Automations : \A i \in 1..MaxWakes : WF_vars(i \in DOMAIN runs[a] /\ Execute(a, i))
  /\ \A c \in Callers : WF_vars(Serve(c))

-----------------------------------------------------------------------------
(* An automation has at most one run that is not over, whatever is paused, *)
(* resumed, rescheduled or lost meanwhile: what resume and claimDue each   *)
(* look for before they wake it up.                                        *)
OneOpenRun ==
  \A a \in Automations : \A i, j \in DOMAIN runs[a] :
    runs[a][i].status \in OpenRun /\ runs[a][j].status \in OpenRun => i = j

(* An automation's message that is unfinished keeps every automation of    *)
(* the conversation from running (prepareMessages), so there is always a   *)
(* turn that is going to finish it.  (A chat turn's message may stay       *)
(* unfinished for as long as the user leaves its question open.)           *)
UnfinishedIsRunning ==
  \A a \in Automations : \A i \in DOMAIN runs[a] :
    runs[a][i].unfinished => runs[a][i].at = "agent" /\ runs[a][i].status \in {"RUNNING", "CANCELLING"}

(* A run that found the conversation busy, however often, ends once the    *)
(* chat leaves the conversation alone, and a restart gives nothing up: it  *)
(* is over unless its automation is not active any more.                   *)
RunsEnd ==
  <>[]~chat =>
    \A a \in Automations :
      HasOpenRun(a) ~> deleted \/ automation[a].status # "ACTIVE" \/ ~HasOpenRun(a)
=============================================================================
