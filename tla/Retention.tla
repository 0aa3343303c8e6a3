----------------------------- MODULE Retention -----------------------------
(***************************************************************************)
(* What becomes of the files of conversations that are branched, recycled, *)
(* restored and purged: the object rows and the files they name, an upload *)
(* in progress, the purge with the deletion tasks it leaves behind, and    *)
(* the workers that carry those out, side by side and over restarts.       *)
(*                                                                         *)
(* A file is its storage key.  Rehoming is left out: a link is only made   *)
(* to an object of the message's own conversation, so that no object has   *)
(* links from another.  The delay before a retry is not modelled.          *)
(***************************************************************************)
EXTENDS FiniteSets, Naturals

CONSTANTS
  Conversations,
  Original,         \* the one there is at first; the others are its branches
  Files,            \* uploads, each with a storage key of its own
  Workers,          \* purges and ticks that may be under way side by side
  MaxFaults         \* bound of a run: restarts, failing and slow calls

VARIABLES
  conversation,     \* its row: live, binned, overdue in the bin or gone
  objects,          \* runtimeObject: <<c, f>> is the row of c that names file f
  stored,           \* the files in the object storage
  upload,           \* RuntimeObjectService.upload of each file, to Original
  tasks,            \* storageDeletionTask by its deduplication key, the file
  worker,           \* a purge or a tick, and where it stands
  faults

storageVars == <<conversation, objects, stored, upload, tasks, worker, faults>>

Existing   == {"live", "binned", "overdue"}
NoTask     == [status |-> "none", source |-> Original, lapsed |-> FALSE]
Resting    == [at |-> "idle", of |-> Original, files |-> {}]
Processing == {"saved", "created", "cleaning"}

StorageTypeOK ==
  /\ conversation \in [Conversations -> Existing \cup {"none", "gone"}]
  /\ objects \subseteq Conversations \X Files
  /\ stored \subseteq Files
  /\ upload \in [Files -> {"none", "checked", "ended", "lost"} \cup Processing]
  /\ tasks \in [Files -> [status : {"none", "pending", "processing"}, source : Conversations,
                          lapsed : BOOLEAN]]
  /\ worker \in [Workers -> [at : {"idle", "purge", "list", "claim", "remove", "delete", "retry"},
                             of : Conversations \cup Files, files : SUBSET Files]]
  /\ faults \in 0..MaxFaults

StorageInit ==
  /\ conversation = [c \in Conversations |-> IF c = Original THEN "live" ELSE "none"]
  /\ objects = {} /\ stored = {}
  /\ upload = [f \in Files |-> "none"]
  /\ tasks = [f \in Files |-> NoTask]
  /\ worker = [w \in Workers |-> Resting]
  /\ faults = 0

FilesOf(c) == {f \in Files : <<c, f>> \in objects}
Fault      == faults < MaxFaults /\ faults' = faults + 1

-----------------------------------------------------------------------------
(* An upload checks the conversation, writes the file, makes a row of it   *)
(* and makes that available; whatever fails, it clears both away again.    *)
Step(f, from, to) == upload[f] = from /\ upload' = [upload EXCEPT ![f] = to]

CheckPartition(f) ==
  /\ conversation[Original] = "live"
  /\ Step(f, "none", "checked")
  /\ UNCHANGED <<conversation, objects, stored, tasks, worker, faults>>

SaveOriginal(f) ==
  /\ Step(f, "checked", "saved")
  /\ stored' = stored \cup {f}
  /\ UNCHANGED <<conversation, objects, tasks, worker, faults>>

CreateObject(f) ==
  /\ Step(f, "saved", IF conversation[Original] = "gone" THEN "cleaning" ELSE "created")
  /\ objects' = IF conversation[Original] = "gone" THEN objects ELSE objects \cup {<<Original, f>>}
  /\ UNCHANGED <<conversation, stored, tasks, worker, faults>>

MakeAvailable(f) ==
  /\ <<Original, f>> \in objects
  /\ Step(f, "created", "ended")
  /\ UNCHANGED <<conversation, objects, stored, tasks, worker, faults>>

GiveUpUpload(f) ==  \* the processor throws, or the row is gone
  /\ Step(f, "created", "cleaning")
  /\ IF <<Original, f>> \in objects THEN Fault ELSE UNCHANGED faults
  /\ objects' = objects \ {<<Original, f>>}
  /\ UNCHANGED <<conversation, stored, tasks, worker>>

RemoveUpload(f) ==  \* a removal that fails is ignored
  /\ \/ Step(f, "cleaning", "ended") /\ stored' = stored \ {f} /\ UNCHANGED faults
     \/ Step(f, "cleaning", "lost") /\ Fault /\ UNCHANGED stored
  /\ UNCHANGED <<conversation, objects, tasks, worker>>

-----------------------------------------------------------------------------
(* Branching copies the rows of the messages it copies, storage key and    *)
(* all.                                                                    *)
Branch(c, d) ==
  /\ conversation[c] = "live" /\ conversation[d] = "none"
  /\ conversation' = [conversation EXCEPT ![d] = "live"]
  /\ \E copied \in SUBSET {f \in FilesOf(c) : upload[f] = "ended"} :
       objects' = objects \cup {<<d, f>> : f \in copied}
  /\ UNCHANGED <<stored, upload, tasks, worker, faults>>

Becomes(c, from, to) ==
  /\ conversation[c] = from
  /\ conversation' = [conversation EXCEPT ![c] = to]
  /\ UNCHANGED <<objects, stored, upload, tasks, worker, faults>>

RecycleConversation(c) == Becomes(c, "live", "binned")
Expire(c)  == Becomes(c, "binned", "overdue")
RestoreConversation(c) == Becomes(c, "binned", "live")

-----------------------------------------------------------------------------
Goto(w, at)        == worker' = [worker EXCEPT ![w].at = at]
Settled(w)         == [worker EXCEPT ![w].at = "claim", ![w].of = Original, ![w].files = @ \ {worker[w].of}]
Rest(w)            == worker' = [worker EXCEPT ![w] = Resting]
Enqueued(files, c) ==                                      \* skipDuplicates
  [f \in Files |-> IF f \in files /\ tasks[f].status = "none"
                   THEN [status |-> "pending", source |-> c, lapsed |-> FALSE] ELSE tasks[f]]

(* The purge's transaction, the user's or the hourly one's, reads the      *)
(* conversation and its objects, under no lock ...                         *)
BeginPurge(w, c) ==
  /\ worker[w].at = "idle" /\ conversation[c] \in {"binned", "overdue"}
  /\ worker' = [worker EXCEPT ![w] = [at |-> "purge", of |-> c, files |-> FilesOf(c)]]
  /\ UNCHANGED <<conversation, objects, stored, upload, tasks, faults>>

(* Mutant: rows made meanwhile go with the conversation. *)
PurgeCascading(w) ==
  LET c == worker[w].of IN
  /\ worker[w].at = "purge"
  /\ conversation[c] \in Existing
  /\ conversation' = [conversation EXCEPT ![c] = "gone"]
  /\ objects' = {r \in objects : r[1] # c}
  /\ tasks' = Enqueued(worker[w].files, c)
  /\ worker' = [worker EXCEPT ![w].at = "list", ![w].files = {}]
  /\ UNCHANGED <<stored, upload, faults>>

(* ... and deletes them, which a row made meanwhile forbids (the key of an *)
(* object's conversation is restrictive), but a restore does not.          *)
Purge(w) ==
  LET c == worker[w].of IN
  /\ worker[w].at = "purge"
  /\ conversation[c] \in Existing /\ FilesOf(c) \subseteq worker[w].files
  /\ conversation' = [conversation EXCEPT ![c] = "gone"]
  /\ objects' = {r \in objects : r[1] # c}
  /\ tasks' = Enqueued(worker[w].files, c)
  /\ worker' = [worker EXCEPT ![w].at = "list", ![w].files = {}]
  /\ UNCHANGED <<stored, upload, faults>>

RollBack(w) ==
  /\ worker[w].at = "purge"
  /\ conversation[worker[w].of] = "gone" \/ ~(FilesOf(worker[w].of) \subseteq worker[w].files)
  /\ Rest(w)
  /\ UNCHANGED <<conversation, objects, stored, upload, tasks, faults>>

-----------------------------------------------------------------------------
(* Mutant: a claim that was lost stays one. *)
PendingOnly(f) == tasks[f].status = "pending"

(* A task to do: pending, or claimed more than ten minutes ago.            *)
Claimable(f) == tasks[f].status = "pending" \/ (tasks[f].status = "processing" /\ tasks[f].lapsed)

(* processSource, after the purge, and retryPending, every ten minutes     *)
ListSource(w) ==
  /\ worker[w].at = "list"
  /\ worker' = [worker EXCEPT ![w] = [at |-> "claim", of |-> Original,
       files |-> {f \in Files : Claimable(f) /\ tasks[f].source = worker[w].of}]]
  /\ UNCHANGED <<conversation, objects, stored, upload, tasks, faults>>

RetryPending(w) ==
  /\ worker[w].at = "idle" /\ \E f \in Files : Claimable(f)
  /\ worker' = [worker EXCEPT ![w] = [at |-> "claim", of |-> Original, files |-> {f \in Files : Claimable(f)}]]
  /\ UNCHANGED <<conversation, objects, stored, upload, tasks, faults>>

(* processTask                                                             *)
Claim(w) ==
  /\ worker[w].at = "claim"
  /\ \/ /\ worker[w].files = {} /\ Rest(w) /\ UNCHANGED tasks
     \/ \E f \in worker[w].files :
          IF Claimable(f)
          THEN /\ tasks' = [tasks EXCEPT ![f].status = "processing", ![f].lapsed = FALSE]
               /\ worker' = [worker EXCEPT ![w].at = "remove", ![w].of = f]
          ELSE worker' = [worker EXCEPT ![w].files = @ \ {f}] /\ UNCHANGED tasks
  /\ UNCHANGED <<conversation, objects, stored, upload, faults>>

RemoveFile(w) ==
  /\ worker[w].at = "remove"
  /\ stored' = stored \ {worker[w].of}
  /\ Goto(w, "delete")
  /\ UNCHANGED <<conversation, objects, upload, tasks, faults>>

(* Another worker has deleted the task of a slow one: its own delete and   *)
(* the update in the catch both throw, and the rest of its list is left.   *)
DeleteTask(w) ==
  /\ worker[w].at = "delete"
  /\ tasks' = [tasks EXCEPT ![worker[w].of] = NoTask]
  /\ worker' = IF tasks[worker[w].of] = NoTask THEN [worker EXCEPT ![w] = Resting] ELSE Settled(w)
  /\ UNCHANGED <<conversation, objects, stored, upload, faults>>

Fails(w) ==
  /\ worker[w].at \in {"remove", "delete"} /\ Fault
  /\ Goto(w, "retry")
  /\ UNCHANGED <<conversation, objects, stored, upload, tasks>>

Reschedule(w) ==
  /\ worker[w].at = "retry"
  /\ IF tasks[worker[w].of] = NoTask
     THEN Rest(w) /\ UNCHANGED tasks
     ELSE /\ tasks' = [tasks EXCEPT ![worker[w].of].status = "pending", ![worker[w].of].lapsed = FALSE]
          /\ worker' = Settled(w)
  /\ UNCHANGED <<conversation, objects, stored, upload, faults>>

(* Ten minutes pass: of a worker that is slow, or that is there no more.   *)
Abandoned(f) == \A w \in Workers : worker[w].of # f

Lapse(f) ==
  /\ tasks[f].status = "processing" /\ ~tasks[f].lapsed
  /\ IF Abandoned(f) THEN UNCHANGED faults ELSE Fault
  /\ tasks' = [tasks EXCEPT ![f].lapsed = TRUE]
  /\ UNCHANGED <<conversation, objects, stored, upload, worker>>

Restart ==
  /\ Fault
  /\ upload' = [f \in Files |-> IF upload[f] \in {"none", "ended"} THEN upload[f] ELSE "lost"]
  /\ worker' = [w \in Workers |-> Resting]
  /\ UNCHANGED <<conversation, objects, stored, tasks>>

UploadStep(f) ==
  SaveOriginal(f) \/ CreateObject(f) \/ MakeAvailable(f) \/ GiveUpUpload(f) \/ RemoveUpload(f)

WorkerStep(w) ==
  \/ Purge(w) \/ RollBack(w) \/ ListSource(w)
  \/ Claim(w) \/ RemoveFile(w) \/ DeleteTask(w) \/ Reschedule(w)

StorageNext ==
  \/ \E f \in Files : CheckPartition(f) \/ UploadStep(f) \/ Lapse(f)
  \/ \E c \in Conversations :
       RecycleConversation(c) \/ Expire(c) \/ RestoreConversation(c) \/ \E d \in Conversations : Branch(c, d)
  \/ \E w \in Workers :
       WorkerStep(w) \/ Fails(w) \/ RetryPending(w) \/ \E c \in Conversations : BeginPurge(w, c)
  \/ Restart

StorageSpec == StorageInit /\ [][StorageNext]_storageVars

(* Calls return, ten minutes pass, and the tick comes back.                *)
StorageFairSpec ==
  /\ StorageSpec
  /\ \A w \in Workers : WF_storageVars(WorkerStep(w)) /\ WF_storageVars(RetryPending(w))
  /\ \A f \in Files : WF_storageVars(Abandoned(f) /\ Lapse(f))

-----------------------------------------------------------------------------
(* No file is stored that nobody would ever remove: there is a row that    *)
(* names it, a task to delete it, or an upload that will clear it away;    *)
(* only uploads that a restart cut off, or whose clearing failed, leave    *)
(* one over.                                                               *)
NothingLeaks ==
  \A f \in stored :
    \/ \E c \in Conversations : f \in FilesOf(c)
    \/ tasks[f].status # "none"
    \/ upload[f] \in Processing \cup {"lost"}

(* The files of a purged conversation are removed in the end, whatever     *)
(* fails, is slow, is claimed twice or lost in a restart.                  *)
FilesRemoved == \A f \in Files : tasks[f].status # "none" ~> f \notin stored

(* Generated files and media are stored as RuntimeObject records rather    *)
(* than as temporary attachments (README): what a conversation that is not *)
(* purged shows as an object is there to be opened.                        *)
FilesKept == \A r \in objects : r[2] \in stored
=============================================================================
