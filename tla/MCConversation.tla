--------------------------- MODULE MCConversation ---------------------------
(* Four parts of a conversation that share no state, for TLC: its queue of  *)
(* turns, the lock its turns run under, the consent a tool call of a turn   *)
(* waits for, and the files that are kept for it.  A behaviour is one of    *)
(* one of them; the others stay as they begin.                              *)
EXTENDS ChatTurnRequests, ConversationLock, Approval, Retention

VARIABLE part      \* the one that moves

(* The consent to one call is followed through two requests, a stop and the *)
(* end of its scope; that to a risky call beside a less risky one, through  *)
(* one request.  A consent that never moves has one initial state here.     *)
First == CHOOSE c \in Calls : TRUE

PartsInit ==
  /\ part \in {"queue", "lock", "consent", "consents", "storage"}
  /\ QueueInit /\ Init /\ ConsentInit /\ StorageInit
  /\ \A c \in Calls \ {First} : toolCalls[c].risk = "medium"
  /\ part # "consent" => toolCalls[First].risk = "high"

(* Clients are alike: the first request is the first client's.              *)
Alike == served <= 1 => \A a \in Clients \ {CHOOSE a \in Clients : TRUE} : clients[a] = NoClient
One   == Alike /\ \A c \in Calls \ {First} : toolCalls[c].at = "idle"
Two   == Alike /\ served <= 1 /\ ~aborted /\ policy.open

(* A branch, or every file: not both of them in one behaviour.               *)
Followed ==
  \/ \A c \in Conversations \ {Original} : conversation[c] = "none"
  \/ \E f \in Files : upload[f] = "none"

PartsNext ==
  /\ UNCHANGED part
  /\ \/ part = "queue"   /\ QueueNext    /\ UNCHANGED <<vars, consentVars, storageVars>>
     \/ part = "lock"    /\ Next         /\ UNCHANGED <<queueVars, consentVars, storageVars>>
     \/ part = "consent" /\ ConsentNext  /\ One' /\ UNCHANGED <<queueVars, vars, storageVars>>
     \/ part = "consents" /\ ConsentNext /\ Two' /\ UNCHANGED <<queueVars, vars, storageVars>>
     \/ part = "storage" /\ StorageNext /\ Followed' /\ UNCHANGED <<queueVars, vars, consentVars>>

(* What each assumes of its own steps, where it is the one that moves.       *)
Fairly ==
  /\ \A i \in 1..MaxCalls :
       WF_vars(part = "lock" /\ i \in DOMAIN calls /\ (Enter(i) \/ Finish(i)))
  /\ WF_consentVars(part = "consent" /\ CallStep(First))
  /\ \A c \in Calls : WF_consentVars(part = "consents" /\ CallStep(c))
  /\ \A w \in Workers : /\ WF_storageVars(part = "storage" /\ WorkerStep(w))
                        /\ WF_storageVars(part = "storage" /\ RetryPending(w))
  /\ \A f \in Files : WF_storageVars(part = "storage" /\ Abandoned(f) /\ Lapse(f))

PartsSpec == PartsInit /\ [][PartsNext]_<<part, queueVars, vars, consentVars, storageVars>> /\ Fairly

(* The types of all of them.                                                 *)
TypesOK == QueueTypeOK /\ TypeOK /\ ConsentTypeOK /\ StorageTypeOK
=============================================================================
