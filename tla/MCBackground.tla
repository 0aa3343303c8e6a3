---------------------------- MODULE MCBackground ----------------------------
(* Two background services that share no state, for TLC: the reviews of grow *)
(* and the automations of a conversation.  A behaviour is one of one of      *)
(* them; the other stays as it begins.                                       *)
EXTENDS GrowReviews, Automation

VARIABLE service      \* the one that moves

schedulesVars == vars

First == CHOOSE a \in Automations : TRUE

(* One automation is followed from its first time of waking up, the others  *)
(* being cancelled; or all of them together, each from its last but one,    *)
(* with one request and no restart.  A version with none before it is given *)
(* the uses that ask for it.  What never moves has one initial state.       *)
ServicesInit ==
  /\ service \in {"growth", "schedules", "together"}
  /\ GrowInit /\ Init
  /\ \A a \in Automations :
       automation[a] = CASE service = "together" -> Created(MaxWakes - 1)
                         [] service # "together" /\ a = First -> Created(1)
                         [] OTHER -> Cancelled
  /\ ~effect.previous => \A e \in Events : outbox[e].outcome = "load_failed"
  /\ service # "growth" => /\ \A e \in Events : outbox[e].outcome = "completed"
                           /\ effect = Seen(9, 0, TRUE)

Alone    == \A a \in Automations \ {First} : automation[a] = Cancelled
Together == spent.edits <= 1 /\ spent.restarts = 0

ServicesNext ==
  /\ UNCHANGED service
  /\ \/ service = "growth"    /\ GrowNext /\ UNCHANGED schedulesVars
     \/ service = "schedules" /\ Next /\ Alone' /\ UNCHANGED growVars
     \/ service = "together"  /\ Next /\ Together' /\ UNCHANGED growVars

(* What each assumes of its own steps, where it is the one that moves.       *)
Fairly ==
  /\ WF_growVars(service = "growth" /\ DispatcherStep)
  /\ WF_growVars(service = "growth" /\ WorkerStep)
  /\ WF_schedulesVars(service # "growth" /\ FindDue)
  /\ WF_schedulesVars(service # "growth" /\ ClaimDue)
  /\ \A a \in Automations : \A i \in 1..MaxWakes :
       WF_schedulesVars(service # "growth" /\ i \in DOMAIN runs[a] /\ Execute(a, i))
  /\ \A c \in Callers : WF_schedulesVars(service # "growth" /\ Serve(c))

ServicesSpec == ServicesInit /\ [][ServicesNext]_<<service, growVars, schedulesVars>> /\ Fairly

(* The types of both.                                                        *)
TypesOK == GrowTypeOK /\ TypeOK
=============================================================================
