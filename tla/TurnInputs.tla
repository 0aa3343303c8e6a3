------------------------------ MODULE TurnInputs ------------------------------
(***************************************************************************)
(* What a turn promises its users about the inputs they add to it, however *)
(* its loop, its checkpoints and its restarts come to keep the promise.  An *)
(* input is accepted while the turn is open; marking it consumed and       *)
(* putting it into the durable trajectory are one step, oldest first; the  *)
(* turn is sealed only over an empty inbox, and only a sealed turn is ever *)
(* answered.  The turn and the request that drives it end in two steps:    *)
(* between them a turn that gave up may be taken up again, and one that    *)
(* was answered may not; once the request is settled nothing happens any   *)
(* more.  An abstract specification: AgentTurn implements it.              *)
(***************************************************************************)
EXTENDS Naturals

VARIABLES
  accepted,     \* how many inputs were taken in
  marked,       \* the inputs marked consumed
  trajectory,   \* what the durable trajectory holds of them
  life,         \* of the turn
  settled       \* whether its request is

inputsVars == <<accepted, marked, trajectory, life, settled>>

Lives == {"unborn", "open", "sealed", "answered", "given up"}

Oldest(n) == [i \in 1..n |-> i]
Unread    == (1..accepted) \ marked

InputsInit ==
  /\ accepted = 0 /\ marked = {} /\ trajectory = Oldest(0)
  /\ life = "unborn" /\ settled = FALSE

(* A start and a resumption: one that was sealed or had given up when it   *)
(* was interrupted is open again.                                          *)
Open ==
  /\ life # "answered" /\ life' = "open"
  /\ UNCHANGED <<accepted, marked, trajectory, settled>>

Accept ==
  /\ life = "open" /\ accepted' = accepted + 1
  /\ UNCHANGED <<marked, trajectory, life, settled>>

Read ==
  /\ life = "open"
  /\ \E n \in 1..accepted : marked \subseteq 1..n /\ marked' = 1..n /\ trajectory' = Oldest(n)
  /\ UNCHANGED <<accepted, life, settled>>

SealUp ==
  /\ life = "open" /\ Unread = {} /\ life' = "sealed"
  /\ UNCHANGED <<accepted, marked, trajectory, settled>>

Succeed ==
  /\ life = "sealed" /\ Unread = {} /\ life' = "answered"
  /\ UNCHANGED <<accepted, marked, trajectory, settled>>

(* The turn gives up, its request is settled, or both at once, when nobody *)
(* executes it.                                                            *)
GiveUp ==
  /\ life' \in {life, "given up"} /\ (life = "answered" => life' = life)
  /\ settled' \in BOOLEAN
  /\ UNCHANGED <<accepted, marked, trajectory>>

InputsNext == ~settled /\ (Open \/ Accept \/ Read \/ SealUp \/ Succeed \/ GiveUp)

InputsSpec == InputsInit /\ [][InputsNext]_inputsVars
=============================================================================
