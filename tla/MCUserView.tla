----------------------------- MODULE MCUserView -----------------------------
(* What a user sees of a turn, for TLC: the workflow's board and the        *)
(* timeline of tool calls, which share no state.  A behaviour is one of one *)
(* of them.  Phases are told apart by their order alone and calls not at    *)
(* all, so that a permutation of either changes nothing.                    *)
EXTENDS WorkflowBoard, Timeline, FiniteSetsExt, TLC

CONSTANT MaxMade

VARIABLE part      \* the one that moves

boardVars == vars
Sym       == Permutations(PhaseIds) \cup Permutations(Calls)

(* One call and every fault; or both, with MaxMade events between them and  *)
(* one fault of the client.                                                 *)
OneCall  == Cardinality({c \in Calls : made[c] > 0}) <= 1
TwoCalls == /\ MapThenSumSet(LAMBDA c : made[c], Calls) <= MaxMade
            /\ used.drops + used.boots <= 1 /\ used.crashes + used.unstored = 0

ViewInit == part \in {"board", "call", "calls"} /\ Init /\ TimelineInit

ViewNext ==
  /\ UNCHANGED part
  /\ \/ part = "board" /\ Next         /\ UNCHANGED timelineVars
     \/ part = "call"  /\ TimelineNext /\ OneCall'  /\ UNCHANGED boardVars
     \/ part = "calls" /\ TimelineNext /\ TwoCalls' /\ UNCHANGED boardVars

ViewSpec == ViewInit /\ [][ViewNext]_<<part, boardVars, timelineVars>>

(* The types of both.                                                       *)
TypesOK == TypeOK /\ TimelineTypeOK
=============================================================================
