------------------------------- MODULE TurnLine -------------------------------
(***************************************************************************)
(* What a lock promises the turns of one conversation: they line up as     *)
(* they come and go through one by one.  Whoever is first takes the turn   *)
(* or gives up and leaves; nobody passes another, and nobody comes back.   *)
(* An abstract specification, without promises, chains or a map of them:   *)
(* ConversationLock implements it.                                         *)
(***************************************************************************)
EXTENDS Naturals, Sequences

VARIABLE line       \* where each stands, in order of arrival

First(i)    == \A j \in 1..(i - 1) : line[j] = "left"
Turn(i, at) == First(i) /\ line' = [line EXCEPT ![i] = at]

LineInit == line = <<>>

Arrive    == line' = Append(line, "waiting")
TakeTurn(i) == line[i] = "waiting" /\ Turn(i, "acting")
GiveUp(i) == line[i] = "waiting" /\ Turn(i, "left")
Leave(i)  == line[i] = "acting" /\ Turn(i, "left")

LineNext == Arrive \/ \E i \in DOMAIN line : TakeTurn(i) \/ GiveUp(i) \/ Leave(i)

LineSpec == LineInit /\ [][LineNext]_line
=============================================================================
