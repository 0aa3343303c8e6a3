----------------------------- MODULE MCChatTurn -----------------------------
(* ChatTurn for TLC: client messages as model values.  The safety runs with *)
(* two of them are symmetric in them; the liveness runs use no symmetry.    *)
EXTENDS ChatTurn, FiniteSets, TLC
Symmetry == Permutations(Requests)

(* The liveness run follows two messages and a stop or an answer, or one    *)
(* message with both of them over a crash.                                  *)
First         == CHOOSE r \in Requests : TRUE
Followed      == \/ spent.crashes = 0 /\ spent.stops + spent.steers <= 1
                 \/ \A r \in Requests \ {First} : row[r].status = "NONE"
FollowedFair  == Init /\ [][Next /\ Followed']_vars /\ Fairness

(* The restart run follows two messages over one crash, or one message,     *)
(* with a second batch of calls, over three of two crashes, a stop and an   *)
(* added input.  It checks safety alone: this is a constraint in its cfg.   *)
Restarted == \/ /\ spent.crashes <= 1 /\ spent.stops + spent.steers = 0
                /\ \A r \in Requests : dispatched[r] <= 1
             \/ /\ spent.crashes + spent.stops + spent.steers <= 3
                /\ Cardinality({r \in Requests : row[r].status # "NONE"}) <= 1
=============================================================================
