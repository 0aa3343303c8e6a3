----------------------------- MODULE LeasedJobs -----------------------------
(***************************************************************************)
(* What the job tables of the backend promise, whatever the job is: a row  *)
(* is put there once, taken to be worked on, given back or taken again     *)
(* when the work was lost, and over once it is over.  An abstract          *)
(* specification: the outboxes and the queues implement it.                *)
(***************************************************************************)
CONSTANT Jobs

VARIABLE job        \* Jobs -> the life of each

JobStates == {"none", "waiting", "taken", "done", "dead"}
Over      == {"done", "dead"}

Become(j, from, to) == job[j] \in from /\ job' = [job EXCEPT ![j] = to]

JobInit == job \in [Jobs -> {"none", "waiting"}]

Put(j)      == Become(j, {"none"}, "waiting")
GiveBack(j) == Become(j, {"taken"}, "waiting")
Finish(j)   == Become(j, {"taken"}, "done")
Bury(j)     == Become(j, {"taken"}, "dead")

(* A batch is taken at once; the jobs in it are worked off one by one.     *)
Take ==
  \E batch \in SUBSET {j \in Jobs : job[j] = "waiting"} :
    job' = [j \in Jobs |-> IF j \in batch THEN "taken" ELSE job[j]]

JobNext == Take \/ \E j \in Jobs : Put(j) \/ GiveBack(j) \/ Finish(j) \/ Bury(j)

JobSpec == JobInit /\ [][JobNext]_job

(* A job that is put is over in the end.                                   *)
EveryJobEnds == \A j \in Jobs : job[j] = "waiting" ~> job[j] \in Over
=============================================================================
