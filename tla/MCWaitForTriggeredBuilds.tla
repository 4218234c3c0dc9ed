----------------------- MODULE MCWaitForTriggeredBuilds -----------------------
(* Instances of WaitForTriggeredBuilds for TLC. *)
EXTENDS WaitForTriggeredBuilds

CONSTANT Partly   \* builds that can only succeed in part, or be cancelled here

(* A build somebody else cancels stands for one that fails: both are failures. *)
MCOutcomes ==
  [b \in Build |-> IF b \in Partly THEN {"PartiallySucceeded"} ELSE {"Succeeded", "Canceled"}]
=============================================================================
