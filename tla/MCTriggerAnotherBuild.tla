------------------------- MODULE MCTriggerAnotherBuild -------------------------
(* Instances of TriggerAnotherBuild for TLC. *)
EXTENDS TriggerAnotherBuild, TLC

CONSTANTS b1, b2

MCBuild == {b1, b2}
TwoSteps == <<b1, b2>>
MCOutcomes ==
  [b \in Build |-> IF b = b1 THEN {"Succeeded", "PartiallySucceeded"} ELSE {"Succeeded", "Canceled"}]

(* Two builds for the wait step, or one beside a build that is not its own. *)
MCModes ==
  {(b1 :> first) @@ (b2 :> "register") : first \in {"register", "wait", "leave"}}
=============================================================================
