------------------------- MODULE MCAzureResourceGroup -------------------------
(* Instances of AzureResourceGroup for TLC. *)
EXTENDS AzureResourceGroup

CONSTANTS v1, v2, main

MCCall == {v1, v2, main}
AllActions == VmActions \cup AgentActions \cup {"DeleteRG"}

(* Machines on two pages, or no machines. *)
TwoPages == {<<{v1}, {v2}>>, <<{}>>}

OnePage == {<<{v2}>>}

(* A machine to be started first, and one with an extension that has failed. *)
OffAndBroken ==
  {[v \in {v1, v2} |-> IF v = v1 THEN [power |-> "deallocated", ext |-> "none"]
                       ELSE [power |-> "running", ext |-> "Failed"]]}
=============================================================================
