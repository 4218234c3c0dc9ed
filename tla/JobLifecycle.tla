---------------------------- MODULE JobLifecycle -----------------------------
(***************************************************************************)
(* What job.ts promises of the state of a tracked job: the transitions its *)
(* header lists (job.ts:16-24), and that only the children of a job that   *)
(* was joined or cut are themselves cut (job.ts:206-225).                  *)
(***************************************************************************)
CONSTANTS
  Job,         \* the jobs of the pipeline
  Parent       \* [Job -> Job \cup {NoJob}]

VARIABLE
  state        \* [Job -> JobState]

JobState == {"New", "Locating", "Streaming", "Finishing", "Done",
             "Joined", "Queued", "Cut", "Downloading"}

Terminal == {"Done", "Queued", "Joined", "Cut"}

Documented ==
  [New         |-> {"Locating", "Streaming", "Joined", "Cut"},
   Locating    |-> {"Streaming", "Joined", "Cut"},
   Streaming   |-> {"Finishing"},
   Finishing   |-> {"Downloading", "Queued", "Done"},
   Downloading |-> {"Done"},
   Done        |-> {},
   Queued      |-> {},
   Joined      |-> {},
   Cut         |-> {}]

Init == state = [j \in Job |-> "New"]

Move(j) ==
  \E s \in Documented[state[j]] :
    /\ s = "Cut" => Parent[j] \in Job /\ state[Parent[j]] \in {"Joined", "Cut"}
    /\ state' = [state EXCEPT ![j] = s]

Next == \E j \in Job : Move(j)

Spec == Init /\ [][Next]_state
=============================================================================
