-------------------------- MODULE TriggerAnotherBuild --------------------------
(***************************************************************************)
(* A build job whose steps trigger other builds and then wait for them.    *)
(* Each step of TriggerAnotherBuildXPlat (triggerAnotherBuild.ts) queues   *)
(* one build and links it with its own; then it waits for the build by     *)
(* itself, registers it in a variable of the job, or leaves it alone.  The *)
(* last step of the job is the task of WaitForTriggeredBuilds, which reads *)
(* its list from that variable.                                            *)
(*                                                                         *)
(* The agent is external: it runs one step at a time, each in a process of *)
(* its own, which ends when it has no timer and no request left, and goes  *)
(* on after a failed step if the job says so.  It keeps the worst result a *)
(* step prints; a step that prints none has succeeded.                     *)
(***************************************************************************)
EXTENDS WaitForTriggeredBuilds

CONSTANTS
  Steps,           \* the builds the steps trigger, in their order
  Modes,           \* what the steps can do with their builds
  MaxMishaps       \* bound on requests of the triggering steps that fail

ASSUME TriggerAssumption ==
  /\ Steps \in Seq(Build)
  /\ \A i, j \in DOMAIN Steps : Steps[i] = Steps[j] => i = j
  /\ Modes \subseteq [Build -> {"wait", "register", "leave"}]
  /\ MaxMishaps \in Nat

VARIABLES
  mode,            \* the inputs waitForTriggeredBuild and registerToWait
  resilient,       \* the job goes on after a failed step
  at,              \* the current step; the one after Steps is the wait
  process,         \* the process of the current triggering step
  queued,          \* the server: builds that exist
  registered,      \* the variable System.TriggerdBuilds_...
  reports,         \* the results each step has printed
  mishaps          \* number of requests that have failed

triggerVars == <<mode, resilient, at, process, queued, registered, reports, mishaps>>
pipelineVars == <<vars, triggerVars>>

(* timer is set while the step polls; busy is its flag running, asked the  *)
(* outstanding getBuild, sent while the build ran or after its end, and    *)
(* expired that the timeout date has passed.                               *)
Process ==
  [pc : {"queue", "link", "over"}, timer : BOOLEAN, busy : BOOLEAN,
   asked : {"none", "early", "late"}, expired : BOOLEAN]

Begun == at > Len(Steps)
This == Steps[at]
NewProcess ==
  [pc |-> "queue", timer |-> FALSE, busy |-> FALSE, asked |-> "none", expired |-> FALSE]

(* Every value has its type, and nothing is waited for that does not exist. *)
PipelineTypeOK ==
  /\ TypeOK
  /\ mode \in Modes /\ resilient \in BOOLEAN
  /\ at \in 1 .. Len(Steps) + 1
  /\ process \in Process
  /\ registered \subseteq queued /\ queued \subseteq Build
  /\ reports \in [Build -> SUBSET {"Succeeded", "Failed"}]
  /\ mishaps \in 0 .. MaxMishaps

PipelineInit ==
  /\ outcome = [b \in Build |-> "None"] /\ cancelled = {} /\ expired = FALSE
  /\ timed \in Timed
  /\ waitList = [b \in Build |-> "absent"]
  /\ running = FALSE /\ interval = FALSE /\ resultState = "Succeeded"
  /\ early = [b \in Build |-> 0] /\ late = [b \in Build |-> 0]
  /\ timelines = [b \in Build |-> 0]
  /\ calls = <<>> /\ verdict = "none" /\ faults = {}
  /\ mode \in Modes /\ resilient \in BOOLEAN
  /\ at = 1 /\ process = NewProcess
  /\ queued = {} /\ registered = {}
  /\ reports = [b \in Build |-> {}]
  /\ mishaps = 0
-----------------------------------------------------------------------------
(* A step that triggers a build. *)

ReportResult(r) == reports' = [reports EXCEPT ![This] = @ \cup {r}]

Mishap == mishaps < MaxMishaps /\ mishaps' = mishaps + 1

inputs == <<mode, resilient, at>>

\* Mutant: a failure is taken for a build that was queued.
QueuedAnyway == process' = [process EXCEPT !.pc = "link"] /\ UNCHANGED reports
NotQueued == process' = [process EXCEPT !.pc = "over"] /\ ReportResult("Failed")

(* triggerBuild: whatever fails on the way to queueBuild, its definition is *)
(* not found or its repository is of another type, the step fails.  If     *)
(* queueBuild fails, the server may have queued the build all the same.    *)
TriggerBuild ==
  /\ process.pc = "queue"
  /\ \/ /\ queued' = queued \cup {This}
        /\ process' = [process EXCEPT !.pc = "link"]
        /\ UNCHANGED <<reports, mishaps>>
     \/ NotQueued /\ UNCHANGED <<queued, mishaps>>
     \/ NotQueued /\ Mishap /\ queued' = queued \cup {This}
  /\ UNCHANGED <<vars, inputs, registered>>

\* Mutant: the variable gets the last build only.
RegisterLast == registered' = {This}
(* The build's id is appended to the variable, if it has a value already.  *)
Register == registered' = registered \cup {This}

(* waitAndFinish                                                           *)
WaitAndFinish ==
  /\ process' = [process EXCEPT !.pc = "over", !.timer = (mode[This] = "wait")]
  /\ IF mode[This] = "wait" THEN UNCHANGED reports ELSE ReportResult("Succeeded")
  /\ IF mode[This] = "register" THEN Register ELSE UNCHANGED registered

(* createLinks: a file that cannot be written fails the step, and so does  *)
(* a timeline without records, by an exception nobody catches.  Nobody is  *)
(* told if a request of writeToBuildSummary fails: the promise stays       *)
(* pending or is rejected without a handler.  In none of these cases is    *)
(* waitAndFinish called, which registers the build as well.                *)
CreateLinks ==
  /\ process.pc = "link"
  /\ \/ WaitAndFinish
     \/ /\ process' = [process EXCEPT !.pc = "over"]
        /\ ReportResult("Failed") /\ UNCHANGED registered
     \/ /\ process' = [process EXCEPT !.pc = "over"]
        /\ UNCHANGED <<registered, reports>>
  /\ UNCHANGED <<vars, inputs, queued, mishaps>>

\* Mutant: the flag running is looked at first.
TimeIsOverIdle == process.expired /\ ~ process.busy
TimeIsOver == process.expired

(* The callback of the interval: the timeout comes before the flag running. *)
StepTick ==
  /\ process.timer
  /\ \/ /\ TimeIsOver
        /\ process' = [process EXCEPT !.timer = FALSE]
        /\ ReportResult("Failed")
     \/ /\ ~ TimeIsOver /\ ~ process.busy
        /\ process' = [process EXCEPT !.busy = TRUE,
                         !.asked = IF outcome[This] = "None" THEN "early" ELSE "late"]
        /\ UNCHANGED reports
  /\ UNCHANGED <<vars, inputs, queued, registered, mishaps>>

StepExpires ==
  /\ process.timer /\ ~ process.expired
  /\ process' = [process EXCEPT !.expired = TRUE]
  /\ UNCHANGED <<vars, inputs, queued, registered, reports, mishaps>>

(* The answer to getBuild; it may come after the timeout was reported, and *)
(* is reported as well.  A build that is being cancelled counts as over,   *)
(* as one that has been.                                                   *)
StepAnswered(s) ==
  /\ process.asked # "none"
  /\ \/ s = "InProgress" /\ process.asked = "early"
     \/ s = "Completed" /\ outcome[This] # "None"
  /\ IF s = "Completed"
     THEN /\ process' = [process EXCEPT !.asked = "none", !.busy = FALSE, !.timer = FALSE]
          /\ ReportResult(IF outcome[This] = "Succeeded" THEN "Succeeded" ELSE "Failed")
     ELSE /\ process' = [process EXCEPT !.asked = "none", !.busy = FALSE]
          /\ UNCHANGED reports
  /\ UNCHANGED <<vars, inputs, queued, registered, mishaps>>

(* A failing getBuild ends the wait.  Nobody handles a connection that     *)
(* fails: the flag stays set, and only the timeout is looked at any more.  *)
StepUnanswered ==
  /\ process.asked # "none" /\ Mishap
  /\ \/ /\ process' = [process EXCEPT !.asked = "none", !.timer = FALSE]
        /\ ReportResult("Failed")
     \/ /\ process' = [process EXCEPT !.asked = "none"]
        /\ UNCHANGED reports
  /\ UNCHANGED <<vars, inputs, queued, registered>>
-----------------------------------------------------------------------------
(* The agent. *)

Ended == process.pc = "over" /\ ~ process.timer /\ process.asked = "none"
GoesOn == ~ Begun /\ Ended /\ (resilient \/ "Failed" \notin reports[This])

NextStep ==
  /\ GoesOn /\ at < Len(Steps)
  /\ at' = at + 1 /\ process' = NewProcess
  /\ UNCHANGED <<vars, mode, resilient, queued, registered, reports, mishaps>>

(* The wait step reads the variable.                                       *)
StartWait ==
  /\ GoesOn /\ at = Len(Steps)
  /\ at' = at + 1 /\ process' = NewProcess
  /\ waitList' = [b \in Build |-> IF b \in registered THEN "All" ELSE "absent"]
  /\ interval' = TRUE
  /\ UNCHANGED <<serverVars, running, resultState, pollVars, calls, verdict, faults,
                 mode, resilient, queued, registered, reports, mishaps>>
-----------------------------------------------------------------------------
StepReply == StepUnanswered \/ \E s \in Status : StepAnswered(s)

TriggerNext ==
  ~ Begun /\ (TriggerBuild \/ CreateLinks \/ StepTick \/ StepExpires \/ StepReply)

WaitNext == Begun /\ (Expire \/ Tick \/ \E b \in Build : Reply(b)) /\ UNCHANGED triggerVars

BuildEnds(b) == b \in queued /\ Finish(b) /\ UNCHANGED triggerVars

PipelineNext ==
  \/ TriggerNext \/ NextStep \/ StartWait \/ WaitNext
  \/ \E b \in Build : BuildEnds(b)

PipelineSpec == PipelineInit /\ [][PipelineNext]_pipelineVars

(* As for the wait step, of the triggering ones too.                       *)
PipelineFairness ==
  /\ WF_pipelineVars(TriggerNext) /\ WF_pipelineVars(~ Begun /\ StepExpires)
  /\ WF_pipelineVars(NextStep \/ StartWait)
  /\ WF_pipelineVars(Begun /\ Expire /\ UNCHANGED triggerVars)
  /\ WF_pipelineVars(Begun /\ Tick /\ UNCHANGED triggerVars)
  /\ \A b \in Build :
       /\ WF_pipelineVars(BuildEnds(b))
       /\ WF_pipelineVars(Begun /\ Timeline(b) /\ UNCHANGED triggerVars)
       /\ WF_pipelineVars(Begun /\ (\E s \in Status : Deliver(b, s)) /\ UNCHANGED triggerVars)
       /\ WF_pipelineVars(Begun /\ (\E i \in DOMAIN calls : Cancel(i, b)) /\ UNCHANGED triggerVars)

FairPipelineSpec == PipelineSpec /\ PipelineFairness
-----------------------------------------------------------------------------
(* Properties. *)

(* "The triggered build will be added into wait list (for the Wait step)": *)
(* when every step of the job has succeeded, the wait included, each build *)
(* that a step waited for or registered has ended well.  A step that ended *)
(* without a result is left out: its build is in no list.                  *)
SuccessIsWhole ==
  verdict = "Succeeded" /\ (\A b \in Build : "Failed" \notin reports[b]) =>
    \A b \in Build :
      /\ mode[b] = "register" /\ reports[b] # {} => outcome[b] \in Good
      /\ mode[b] = "wait" /\ reports[b] # {} => outcome[b] = "Succeeded"

(* A job ends when a failed step stops it, or with the result of the wait.  *)
JobOver == (~ Begun /\ Ended /\ ~ GoesOn) \/ verdict # "none"

(* Every job ends: a step that polls by its timeout, even if a connection  *)
(* fails; the wait by its timeout if connections are made, and without one *)
(* as every build ends, if timelines can be read and answers come in the   *)
(* end within the five seconds between polls.  If they do not, a build     *)
(* that succeeded in part can be put back on the list for ever.            *)
Prompt == <>[][Tick => \A b \in Build : early[b] + late[b] + timelines[b] = 0]_vars
EventuallyEnded ==
  /\ []("connect" \notin faults)
  /\ timed \/ (Prompt /\ []("timeline" \notin faults))
  => <>JobOver
=============================================================================
