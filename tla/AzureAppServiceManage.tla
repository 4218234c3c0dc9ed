-------------------------- MODULE AzureAppServiceManage --------------------------
(***************************************************************************)
(* AzureAppServiceManageV0: it starts, stops or restarts a site, swaps two *)
(* of its slots, starts or stops its web jobs, installs extensions and     *)
(* restarts the Kudu service for them, or links the site to Application    *)
(* Insights.  Each action is a chain of requests to Azure or to the Kudu   *)
(* service, some of them polled; after it the swap and the installation    *)
(* are entered in the history of deployments.                              *)
(*                                                                         *)
(* The site, external, does what requests tell it to in the step in which  *)
(* the task learns of the answer, and goes on with what takes time: a      *)
(* state it changes to, a swap, a new process of Kudu.  That process can   *)
(* also end by itself.  Expired tokens of Azure are left to ArmClient.     *)
(***************************************************************************)
EXTENDS WebClient, SequencesExt

CONSTANTS
  Job,                 \* the continuous web jobs of the site
  Extension,           \* the extensions of the input ExtensionsList
  ApplicationInsights, \* the one that continuous monitoring installs
  KuduRetries,         \* retryCount of KuduServiceManagementClient; 5 in the code
  ProcessPolls,        \* retryCount of _pollForNewProcess; 6 in the code
  OperationPolls,      \* polls of a swap before it times out; 30 minutes in the code
  MaxFaults            \* bound on requests that fail and on processes that end

ASSUME ManageAssumption ==
  /\ {KuduRetries, ProcessPolls, OperationPolls} \subseteq Nat \ {0}
  /\ MaxFaults \in Nat
  /\ IsFiniteSet(Job) /\ IsFiniteSet(Extension) /\ ApplicationInsights \in Extension

VARIABLES
  action,          \* the input Action
  phase,           \* "action", "status" for the history, or "ended"
  todo,            \* the requests of this phase, the first one under way
  tries,           \* i of sendRequest
  repeats,         \* timeouts of this request
  polls,           \* earlier rounds of the loop this request is in
  found,           \* siteExtensionMap: the extensions the site had before
  failed,          \* the negation of taskResult
  state,           \* the site: running or stopped
  target,          \* the site: what it is to be
  swaps,           \* the site: the swaps there have been, in order
  running,         \* the site: the web jobs that run
  installed,       \* the site: its extensions
  process,         \* Kudu: "down", the one getProcess has "seen", or another
  loaded,          \* Kudu: the extensions this process has started with
  links,           \* what ties the site to Application Insights
  faults           \* number of faults

taskVars == <<action, phase, todo, tries, repeats, polls, found, failed>>
siteVars == <<state, target, swaps, running, installed, process, loaded, links>>
vars == <<taskVars, siteVars, faults>>

Action ==
  {"start", "stop", "restart", "swap", "startJobs", "stopJobs", "install", "monitoring"}

Link == {"tag", "key", "alwaysOn", "webTest"}

(* Requests, to Azure and to Kudu; "throw" stands for the refusal of a swap *)
(* of a slot with itself.  Each is for a slot, a web job or an extension.  *)
Requests ==
  {"resourceGroup", "start", "stop", "restart", "monitor", "ping", "throw", "swap", "operation",
   "credentials", "listJobs", "startJob", "stopJob", "listInstalled", "listAll", "install",
   "getProcess", "kill", "pollProcess", "app", "insights", "profile", "tag", "settings", "key",
   "alwaysOn", "webTests", "webTest", "history"}

TypeOK ==
  /\ action \in Action /\ phase \in {"action", "status", "ended"}
  /\ todo \in Seq(Requests \X ({"site", "source", "target"} \cup Job \cup Extension))
  /\ (todo = << >> <=> phase = "ended")
  /\ tries \in 0 .. RetryCount - 1 /\ repeats \in 0 .. KuduRetries
  /\ polls \in Nat /\ (polls < ProcessPolls \/ polls < OperationPolls)
  /\ found \subseteq Extension /\ failed \in BOOLEAN
  /\ {state, target} \subseteq {"running", "stopped"}
  /\ swaps \in Seq({"running", "good", "bad"})
  /\ running \subseteq Job /\ installed \subseteq Extension /\ loaded \subseteq installed
  /\ process \in {"down", "seen", "other"} /\ links \subseteq Link
  /\ faults \in 0 .. MaxFaults

------------------------------------------------------------------------------
(* The requests of each phase.                                             *)

Plain(requests) == [i \in DOMAIN requests |-> <<requests[i], "site">>]
OnEach(request, S) == SetToSeq({<<request, of>> : of \in S})
Both(request) == << <<request, "source">>, <<request, "target">> >>

(* enableContinuousMonitoring: a site on Linux has no extensions.          *)
Monitoring ==
  {Plain(<<"app", "insights", "profile">>) \o kudu
     \o Plain(<<"tag", "settings", "key", "alwaysOn", "webTests", "webTest">>) :
     kudu \in {<< >>, << <<"credentials", "site">>, <<"install", ApplicationInsights>> >>}}

(* The two slots must differ; they are pinged at the same time.            *)
Actions(a) ==
  CASE a = "start" -> {Plain(<<"start", "monitor", "ping">>)}
    [] a = "stop" -> {Plain(<<"stop", "monitor">>)}
    [] a = "restart" -> {Plain(<<"restart", "ping">>)}
    [] a = "swap" -> {Plain(<<"throw">>), Both("ping") \o Plain(<<"swap", "operation">>)}
    [] a \in {"startJobs", "stopJobs"} -> {Plain(<<"credentials", "listJobs">>)}
    [] a = "install" -> {Plain(<<"credentials", "listInstalled">>)}
    [] a = "monitoring" -> Monitoring

(* The resource group is looked up unless there is a slot.                 *)
Beginnings(a) ==
  Actions(a) \cup
  IF a = "swap" THEN {} ELSE {Plain(<<"resourceGroup">>) \o steps : steps \in Actions(a)}

(* startContinuousWebJobs, stopContinuousWebJobs                           *)
JobSteps ==
  IF action = "startJobs" THEN OnEach("startJob", Job \ running) ELSE OnEach("stopJob", running)

(* Mutant of Restart: an extension that was there means one restart before.*)
RestartFirst(missing) ==
  IF missing = Extension THEN Plain(<<"getProcess", "kill", "pollProcess">>) ELSE << >>

Restart(missing) ==
  IF missing = {} THEN << >> ELSE Plain(<<"getProcess", "kill", "pollProcess">>)

(* installSiteExtensions                                                   *)
InstallSteps ==
  LET missing == Extension \ installed
  IN Plain(<<"listAll">>) \o OnEach("install", missing) \o Restart(missing)

(* The last part of run, after the request that ends the action.           *)
StatusSteps(request) ==
  CASE action = "swap" /\ request # "throw" -> Both("credentials") \o Both("history")
    [] action = "install" /\ request \notin {"resourceGroup", "credentials"} -> Plain(<<"history">>)
    [] OTHER -> << >>

(* What the task does not look at first is taken not to be there yet.      *)
Init ==
  /\ action \in Action
  /\ phase = "action" /\ todo \in Beginnings(action)
  /\ tries = 0 /\ repeats = 0 /\ polls = 0 /\ found = {} /\ failed = FALSE
  /\ state \in {"running", "stopped"} /\ target = state
  /\ swaps = << >> /\ running \in SUBSET Job
  /\ installed \in SUBSET Extension /\ loaded \in SUBSET installed
  /\ process = "other" /\ links \in SUBSET {"key", "webTest"}
  /\ faults = 0

------------------------------------------------------------------------------
(* The control of the task.                                                *)

Request == todo[1][1]
UnderWay(request) == todo # << >> /\ Request = request

NewRequest == tries' = 0 /\ repeats' = 0 /\ polls' = 0 /\ UNCHANGED action

Leave(success) ==
  LET steps == IF phase = "action" THEN StatusSteps(Request) ELSE << >> IN
  /\ NewRequest
  /\ phase' = (IF steps = << >> THEN "ended" ELSE "status") /\ todo' = steps
  /\ failed' = (failed \/ ~ success)
  /\ UNCHANGED found

Continue(steps) ==
  \/ steps = << >> /\ Leave(TRUE)
  \/ steps # << >> /\ NewRequest /\ todo' = steps /\ UNCHANGED <<phase, found, failed>>

MoveOn == Continue(Tail(todo))

(* An exception fails the task, unless it comes from the last part.        *)
Raise == Leave(phase = "status")

(* Another round of the loop the request is in.                            *)
Again ==
  /\ polls' = polls + 1 /\ tries' = 0 /\ repeats' = 0
  /\ UNCHANGED <<action, phase, todo, found, failed>>

(* Mutant of NextRound: the rounds are not counted.                        *)
NextRoundForEver ==
  /\ tries' = 0 /\ repeats' = 0
  /\ UNCHANGED <<action, phase, todo, polls, found, failed>>

(* The end of a round of _pollForNewProcess that has not seen a new one.   *)
NextRound ==
  \/ polls + 1 < ProcessPolls /\ Again
  \/ polls + 1 = ProcessPolls /\ Raise

------------------------------------------------------------------------------
(* Requests and their answers.                                             *)

ToKudu ==
  {"listJobs", "startJob", "stopJob", "listInstalled", "listAll", "install",
   "getProcess", "kill", "pollProcess", "history"}

(* Mutant of MayRepeat: timeouts are not counted.                          *)
MayRepeatForEver(answer) == answer = "timeout" /\ Request \in ToKudu

(* beginRequest of the Kudu client repeats what has timed out.             *)
MayRepeat(answer) ==
  /\ answer = "timeout" /\ Request \in ToKudu
  /\ repeats < IF Request \in {"kill", "history"} THEN 1 ELSE KuduRetries

(* These have a retryCount of 1, which sendRequest takes for no retry.     *)
MayResend(answer) == Request \notin {"kill", "history", "ping"} /\ MayRetry(tries, answer)

(* What becomes of a request that has failed for good.  A failure to add a *)
(* web test, also one to list those there are, is a warning.               *)
GiveUp ==
  CASE Request \in {"ping", "alwaysOn", "history", "webTest"} -> MoveOn
    [] Request = "webTests" -> Leave(TRUE)
    [] Request = "pollProcess" -> NextRound
    [] OTHER -> Raise

(* A killed process leaves the gateway with 502, one of the busy statuses, *)
(* so killProcess takes that for its success, whatever caused it.          *)
Accepted(answer) ==
  answer = "accepted" \/ (Request = "kill" /\ answer \in {"busy", "blank"})

(* What sendRequest, beginRequest and their caller make of an answer.      *)
Answered(answer) ==
  \/ /\ MayResend(answer) /\ tries' = tries + 1 /\ UNCHANGED repeats
     /\ UNCHANGED <<action, phase, todo, polls, found, failed>>
  \/ /\ MayRepeat(answer) /\ tries' = 0 /\ repeats' = repeats + 1
     /\ UNCHANGED <<action, phase, todo, polls, found, failed>>
  \/ /\ ~ MayResend(answer) /\ ~ MayRepeat(answer)
     /\ \/ Accepted(answer) /\ MoveOn
        \/ answer # "accepted" /\ GiveUp

------------------------------------------------------------------------------
(* The site.                                                               *)

Swapping == swaps # << >> /\ Last(swaps) = "running"

(* What a request does to the site.                                        *)
CarryOut ==
  /\ target' = CASE Request = "start" -> "running"
                 [] Request = "stop" -> "stopped"
                 [] OTHER -> target
  /\ swaps' = IF Request = "swap" /\ ~ Swapping THEN Append(swaps, "running") ELSE swaps
  /\ running' = CASE Request = "startJob" -> running \cup {todo[1][2]}
                  [] Request = "stopJob" -> running \ {todo[1][2]}
                  [] OTHER -> running
  /\ installed' = IF Request = "install" THEN installed \cup {todo[1][2]} ELSE installed
  /\ process' = IF Request = "kill" THEN "down" ELSE process
  /\ links' = links \cup ({Request} \cap Link)
  /\ UNCHANGED <<state, loaded>>

StateSettles ==
  /\ state # target /\ state' = target
  /\ UNCHANGED <<taskVars, target, swaps, running, installed, process, loaded, links, faults>>

SwapEnds ==
  /\ Swapping
  /\ \E result \in {"good", "bad"} : swaps' = [swaps EXCEPT ![Len(swaps)] = result]
  /\ UNCHANGED <<taskVars, state, target, running, installed, process, loaded, links, faults>>

ProcessEnds ==
  /\ process # "down" /\ faults < MaxFaults
  /\ process' = "down" /\ faults' = faults + 1
  /\ UNCHANGED <<taskVars, state, target, swaps, running, installed, loaded, links>>

ProcessStarts ==
  /\ process = "down"
  /\ process' = "other" /\ loaded' = installed
  /\ UNCHANGED <<taskVars, state, target, swaps, running, installed, links, faults>>

------------------------------------------------------------------------------
(* The steps of the task.                                                  *)

Served == todo # << >> /\ (Request \in ToKudu => process # "down")

(* A request fails, whether or not it has been carried out.                *)
RequestFails ==
  /\ todo # << >> /\ Request # "throw"
  /\ faults < MaxFaults /\ faults' = faults + 1
  /\ \E answer \in Fault \cup {"timeout"} :
       /\ Answered(answer)
       /\ \/ UNCHANGED siteVars
          \/ answer \notin {"refused", "void"} /\ Served /\ CarryOut

(* Nothing answers for Kudu between two of its processes.                  *)
KuduIsDown ==
  /\ todo # << >> /\ Request \in ToKudu /\ process = "down"
  /\ Answered("busy")
  /\ UNCHANGED <<siteVars, faults>>

(* Requests that are answered at once, and that the site acts on at most   *)
(* as CarryOut says.                                                       *)
RequestServed ==
  /\ Served
  /\ Request \notin {"monitor", "swap", "operation", "listJobs", "listInstalled", "settings",
                     "webTests", "getProcess", "pollProcess", "throw"}
  /\ CarryOut /\ MoveOn
  /\ UNCHANGED faults

Wanted == IF action = "start" THEN "running" ELSE "stopped"

(* monitorApplicationState, which has no limit; an answer without a state  *)
(* ends it.                                                                *)
Monitored ==
  /\ UnderWay("monitor")
  /\ \/ state = Wanted /\ MoveOn /\ UNCHANGED faults
     \/ /\ state # Wanted
        /\ tries' = 0 /\ repeats' = 0
        /\ UNCHANGED <<action, phase, todo, polls, found, failed, faults>>
     \/ MoveOn /\ faults < MaxFaults /\ faults' = faults + 1
  /\ UNCHANGED siteVars

(* A site refuses a swap during another one, with 409.                     *)
Swapped ==
  /\ UnderWay("swap") /\ UNCHANGED faults
  /\ \/ Swapping /\ Answered("busy") /\ UNCHANGED siteVars
     \/ ~ Swapping /\ Answered("accepted") /\ CarryOut

(* getLongRunningOperationResult                                           *)
OperationPolled ==
  /\ UnderWay("operation")
  /\ CASE Last(swaps) = "good" -> MoveOn
       [] Last(swaps) = "bad" -> Raise
       [] OTHER -> IF polls + 1 < OperationPolls THEN Again ELSE Raise
  /\ UNCHANGED <<siteVars, faults>>

JobsListed ==
  /\ UnderWay("listJobs") /\ Served
  /\ Continue(JobSteps)
  /\ UNCHANGED <<siteVars, faults>>

ExtensionsListed ==
  /\ UnderWay("listInstalled") /\ Served
  /\ NewRequest /\ todo' = InstallSteps /\ found' = installed
  /\ UNCHANGED <<phase, failed, siteVars, faults>>

(* patchApplicationSettings and addWebTest: what is there is left alone.   *)
LinkSought ==
  /\ UnderWay("settings") \/ UnderWay("webTests")
  /\ Continue(IF todo[2][1] \in links THEN Tail(Tail(todo)) ELSE Tail(todo))
  /\ UNCHANGED <<siteVars, faults>>

ProcessRead ==
  /\ UnderWay("getProcess") /\ Served
  /\ process' = "seen" /\ MoveOn
  /\ UNCHANGED <<state, target, swaps, running, installed, loaded, links, faults>>

ProcessPolled ==
  /\ UnderWay("pollProcess") /\ Served
  /\ IF process = "seen" THEN NextRound ELSE MoveOn
  /\ UNCHANGED <<siteVars, faults>>

Throws == UnderWay("throw") /\ Raise /\ UNCHANGED <<siteVars, faults>>

Task ==
  \/ RequestFails \/ KuduIsDown \/ RequestServed \/ Monitored \/ Swapped \/ OperationPolled
  \/ JobsListed \/ ExtensionsListed \/ LinkSought \/ ProcessRead \/ ProcessPolled \/ Throws

Next == Task \/ StateSettles \/ SwapEnds \/ ProcessEnds \/ ProcessStarts

Spec == Init /\ [][Next]_vars

(* Every request is answered or times out, and the site comes to the state *)
(* it is to be in.  A swap may take for ever, and Kudu may stay down.      *)
FairSpec == Spec /\ WF_vars(Task) /\ WF_vars(StateSettles)

------------------------------------------------------------------------------
(* Properties.                                                             *)

(* A task that has not failed has done what it is for: the site is in the  *)
(* state asked for, the jobs run or do not, Kudu runs with the extensions  *)
(* it did not have before, the site reports to Application Insights.  This *)
(* holds although requests are lost, repeated or ignored, but that an      *)
(* answer without a state and the warnings of continuous monitoring are    *)
(* let pass.  Of a swap it says less: the last one ended well, and it is   *)
(* the only one if nothing failed.  What a repeated swap leaves is the     *)
(* matter of SlotsAreSwapped.                                              *)
SuccessIsReal ==
  phase = "ended" /\ ~ failed =>
    /\ action \in {"start", "stop"} => target = Wanted /\ (state = Wanted \/ faults > 0)
    /\ action = "swap" => Last(swaps) = "good" /\ (faults = 0 => swaps = <<"good">>)
    /\ action = "startJobs" => running = Job
    /\ action = "stopJobs" => running = {}
    /\ action = "install" => installed = Extension /\ Extension \ found \subseteq loaded
    /\ action = "monitoring" => {"tag", "key"} \subseteq links /\ (faults = 0 => links = Link)

(* Slots are swapped once, and once more only for a request whose answer   *)
(* was lost.                                                               *)
SwappedOnce == Len(swaps) <= 1 + faults

(* What the task says of its success, "Swapped App Service ... slots"      *)
(* (azure-arm-app-service.ts:132), is so: each slot has what the other one *)
(* had.  A second swap that goes well undoes the first.                    *)
SlotsAreSwapped ==
  phase = "ended" /\ ~ failed /\ action = "swap" =>
    Cardinality({i \in DOMAIN swaps : swaps[i] = "good"}) % 2 = 1

(* The task ends, whatever becomes of a swap or of Kudu.                   *)
EventuallyEnded == <>(phase = "ended")

=============================================================================
