--------------------------- MODULE AzureResourceGroup ---------------------------
(***************************************************************************)
(* The Azure Resource Group Deployment task (AzureResourceGroupDeployment- *)
(* V2): it starts, stops, restarts or deletes every virtual machine of a   *)
(* resource group, deploys a template to the group or selects it and adds  *)
(* the deployment group agent, a VM extension, to its machines, or deletes *)
(* the group.  One call per machine runs concurrently with the others over *)
(* the client of ArmClient, and all of them share one token.               *)
(*                                                                         *)
(* step[c] is the request the program of call c is at.  The resource       *)
(* manager is external: it runs one operation at a time on a machine, and  *)
(* answers a second one with the status 409.                               *)
(***************************************************************************)
EXTENDS ArmClient, FiniteSets

CONSTANTS
  VM,              \* virtual machines
  Main,            \* the call of the task itself
  Actions,         \* values of the input "action"
  Listings,        \* the lists of machines, each a sequence of pages
  Fleets,          \* what the machines and their extensions can be at first
  MaxFaults        \* bound on requests that fail and tokens that expire

VmActions == {"Start", "Stop", "StopWithDeallocate", "Restart", "Delete"}
AgentActions == {"Create Or Update Resource Group", "Select Resource Group"}

ASSUME GroupAssumption ==
  /\ Main \notin VM /\ Call = VM \cup {Main}
  /\ IsFiniteSet(VM)
  /\ Actions \subseteq VmActions \cup AgentActions \cup {"DeleteRG"}
  /\ Listings \subseteq Seq(SUBSET VM) /\ << >> \notin Listings
  /\ Fleets \subseteq [VM -> [power : {"running", "deallocated", "stopped"},
                             ext : {"none", "Succeeded", "Failed"}]]
  /\ MaxFaults \in Nat

VARIABLES
  action,          \* the input
  pages,           \* the list of machines of the group
  page,            \* the page asked for
  step,            \* per call, where its program is
  succeeded,       \* successCount of getCallback
  failed,          \* failureCount
  verdict,         \* what setResult reported
  removed,         \* machines for which DeletionSucceeded was printed
  group,           \* the service: the resource group exists
  power,           \* the service: the state of each machine, or "deleted"
  ext,             \* the service: the state of each extension
  op,              \* the service: the last operation on a machine or the group
  expired,         \* the service: tokens that have expired
  faults,          \* number of requests that have failed and tokens that have expired
  accepted,        \* history: operations of the action accepted per machine
  lost             \* history: answers lost per machine

taskVars == <<action, pages, page, step, succeeded, failed, verdict, removed>>
serverVars == <<group, power, ext, op>>
faultVars == <<expired, faults>>
historyVars == <<accepted, lost>>
vars == <<clientVars, taskVars, serverVars, faultVars, historyVars>>

Machines == UNION {pages[i] : i \in DOMAIN pages}

(* Where a program can be: waiting for its next request, or at its end.    *)
MainSteps == {"exists", "createGroup", "deploy", "deployment", "list", "deleteGroup"}
VmSteps == {"operate", "unregister", "deleteVm", "view", "start", "review",
            "extension", "clean", "add", "undo"}
Ends == {"ok", "failed", "silent"}

(* The steps that start an operation and poll it.                          *)
LongRunning == {"operate", "unregister", "deleteVm", "start", "clean", "add", "undo",
                "deploy", "deleteGroup"}
ExtensionDeletion == {"unregister", "clean", "undo"}

Operation == [kind : LongRunning \cup VmActions \cup {"none"},
              status : {"none", "InProgress", "Succeeded", "Failed"}]

TypeOK ==
  /\ ClientTypeOK
  /\ action \in Actions /\ pages \in Listings /\ page \in 1 .. Len(pages)
  /\ step \in [Call -> MainSteps \cup VmSteps \cup Ends \cup {"idle", "waiting", "end"}]
  /\ succeeded \in Nat /\ failed \in Nat
  /\ verdict \in {"none", "Succeeded", "Failed"}
  /\ removed \subseteq VM
  /\ group \in BOOLEAN
  /\ power \in [VM -> {"running", "deallocated", "stopped", "deleted"}]
  /\ ext \in [VM -> {"none", "Succeeded", "Failed"}]
  /\ op \in [Call -> Operation]
  /\ expired \subseteq 1 .. Len(promise) /\ faults \in 0 .. MaxFaults
  /\ accepted \in [VM -> Nat] /\ lost \in [VM -> Nat]

FirstStep(a) == IF a = "Create Or Update Resource Group" THEN "exists" ELSE "list"

(* The task reads its list when nothing has been asked yet: run() and the  *)
(* first callback of each operation are its initial step.                  *)
Init ==
  /\ scheme \in Schemes
  /\ promise = <<NewPromise>> /\ token = 1
  /\ call = [c \in Call |->
       IF c = Main THEN [Idle EXCEPT !.pc = "token", !.held = 1] ELSE Idle]
  /\ action \in Actions
  /\ pages \in Listings /\ page = 1
  /\ step = [c \in Call |-> IF c = Main THEN FirstStep(action) ELSE "idle"]
  /\ succeeded = 0 /\ failed = 0 /\ verdict = "none" /\ removed = {}
  /\ group \in (IF action = "Create Or Update Resource Group" THEN BOOLEAN ELSE {TRUE})
  /\ \E fleet \in Fleets :
       /\ power = [v \in VM |-> fleet[v].power]
       /\ ext = [v \in VM |-> fleet[v].ext]
  /\ op = [c \in Call |-> [kind |-> "none", status |-> "none"]]
  /\ expired = {} /\ faults = 0
  /\ accepted = [v \in VM |-> 0] /\ lost = [v \in VM |-> 0]

------------------------------------------------------------------------------
(* The service.                                                            *)

InProgress(c) == op[c].status = "InProgress"

(* The power state in the instance view: a machine that is being started,  *)
(* stopped or deleted is in none of the states the task looks for.         *)
PowerState(v) ==
  IF InProgress(v) /\ op[v].kind \in VmActions \cup {"deleteVm"} THEN "transitioning" ELSE power[v]

(* What a read answers.  The end of a failed operation is a status in the  *)
(* body of a good answer, except for a group, which is polled at the       *)
(* address of its own answer.                                              *)
Reading(c) ==
  CASE call[c].polling ->
         IF step[c] = "deleteGroup" /\ op[c].status = "Failed" THEN "refused" ELSE op[c].status
    [] step[c] = "exists" -> IF group THEN "present" ELSE "absent"
    [] step[c] = "deployment" -> op[c].status
    [] step[c] = "list" -> "ok"
    [] step[c] \in {"view", "review"} -> PowerState(c)
    [] step[c] = "extension" -> IF ext[c] = "none" THEN "refused" ELSE ext[c]

(* One more of the troubles that are bounded.                              *)
Fails ==
  /\ faults < MaxFaults
  /\ faults' = faults + 1

(* What there is to delete or to operate on.                               *)
Target(c) ==
  CASE c = Main -> IF group \/ step[c] = "deploy" THEN "present" ELSE "absent"
    [] power[c] = "deleted" -> "absent"
    [] step[c] \in ExtensionDeletion -> IF ext[c] = "none" THEN "absent" ELSE "present"
    [] OTHER -> "present"

Kind(c) ==
  CASE step[c] = "operate" -> action
    [] step[c] = "start" -> "Start"
    [] step[c] \in ExtensionDeletion -> "unregister"
    [] OTHER -> step[c]

(* An operation the service accepts.                                       *)
Accept(c) ==
  /\ op' = [op EXCEPT ![c] = [kind |-> Kind(c), status |-> "InProgress"]]
  /\ accepted' = IF step[c] \in {"operate", "deleteVm"}
                 THEN [accepted EXCEPT ![c] = @ + 1] ELSE accepted
  /\ UNCHANGED <<group, power, ext>>

(* The service acts on the request of c and answers.                       *)
Serve(c, answer) ==
  \/ /\ call[c].polling \/ step[c] \notin LongRunning \cup {"createGroup"}
     /\ answer = Reading(c)
     /\ UNCHANGED <<serverVars, accepted>>
  \/ /\ step[c] = "createGroup"
     /\ answer = "ok"
     /\ group' = TRUE /\ UNCHANGED <<power, ext, op, accepted>>
  \/ /\ ~ call[c].polling /\ step[c] \in LongRunning
     /\ \/ InProgress(c) /\ answer = "busy" /\ UNCHANGED <<serverVars, accepted>>
        \/ ~ InProgress(c) /\ Target(c) = "present" /\ answer = "accepted" /\ Accept(c)
        \/ ~ InProgress(c) /\ Target(c) = "absent" /\ answer = "gone"
           /\ UNCHANGED <<serverVars, accepted>>

(* An operation comes to its end.                                          *)
Effect(c, kind) ==
  /\ power' = IF kind = "deleteGroup" THEN [v \in VM |-> "deleted"]
              ELSE IF c = Main \/ power[c] = "deleted" THEN power
              ELSE CASE kind \in {"Start", "Restart"} -> [power EXCEPT ![c] = "running"]
                     [] kind = "Stop" -> [power EXCEPT ![c] = "stopped"]
                     [] kind = "StopWithDeallocate" -> [power EXCEPT ![c] = "deallocated"]
                     [] kind = "deleteVm" -> [power EXCEPT ![c] = "deleted"]
                     [] OTHER -> power
  /\ ext' = IF kind = "deleteGroup" THEN [v \in VM |-> "none"]
            ELSE IF c = Main \/ power[c] = "deleted" THEN ext
            ELSE CASE kind \in {"deleteVm", "unregister"} -> [ext EXCEPT ![c] = "none"]
                   [] kind = "add" -> [ext EXCEPT ![c] = "Succeeded"]
                   [] OTHER -> ext
  /\ group' = (group /\ kind # "deleteGroup")

OperationEnds(c) ==
  /\ InProgress(c)
  /\ \/ /\ op' = [op EXCEPT ![c].status = "Succeeded"]
        /\ Effect(c, op[c].kind)
     \/ /\ op' = [op EXCEPT ![c].status = "Failed"]
        /\ ext' = IF op[c].kind = "add" /\ power[c] # "deleted"
                  THEN [ext EXCEPT ![c] = "Failed"] ELSE ext
        /\ UNCHANGED <<group, power>>
  /\ UNCHANGED <<clientVars, taskVars, faultVars, historyVars>>

Expire(n) ==
  /\ promise[n].state = "good" /\ n \notin expired
  /\ Fails
  /\ expired' = expired \cup {n}
  /\ UNCHANGED <<clientVars, taskVars, serverVars, historyVars>>

------------------------------------------------------------------------------
(* Answers.                                                                *)

TokenStep(n) ==
  /\ \/ TokenGranted(n) /\ UNCHANGED faults
     \/ \E answer \in TokenFault : TokenDenied(n, answer) /\ Fails
  /\ UNCHANGED <<taskVars, serverVars, expired, historyVars>>

(* The service answers, or says that the token has expired; the request    *)
(* fails, or it is served and only its answer is lost.                     *)
Answer(c) ==
  /\ call[c].pc = "sent"
  /\ \/ /\ call[c].held \notin expired
        /\ \E answer \in Reply : Serve(c, answer) /\ Receive(c, answer)
        /\ UNCHANGED <<faultVars, lost>>
     \/ /\ call[c].held \in expired
        /\ Receive(c, "expired")
        /\ UNCHANGED <<serverVars, faultVars, historyVars>>
     \/ /\ Fails
        /\ \E answer \in Fault : Receive(c, answer)
        /\ UNCHANGED <<serverVars, expired, historyVars>>
     \/ /\ Fails
        /\ call[c].held \notin expired
        /\ step[c] \in LongRunning /\ ~ call[c].polling
        /\ Serve(c, "accepted") /\ Receive(c, "reset")
        /\ lost' = IF c = Main THEN lost ELSE [lost EXCEPT ![c] = @ + 1]
        /\ UNCHANGED expired
  /\ UNCHANGED taskVars

------------------------------------------------------------------------------
(* How an operation of the client ends for its caller.                     *)

Done(c, s) == call[c].pc = "done" /\ step[c] = s

(* A deletion of an extension or of the group looks at the status code of  *)
(* the last poll, which is 200 for an operation that has failed as well.   *)
ByStatusCode == ExtensionDeletion \cup {"deleteGroup"}

Good(c, s) ==
  /\ Done(c, s) /\ call[c].polling
  /\ \/ call[c].answer = "Succeeded"
     \/ s \in ByStatusCode /\ call[c].answer = "Failed"

(* The others read body.status of the last poll.  Without a body this      *)
(* throws in a handler whose promise nobody has: no callback comes.        *)
Silent(c, s) ==
  /\ Done(c, s) /\ call[c].polling
  /\ s \notin ByStatusCode /\ call[c].answer \in {"blank", "void"}

Bad(c, s) == Done(c, s) /\ ~ Good(c, s) /\ ~ Silent(c, s)

(* The program of c goes on with the request of another step.              *)
Go(c, s) ==
  /\ BeginRequest(c, FALSE)
  /\ step' = [step EXCEPT ![c] = s]

(* It has ended.                                                           *)
Return(c, s) ==
  /\ step' = [step EXCEPT ![c] = s]
  /\ call' = [call EXCEPT ![c] = Idle]
  /\ UNCHANGED <<scheme, promise, token>>

unseen == <<action, pages, serverVars, faultVars, historyVars>>
counts == <<succeeded, failed>>

(* deleteExtensionFromSingleVM, whose promise is settled by the deletion.  *)
Removal(v, s) ==
  removed' = IF Good(v, s) THEN removed \cup {v} ELSE removed

------------------------------------------------------------------------------
(* The actions on machines (VirtualMachine.ts).                            *)

(* Mutants of Called: any success is enough, the first failure rejects.    *)
CalledSome(v, ok) ==
  /\ succeeded' = IF ok THEN succeeded + 1 ELSE succeeded
  /\ failed' = IF ok THEN failed ELSE failed + 1
  /\ verdict' = IF succeeded' + failed' = Cardinality(Machines)
                THEN (IF succeeded' = 0 THEN "Failed" ELSE "Succeeded") ELSE verdict
CalledAtOnce(v, ok) ==
  /\ succeeded' = IF ok THEN succeeded + 1 ELSE succeeded
  /\ failed' = IF ok THEN failed ELSE failed + 1
  /\ verdict' = IF failed' > 0 THEN "Failed"
                ELSE IF succeeded' = Cardinality(Machines) THEN "Succeeded" ELSE verdict

(* getCallback: the last callback settles the promise.                     *)
Called(v, ok) ==
  /\ succeeded' = IF ok THEN succeeded + 1 ELSE succeeded
  /\ failed' = IF ok THEN failed ELSE failed + 1
  /\ verdict' = IF succeeded' + failed' = Cardinality(Machines)
                THEN (IF failed' > 0 THEN "Failed" ELSE "Succeeded") ELSE verdict

(* Mutant of Unregistered: nobody handles the error of the deletion.       *)
UnregisteredOnly(v) ==
  /\ action = "Delete"
  /\ \/ Good(v, "unregister") /\ Go(v, "deleteVm")
     \/ Bad(v, "unregister") /\ Return(v, "failed")
  /\ Removal(v, "unregister")
  /\ UNCHANGED <<unseen, page, succeeded, failed, verdict>>

(* A machine is deleted whether or not its extension could be.             *)
Unregistered(v) ==
  /\ action = "Delete"
  /\ Good(v, "unregister") \/ Bad(v, "unregister")
  /\ Go(v, "deleteVm") /\ Removal(v, "unregister")
  /\ UNCHANGED <<unseen, page, succeeded, failed, verdict>>

(* The callback of an operation on a machine, its last for this task.      *)
Operated(v, s) ==
  /\ \/ Good(v, s) /\ Return(v, "ok") /\ Called(v, TRUE)
     \/ Bad(v, s) /\ Return(v, "failed") /\ Called(v, FALSE)
  /\ UNCHANGED <<unseen, page, removed>>

Started(v) == action = "Start" /\ Operated(v, "operate")
PoweredOff(v) == action = "Stop" /\ Operated(v, "operate")
Deallocated(v) == action = "StopWithDeallocate" /\ Operated(v, "operate")
Restarted(v) == action = "Restart" /\ Operated(v, "operate")
Deleted(v) == Operated(v, "deleteVm")

------------------------------------------------------------------------------
(* The agent extension (DeploymentGroupExtensionHelper.ts).                *)

quiet == <<unseen, page, succeeded, failed, verdict>>

(* addExtensionOnSingleVM                                                  *)
Viewed(v) ==
  /\ Done(v, "view")
  /\ CASE call[v].answer = "running" -> Go(v, "extension")
       [] call[v].answer = "deallocated" -> Go(v, "start")
       [] OTHER -> Return(v, "failed")
  /\ UNCHANGED <<quiet, removed>>

(* startVirtualMachine: after an error the machine may run nevertheless.   *)
StartEnded(v) ==
  /\ \/ Good(v, "start") /\ Go(v, "extension")
     \/ Bad(v, "start") /\ Go(v, "review")
  /\ UNCHANGED <<quiet, removed>>

Reviewed(v) ==
  /\ Done(v, "review")
  /\ IF call[v].answer = "running" THEN Go(v, "extension") ELSE Return(v, "failed")
  /\ UNCHANGED <<quiet, removed>>

(* addExtensionOnRunningVm: an extension that has failed is deleted first, *)
(* and one that cannot be added afterwards; neither deletion need succeed. *)
ExtensionRead(v) ==
  /\ Done(v, "extension")
  /\ Go(v, IF call[v].answer = "Failed" THEN "clean" ELSE "add")
  /\ UNCHANGED <<quiet, removed>>

Cleaned(v) ==
  /\ Good(v, "clean") \/ Bad(v, "clean")
  /\ Go(v, "add") /\ Removal(v, "clean")
  /\ UNCHANGED quiet

Added(v) ==
  /\ \/ Good(v, "add") /\ Return(v, "ok")
     \/ Bad(v, "add") /\ Go(v, "undo")
  /\ UNCHANGED <<quiet, removed>>

Undone(v) ==
  /\ Good(v, "undo") \/ Bad(v, "undo")
  /\ Return(v, "failed") /\ Removal(v, "undo")
  /\ UNCHANGED quiet

(* deleteExtensionFromResourceGroup                                        *)
Withdrawn(v) ==
  /\ action = "DeleteRG"
  /\ \/ Good(v, "unregister") /\ Return(v, "ok")
     \/ Bad(v, "unregister") /\ Return(v, "failed")
  /\ Removal(v, "unregister")
  /\ UNCHANGED quiet

(* No callback comes: the program of the machine stops here.               *)
Vanished(c) ==
  /\ \E s \in LongRunning \ {"deploy"} : Silent(c, s)
  /\ Return(c, "silent")
  /\ UNCHANGED <<quiet, removed>>

------------------------------------------------------------------------------
(* The task (main.ts, ResourceGroup.ts).                                   *)

(* run() ends.  Other calls may still be under way; they go on, because    *)
(* setResult does not end the process.                                     *)
Finish(result) ==
  /\ verdict' = result
  /\ Return(Main, "end")

FirstVmStep ==
  CASE action \in VmActions \ {"Delete"} -> "operate"
    [] action \in AgentActions -> "view"
    [] OTHER -> "unregister"

(* createResourceGroupIfRequired                                           *)
GroupChecked ==
  /\ Done(Main, "exists")
  /\ CASE call[Main].answer = "present" -> Go(Main, "deploy") /\ UNCHANGED verdict
       [] call[Main].answer = "absent" -> Go(Main, "createGroup") /\ UNCHANGED verdict
       [] OTHER -> Finish("Failed")
  /\ UNCHANGED <<unseen, page, counts, removed>>

GroupCreated ==
  /\ Done(Main, "createGroup")
  /\ IF call[Main].answer = "ok" THEN Go(Main, "deploy") /\ UNCHANGED verdict ELSE Finish("Failed")
  /\ UNCHANGED <<unseen, page, counts, removed>>

(* Deployments.createOrUpdate: unless the polling throws, it does not      *)
(* matter how it ended; the deployment is read.                            *)
Deployed ==
  /\ Done(Main, "deploy")
  /\ IF call[Main].polling /\ call[Main].answer # "thrown"
     THEN Go(Main, "deployment") /\ UNCHANGED verdict ELSE Finish("Failed")
  /\ UNCHANGED <<unseen, page, counts, removed>>

(* Mutant of DeploymentRead: its error is not looked at.                   *)
DeploymentSeen ==
  /\ Done(Main, "deployment")
  /\ IF call[Main].answer \in {"Succeeded", "InProgress", "Failed"}
     THEN Go(Main, "list") /\ UNCHANGED verdict ELSE Finish("Failed")
  /\ UNCHANGED <<unseen, page, counts, removed>>

(* Its error, which only a failed one has, is the error of the operation.  *)
DeploymentRead ==
  /\ Done(Main, "deployment")
  /\ IF call[Main].answer \in {"Succeeded", "InProgress"}
     THEN Go(Main, "list") /\ UNCHANGED verdict ELSE Finish("Failed")
  /\ UNCHANGED <<unseen, page, counts, removed>>

(* VirtualMachines.list and accumulateResultFromPagedResult; after the     *)
(* last page the programs of the machines begin, all in one callback.      *)
Listed ==
  /\ Done(Main, "list")
  /\ CASE call[Main].answer # "ok" ->
            /\ IF action = "DeleteRG" THEN Go(Main, "deleteGroup") /\ UNCHANGED verdict
               ELSE Finish("Failed")
            /\ UNCHANGED page
       [] call[Main].answer = "ok" /\ page < Len(pages) ->
            page' = page + 1 /\ Go(Main, "list") /\ UNCHANGED verdict
       [] call[Main].answer = "ok" /\ page = Len(pages) /\ Machines # {} ->
            /\ step' = [c \in Call |-> IF c \in Machines THEN FirstVmStep
                                       ELSE IF c = Main THEN "waiting" ELSE step[c]]
            /\ Fork(Main, Machines)
            /\ UNCHANGED <<page, verdict>>
       [] call[Main].answer = "ok" /\ page = Len(pages) /\ Machines = {} ->
            /\ IF action = "DeleteRG" THEN Go(Main, "deleteGroup") /\ UNCHANGED verdict
               ELSE Finish("Succeeded")
            /\ UNCHANGED page
  /\ UNCHANGED <<unseen, counts, removed>>

(* Promise.all settles when all have succeeded or one has failed; a group  *)
(* is deleted in both cases.                                               *)
Settled ==
  /\ step[Main] = "waiting" /\ action \notin VmActions
  /\ (\E v \in Machines : step[v] = "failed") \/ (\A v \in Machines : step[v] = "ok")

Joined ==
  /\ Settled
  /\ CASE action = "DeleteRG" -> Go(Main, "deleteGroup") /\ UNCHANGED verdict
       [] action # "DeleteRG" /\ (\E v \in Machines : step[v] = "failed") -> Finish("Failed")
       [] OTHER -> Finish("Succeeded")
  /\ UNCHANGED <<unseen, page, counts, removed>>

GroupDeleted ==
  /\ \/ Good(Main, "deleteGroup") /\ Finish("Succeeded")
     \/ Bad(Main, "deleteGroup") /\ Finish("Failed")
  /\ UNCHANGED <<unseen, page, counts, removed>>

------------------------------------------------------------------------------
VmProgram(v) ==
  \/ Started(v) \/ PoweredOff(v) \/ Deallocated(v) \/ Restarted(v) \/ Unregistered(v) \/ Deleted(v)
  \/ Viewed(v) \/ StartEnded(v) \/ Reviewed(v) \/ ExtensionRead(v)
  \/ Cleaned(v) \/ Added(v) \/ Undone(v) \/ Withdrawn(v) \/ Vanished(v)

MainProgram ==
  \/ GroupChecked \/ GroupCreated \/ Deployed \/ DeploymentRead \/ Listed \/ Joined \/ GroupDeleted

Callback == MainProgram \/ \E v \in VM : VmProgram(v)

(* The event loop: the callbacks of one answer run before the next event.  *)
Quiet == ~ Settled /\ \A c \in Call : call[c].pc # "done"

Next ==
  \/ Callback
  \/ \E n \in DOMAIN promise : Quiet /\ (TokenStep(n) \/ Expire(n))
  \/ \E c \in Call : Quiet /\ (Answer(c) \/ OperationEnds(c))

Spec == Init /\ [][Next]_vars

(* Answers come, callbacks run, and the operations of the service end.     *)
Fairness ==
  /\ WF_vars(Callback)
  /\ WF_vars(\E n \in DOMAIN promise : Quiet /\ TokenStep(n))
  /\ WF_vars(\E c \in Call : Quiet /\ OperationEnds(c))
  /\ \A c \in Call : WF_vars(Quiet /\ Answer(c))

FairSpec == Spec /\ Fairness

------------------------------------------------------------------------------
(* Properties.                                                             *)

(* What the action is to bring about on a machine.                         *)
Goal(v) ==
  CASE action = "Start" -> power[v] = "running"
    [] action = "Restart" -> power[v] = "running" /\ op[v].kind = "Restart"
    [] action = "Stop" -> power[v] = "stopped"
    [] action = "StopWithDeallocate" -> power[v] = "deallocated"
    [] action \in {"Delete", "DeleteRG"} -> power[v] = "deleted"
    [] action \in AgentActions -> ext[v] = "Succeeded"

(* "Operation: '%s' succeeded on all the virtual machines": after a result *)
(* Succeeded every machine of the group, from whatever page of the list,   *)
(* is as the action wants it, and stays so: no operation whose answer was  *)
(* lost is left to undo it.                                                *)
SuccessIsReal == verdict = "Succeeded" => \A v \in Machines : Goal(v)

(* getCallback gives the result of an action on machines when every        *)
(* machine has called back, so no operation of the task is under way then, *)
(* unless an error hid that the service had accepted it.                   *)
VerdictIsComplete ==
  verdict # "none" /\ action \in VmActions =>
    /\ \A v \in VM : call[v].pc = "idle"
    /\ \A v \in VM : InProgress(v) => step[v] = "failed"

(* One expired token is never the end of a request: with the machines'     *)
(* calls refreshing the shared token in any order, a request fails as      *)
(* expired only if two tokens have expired.                                *)
ExpiryIsSurvived ==
  \A c \in Call : call[c].answer = "expired" => Cardinality(expired) >= 2

(* Retries are for requests the service has not answered: an operation is  *)
(* started on a machine once more at most for each answer that was lost.   *)
RepeatsAreLost == \A v \in VM : accepted[v] <= 1 + lost[v]

(* After createTemplateDeployment the task goes on only with a deployment  *)
(* that has succeeded.  A poll that fails breaks this: the deployment is   *)
(* then read while it runs, and having no error yet counts as a success.   *)
DeploymentIsOver ==
  action = "Create Or Update Resource Group" /\ step[Main] \in {"list", "waiting"} /\ faults = 0
    => op[Main].status = "Succeeded"

(* "Deletion of extension on vm %s succeeded": a deletion reported as one  *)
(* has left no extension.  The client looks at the wrong status, so that   *)
(* this does not hold.                                                     *)
DeletedIsGone ==
  [][\A v \in VM : v \in removed' \ removed => ext[v] = "none"]_vars

(* The task ends with a result, unless the end of an operation is an       *)
(* answer without a body.                                                  *)
EventuallyVerdict ==
  [](\A c \in Call : step[c] # "silent") => <>(verdict # "none")
=============================================================================
