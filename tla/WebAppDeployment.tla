---------------------------- MODULE WebAppDeployment ----------------------------
(***************************************************************************)
(* AzureRmWebAppDeploymentV4 with all its providers: zip deployment, WAR   *)
(* deployment, run-from-package and built-in Linux, which post a package   *)
(* to Kudu; the extraction of a package by Kudu; web deployment, alone or  *)
(* by a publish profile; and containers.  The task is one chain of         *)
(* requests to Azure and to the Kudu service of the site: it prepares      *)
(* settings, takes the site offline if asked to, posts the package,        *)
(* follows the deployment, runs a script on the site, cleans up and        *)
(* reports a status.  Each request may be sent several times, by           *)
(* sendRequest and, after a timeout, by KuduServiceManagementClient.       *)
(*                                                                         *)
(* Kudu is external: it runs one deployment at a time, extractions aside,  *)
(* and goes on with deployments and scripts whose requests the task has    *)
(* given up.  msdeploy is a command that the task waits for.  As in        *)
(* ArmClient, Kudu acts on a request in the step in which the task learns  *)
(* of the answer; for what outlives a request that is the step in which it *)
(* starts.  Expired tokens of Azure are left to ArmClient.                 *)
(***************************************************************************)
EXTENDS WebClient, SequencesExt

CONSTANTS
  KuduRetries,     \* retryCount of KuduServiceManagementClient; 5 in the code
  MonitorPolls,    \* noOftimesToIterate; 12 in the code
  FilePolls,       \* noOfRetry of _pollForFile; 180 in the code
  DeployRetries,   \* retryCount of msdeploy; 3 in the code
  MaxFaults        \* bound on requests that fail

ASSUME WebAppAssumption ==
  /\ {KuduRetries, MonitorPolls, FilePolls, DeployRetries} \subseteq Nat \ {0}
  /\ MaxFaults \in Nat

VARIABLES
  opts,            \* the provider and the inputs TakeAppOfflineFlag and ScriptType
  phase,           \* where the task is, by the try block it is in
  todo,            \* the requests of this phase, the first one under way
  tries,           \* i of sendRequest
  repeats,         \* timeouts of this request
  polls,           \* earlier rounds of the loop this request is in
  own,             \* what the request under way has started and waits for, or 0
  thrown,          \* an exception waits for the end of a finally block
  failed,          \* setResult(Failed) has been called
  offline,         \* the site: app_offline.htm is there
  deployments,     \* the site: its deployments, in order
  scripts,         \* the site: the runs of the script, in order
  output,          \* the site: what the files of the script tell, or "none"
  faults           \* number of requests that have failed

taskVars == <<opts, phase, todo, tries, repeats, polls, own, thrown, failed>>
siteVars == <<offline, deployments, scripts, output>>
vars == <<taskVars, siteVars, faults>>

Posting == {"zip", "war", "runFromZip", "linux"}
Provider == Posting \cup {"extract", "webDeploy", "profile", "container"}

(* A built-in Linux site is never taken offline, and a publish profile     *)
(* comes with no script.                                                   *)
Options ==
  {o \in [provider : Provider, offline : BOOLEAN, script : BOOLEAN] :
     /\ o.provider \in {"linux", "profile"} => ~ o.offline
     /\ o.provider = "profile" => ~ o.script}

(* A script can fail without a word on stderr.                             *)
Outcome == {"good", "silent", "loud"}

(* Every request of the task, and the exceptions that stand among them.    *)
Requests ==
  {"resourceGroup", "credentials", "ping", "settings", "putSettings", "publishing", "monitor",
   "warmup", "configuration", "patch", "listDir", "createPath", "offline", "online", "post",
   "poll", "details", "extract", "image", "url", "msdeploy", "throw", "upload", "command",
   "pollFile", "logs", "uploadDelete", "deleteLogs", "deleteFolder", "scm", "annotation",
   "history", "manifest"}

TypeOK ==
  /\ opts \in Options
  /\ phase \in {"pre", "deploy", "script", "cleanup", "finish", "status", "ended"}
  /\ todo \in Seq(Requests) /\ (todo = << >> <=> phase = "ended")
  /\ tries \in 0 .. RetryCount - 1 /\ repeats \in 0 .. KuduRetries
  /\ polls \in Nat /\ (polls < FilePolls \/ polls < MonitorPolls)
  /\ own \in 0 .. Len(deployments) \cup 0 .. Len(scripts)
  /\ thrown \in BOOLEAN /\ failed \in BOOLEAN
  /\ offline \in BOOLEAN /\ deployments \in Seq({"running", "good", "bad"})
  /\ scripts \in Seq({"running"} \cup Outcome) /\ output \in {"none"} \cup Outcome
  /\ faults \in 0 .. MaxFaults

(* The resource group need not be looked up if the user has named it.      *)
PreDeploymentSteps(provider) ==
  IF provider = "profile"
  THEN {<<"ping">>}
  ELSE {<<"resourceGroup", "credentials">>, <<"credentials">>}

Init ==
  /\ opts \in Options
  /\ phase = "pre" /\ todo \in PreDeploymentSteps(opts.provider)
  /\ tries = 0 /\ repeats = 0 /\ polls = 0 /\ own = 0
  /\ thrown = FALSE /\ failed = FALSE
  /\ offline = FALSE /\ deployments = << >> /\ scripts = << >> /\ output = "none"
  /\ faults = 0

------------------------------------------------------------------------------
(* The requests of each phase.  Where the code looks at data first, all    *)
(* the ways it can go on are in the set.                                   *)

(* updateAndMonitorAppSettings, if a value is new.                         *)
Update == <<"putSettings", "publishing", "monitor">>

(* updateAndMonitorAppSettings; settings that were read once are kept.     *)
Settings(read) == IF read THEN {<< >>, Update} ELSE {<<"settings">>, <<"settings">> \o Update}

(* The physical path of a virtual application, which may not exist.        *)
Located ==
  {<< >>, <<"configuration", "throw">>,
   <<"configuration", "listDir">>, <<"configuration", "listDir", "createPath">>}

(* What precedes the package; a Linux site has settings to update only if  *)
(* it is a function app, and web deployment needs an agent on Windows.     *)
Preparations ==
  LET updating == {<<"settings", "warmup">>, <<"settings">> \o Update}
      locating == {l \o s : l \in Located, s \in Settings(FALSE)}
  IN
  CASE opts.provider \in {"zip", "runFromZip"} -> updating
    [] opts.provider = "war" -> {<<"warmup">>}
    [] opts.provider = "linux" -> {<<"warmup">>} \cup updating
    [] opts.provider = "extract" -> locating
    [] opts.provider = "webDeploy" -> locating \cup {<<"settings", "throw">>}
    [] opts.provider = "profile" -> {<< >>, <<"throw">>}
    [] opts.provider = "container" -> {<< >>} \cup Settings(FALSE)

Sheltered(request) == IF opts.offline THEN <<request>> ELSE << >>

(* publishUsingWebDeploy: the attempts that are left, and an exception     *)
(* after the last one.                                                     *)
Attempts == [i \in 1 .. DeployRetries |-> "msdeploy"] \o <<"throw">>

Sync ==
  CASE opts.provider = "zip" -> Sheltered("offline") \o <<"post", "poll", "details">> \o Sheltered("online")
    [] opts.provider \in {"war", "linux"} -> <<"post", "poll", "details">>
    [] opts.provider = "runFromZip" -> <<"post">>
    [] opts.provider = "extract" -> Sheltered("offline") \o <<"extract">> \o Sheltered("online")
    [] opts.provider = "webDeploy" -> <<"url">> \o Attempts
    [] opts.provider = "profile" -> Attempts
    [] opts.provider = "container" -> <<"image">>

(* updateStartupCommandAndRuntimeStack                                     *)
Startups ==
  IF opts.provider = "linux"
  THEN {<<"configuration">>, <<"configuration", "patch">>}
  ELSE {<< >>}

(* The inputs AppSettings and ConfigurationSettings.  A container always   *)
(* has settings, those of its registry, and its configuration came with    *)
(* the image.                                                              *)
Configurations(read) ==
  CASE opts.provider = "profile" -> {<< >>}
    [] opts.provider = "container" -> Settings(read)
    [] OTHER -> {s \o c : s \in {<< >>} \cup Settings(read), c \in {<< >>, <<"patch">>}}

Deploying ==
  UNION {{p \o Sync \o s \o c : s \in Startups, c \in Configurations(Contains(p, "settings"))} :
           p \in Preparations}

(* updateScmTypeAndConfigurationDetails, like the annotation and the       *)
(* manifest below, is several requests in a try block that does nothing    *)
(* else; one stands for them.                                              *)
Steps(p) ==
  CASE p = "deploy" -> Deploying
    [] p = "script" -> {Sheltered("offline") \o <<"upload", "upload", "command", "logs">>}
    [] p = "cleanup" -> {<<"uploadDelete", "deleteLogs", "deleteFolder">> \o Sheltered("online")}
    [] p = "finish" -> {<<"scm">>}

(* The publish profile is read once; only web deployment does so before    *)
(* the end.                                                                *)
ProfileUnread == opts.provider # "webDeploy" \/ phase = "pre" \/ Contains(todo, "url")

(* UpdateDeploymentStatus after the request at which the task has left its *)
(* try block: what it can do depends on how far PreDeploymentStep came.    *)
StatusSteps(request, success) ==
  LET url == IF ProfileUnread THEN <<"url">> ELSE << >> IN
  CASE opts.provider = "profile" \/ request = "resourceGroup" -> << >>
    [] request = "credentials" ->
         CASE opts.provider = "runFromZip" -> <<"annotation", "url">>
           [] opts.provider \in Posting \ {"runFromZip"} -> << >>
           [] OTHER -> <<"url">>
    [] OTHER ->
         IF opts.provider = "runFromZip" /\ ~ opts.script
         THEN <<"annotation", "url">>
         ELSE <<"annotation", "history">> \o url
              \o IF success /\ opts.provider \in Posting \ {"runFromZip"} THEN <<"manifest">> ELSE << >>

------------------------------------------------------------------------------
(* The control of the task.                                                *)

NewRequest == tries' = 0 /\ repeats' = 0 /\ polls' = 0 /\ own' = 0 /\ UNCHANGED opts

Begin(p) == phase' = p /\ todo' \in Steps(p) /\ UNCHANGED failed

Report(success) ==
  LET steps == StatusSteps(todo[1], success) IN
  /\ phase' = (IF steps = << >> THEN "ended" ELSE "status") /\ todo' = steps
  /\ failed' = ~ success

End == phase' = "ended" /\ todo' = << >> /\ UNCHANGED failed

(* What comes after the last request of a phase.                           *)
Leave ==
  \/ phase = "pre" /\ Begin("deploy")
  \/ phase = "deploy" /\ opts.script /\ Begin("script")
  \/ phase = "deploy" /\ ~ opts.script /\ opts.provider # "profile" /\ Begin("finish")
  \/ phase = "deploy" /\ opts.provider = "profile" /\ Report(TRUE)
  \/ phase = "script" /\ Begin("cleanup")
  \/ phase = "cleanup" /\ thrown /\ Report(FALSE)
  \/ phase = "cleanup" /\ ~ thrown /\ Begin("finish")
  \/ phase = "finish" /\ Report(TRUE)
  \/ phase = "status" /\ End

Continue(steps) ==
  /\ NewRequest
  /\ IF steps = << >> THEN Leave ELSE todo' = steps /\ UNCHANGED <<phase, failed>>
  /\ UNCHANGED thrown

MoveOn == Continue(Tail(todo))

(* Mutant of Raise: a finally block puts the site online again.            *)
RaiseOnline ==
  /\ NewRequest /\ phase # "script"
  /\ phase' = "status" /\ todo' = Sheltered("online") \o StatusSteps("post", FALSE)
  /\ failed' = TRUE /\ UNCHANGED thrown

(* An exception.  If the site could not be taken offline for the script,   *)
(* no name of a file has been assigned yet, and the finally block throws   *)
(* one of its own before its first request.  The last handler is that of   *)
(* main; nothing handles an exception of its finally block.                *)
Raise ==
  /\ NewRequest
  /\ \/ /\ phase = "script"
        /\ IF todo[1] = "offline"
           THEN phase' = "cleanup" /\ todo' = <<"online">> /\ UNCHANGED failed
           ELSE Begin("cleanup")
        /\ thrown' = TRUE
     \/ phase \in {"pre", "deploy", "cleanup"} /\ Report(FALSE) /\ UNCHANGED thrown
     \/ phase = "status" /\ End /\ UNCHANGED thrown

------------------------------------------------------------------------------
(* Requests that fail.                                                     *)

(* A timeout of the HTTP client has no error code: sendRequest throws it,  *)
(* and beginRequest of the Kudu client, which Azure's client does not      *)
(* have, sends the request again, though not a command.                    *)
Repeatable ==
  {"monitor", "warmup", "listDir", "createPath", "offline", "online", "post", "extract", "poll",
   "details", "upload", "pollFile", "logs", "uploadDelete", "deleteFolder", "history", "manifest"}

(* Mutant of MayRepeat: timeouts are not counted.                          *)
MayRepeatForEver(request) == request \in Repeatable

MayRepeat(request) ==
  request \in Repeatable /\ repeats < IF request = "history" THEN 1 ELSE KuduRetries

(* The options of these requests make no error retriable.                  *)
MayResend(request, answer) == request \notin {"history", "ping"} /\ MayRetry(tries, answer)

Resend(request, answer) ==
  /\ \/ MayResend(request, answer) /\ tries' = tries + 1 /\ UNCHANGED repeats
     \/ answer = "timeout" /\ MayRepeat(request) /\ tries' = 0 /\ repeats' = repeats + 1
  /\ own' = 0 /\ UNCHANGED <<opts, phase, todo, polls, thrown, failed>>

(* _processDeploymentResponse, after it has got the details or has not.    *)
Processed == IF Last(deployments) = "bad" THEN Raise ELSE MoveOn

(* Mutant of Swallowed: so is that the site could not be put online.       *)
SwallowedToo == {"ping", "warmup", "scm", "annotation", "manifest", "online"}

(* Requests whose exception a try block of their own only logs.            *)
Swallowed == {"ping", "warmup", "scm", "annotation", "manifest"}

(* What the callers make of a request that has failed for good.            *)
GiveUp(request, answer) ==
  CASE request \in Swallowed -> MoveOn
    [] request = "details" -> Processed
    [] request = "history" -> Continue(IF ProfileUnread THEN <<"url">> ELSE << >>)
    [] request \in {"uploadDelete", "deleteLogs", "deleteFolder"} -> Continue(Sheltered("online"))
    [] request = "command" /\ answer = "timeout" -> Continue(<<"pollFile">> \o Tail(todo))
    [] OTHER -> Raise

Fail(request, answer) ==
  \/ Resend(request, answer)
  \/ /\ ~ MayResend(request, answer) /\ ~ (answer = "timeout" /\ MayRepeat(request))
     /\ GiveUp(request, answer)

------------------------------------------------------------------------------
(* The site.                                                               *)

Busy == deployments # << >> /\ Last(deployments) = "running"

(* What a request does to the site.                                        *)
CarryOut(request) ==
  /\ offline' = IF request = "offline" THEN TRUE ELSE offline /\ request # "online"
  /\ deployments' = CASE request = "post" /\ ~ Busy -> Append(deployments, "running")
                      [] request = "extract" -> Append(deployments, "running")
                      [] request = "image" -> Append(deployments, "good")
                      [] OTHER -> deployments
  /\ scripts' = IF request = "command" THEN Append(scripts, "running") ELSE scripts
  /\ UNCHANGED output

DeploymentEnds(i) ==
  /\ deployments[i] = "running"
  /\ \E status \in {"good", "bad"} : deployments' = [deployments EXCEPT ![i] = status]
  /\ UNCHANGED <<taskVars, offline, scripts, output, faults>>

(* The files have the output of the run that ends last.                    *)
ScriptEnds(i) ==
  /\ scripts[i] = "running"
  /\ \E outcome \in Outcome : scripts' = [scripts EXCEPT ![i] = outcome] /\ output' = outcome
  /\ UNCHANGED <<taskVars, offline, deployments, faults>>

------------------------------------------------------------------------------
(* The answers to the request under way.                                   *)

UnderWay(request) == todo # << >> /\ todo[1] = request

(* It fails, whether or not it has been carried out.                       *)
RequestFails ==
  /\ todo # << >> /\ todo[1] \notin {"msdeploy", "throw"}
  /\ faults < MaxFaults /\ faults' = faults + 1
  /\ \E answer \in Fault \cup {"timeout"} :
       /\ Fail(todo[1], answer)
       /\ \/ UNCHANGED siteVars
          \/ answer \notin {"refused", "void"} /\ own = 0 /\ CarryOut(todo[1])

(* Requests that are answered at once, and that the site acts on at most   *)
(* as CarryOut says.                                                       *)
RequestServed ==
  /\ todo # << >>
  /\ todo[1] \notin {"monitor", "post", "extract", "poll", "details", "command", "pollFile",
                     "logs", "msdeploy", "throw"}
  /\ CarryOut(todo[1]) /\ MoveOn
  /\ UNCHANGED faults

(* The new settings are not there yet; after the last round they are taken *)
(* for granted.                                                            *)
Monitored ==
  /\ UnderWay("monitor")
  /\ \/ MoveOn
     \/ /\ polls + 1 < MonitorPolls
        /\ polls' = polls + 1 /\ tries' = 0 /\ repeats' = 0
        /\ UNCHANGED <<opts, phase, todo, own, thrown, failed>>
  /\ UNCHANGED <<siteVars, faults>>

(* A package is refused while a deployment runs.  All providers but        *)
(* run-from-package want to be answered at once; an answer without a       *)
(* location leaves them with null, which _processDeploymentResponse reads. *)
Posted ==
  /\ UnderWay("post") /\ own = 0
  /\ \/ Busy /\ Fail("post", "busy") /\ UNCHANGED <<siteVars, faults>>
     \/ /\ ~ Busy /\ opts.provider # "runFromZip"
        /\ CarryOut("post")
        /\ \/ MoveOn /\ UNCHANGED faults
           \/ Raise /\ faults < MaxFaults /\ faults' = faults + 1
     \/ /\ ~ Busy /\ opts.provider = "runFromZip"
        /\ CarryOut("post") /\ own' = Len(deployments) + 1
        /\ UNCHANGED <<opts, phase, todo, tries, repeats, polls, thrown, failed, faults>>

(* Extractions do not exclude each other.                                  *)
Extracted ==
  /\ UnderWay("extract") /\ own = 0
  /\ CarryOut("extract") /\ own' = Len(deployments) + 1
  /\ UNCHANGED <<opts, phase, todo, tries, repeats, polls, thrown, failed, faults>>

(* The answer to a request that waits for its deployment; it can come too  *)
(* late.                                                                   *)
Deployed ==
  /\ UnderWay("post") \/ UnderWay("extract")
  /\ own # 0
  /\ \/ deployments[own] = "good" /\ MoveOn
     \/ deployments[own] = "bad" /\ Fail(todo[1], "busy")
     \/ deployments[own] = "running" /\ Fail(todo[1], "timeout")
  /\ UNCHANGED <<siteVars, faults>>

(* webDeployRecommendationForIssue: it pings the site, or has its files    *)
(* renamed, after the last attempt as well.                                *)
Recommended == IF opts.provider = "webDeploy" THEN {<< >>, <<"ping">>, Update} ELSE {<< >>}

(* What follows the attempts.                                              *)
AfterAttempts ==
  SubSeq(todo, SelectInSeq(todo, LAMBDA step : step = "throw") + 1, Len(todo))

(* A run of msdeploy, which the task waits for.                            *)
WebDeployed ==
  /\ UnderWay("msdeploy")
  /\ \/ deployments' = Append(deployments, "good") /\ Continue(AfterAttempts)
     \/ /\ deployments' = Append(deployments, "bad")
        /\ \E steps \in Recommended : Continue(steps \o Tail(todo))
  /\ UNCHANGED <<offline, scripts, output, faults>>

Throws == UnderWay("throw") /\ Raise /\ UNCHANGED <<siteVars, faults>>

(* Mutant of Settled: 202 ends the polling, as 200 does.                   *)
SettledAtOnce == TRUE
Settled == ~ Busy

(* _getDeploymentDetailsFromPollURL has no limit.                          *)
Polled ==
  /\ UnderWay("poll")
  /\ \/ Settled /\ MoveOn
     \/ /\ ~ Settled
        /\ tries' = 0 /\ repeats' = 0
        /\ UNCHANGED <<opts, phase, todo, polls, own, thrown, failed>>
  /\ UNCHANGED <<siteVars, faults>>

Detailed ==
  /\ UnderWay("details")
  /\ Processed
  /\ UNCHANGED <<siteVars, faults>>

(* The command is answered when the script has ended, or too late.         *)
Commanded ==
  /\ UnderWay("command") /\ UNCHANGED faults
  /\ \/ /\ own = 0
        /\ CarryOut("command") /\ own' = Len(scripts) + 1
        /\ UNCHANGED <<opts, phase, todo, tries, repeats, polls, thrown, failed>>
     \/ own # 0 /\ scripts[own] # "running" /\ MoveOn /\ UNCHANGED siteVars
     \/ own # 0 /\ scripts[own] = "running" /\ Fail("command", "timeout") /\ UNCHANGED siteVars

(* Mutant of NextAttempt: the attempts are not counted.                    *)
SameAttempt == UNCHANGED polls
NextAttempt == polls' = polls + 1

(* _pollForFile                                                            *)
FileSought ==
  /\ UnderWay("pollFile")
  /\ \/ output # "none" /\ MoveOn
     \/ output = "none" /\ polls + 1 = FilePolls /\ Raise
     \/ /\ output = "none" /\ polls + 1 < FilePolls
        /\ NextAttempt /\ tries' = 0 /\ repeats' = 0
        /\ UNCHANGED <<opts, phase, todo, own, thrown, failed>>
  /\ UNCHANGED <<siteVars, faults>>

(* _printPostDeploymentLogs looks at the exit code only if there is        *)
(* something on stderr.                                                    *)
LogsPrinted ==
  /\ UnderWay("logs")
  /\ IF output \in {"none", "loud"} THEN Raise ELSE MoveOn
  /\ UNCHANGED <<siteVars, faults>>

Task ==
  \/ RequestFails \/ RequestServed \/ Monitored \/ Posted \/ Extracted \/ Deployed
  \/ WebDeployed \/ Throws
  \/ Polled \/ Detailed \/ Commanded \/ FileSought \/ LogsPrinted

Next ==
  \/ Task
  \/ \E i \in DOMAIN deployments : DeploymentEnds(i)
  \/ \E i \in DOMAIN scripts : ScriptEnds(i)

Spec == Init /\ [][Next]_vars

(* Every request is answered, or times out, and deployments end.  A script *)
(* may run for ever.                                                       *)
Fairness == WF_vars(Task) /\ WF_vars(\E i \in DOMAIN deployments : DeploymentEnds(i))

FairSpec == Spec /\ Fairness

------------------------------------------------------------------------------
(* Properties.                                                             *)

(* With TakeAppOfflineFlag a zip deployment never runs while the site is   *)
(* online, not even one that goes on after the task has given up.          *)
SyncIsOffline ==
  opts.provider = "zip" /\ opts.offline /\ Busy => offline

(* A task that has not failed leaves the site online with a deployment     *)
(* that is good and, if a script was asked for, after a run of it that did *)
(* not complain, whatever was lost, repeated or ignored on the way.        *)
SuccessIsComplete ==
  phase = "ended" /\ ~ failed =>
    /\ ~ offline
    /\ deployments # << >> /\ Last(deployments) = "good"
    /\ opts.script => \E i \in DOMAIN scripts : scripts[i] \in {"good", "silent"}

(* The script runs only on top of a deployment that is over and good: no   *)
(* deployment whose answer was lost still runs beside it.  Kudu sees to    *)
(* that for deployments, but not for extractions.                          *)
ScriptAfterSync ==
  scripts # << >> =>
    /\ deployments # << >> /\ Last(deployments) = "good"
    /\ opts.provider = "extract" \/ \A i \in DOMAIN deployments : deployments[i] # "running"

(* The task ends, even if the script never does.                           *)
EventuallyEnded == <>(phase = "ended")

=============================================================================
