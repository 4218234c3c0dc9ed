# Verification of the pipeline tasks

This directory holds TLA+ models of the tasks of this repository whose own logic
is hard to test, the TLC configurations that check them on small instances, and
proofs, checked by TLAPS, of what holds for every instance. It covers the tasks
that run a protocol of their own against a server: `JenkinsQueueJobV2` (the
submission and the tracker), `TriggerAnotherBuildXPlat` and
`WaitForTriggeredBuildsXPlat`, `AzureResourceGroupDeploymentV2` with the REST client
all Azure tasks share, `AzureRmWebAppDeploymentV4` and `AzureAppServiceManageV0`.

## 1. Inventory

The repository is a collection of about 140 tasks that a build agent runs, one
process per step. Most of them read inputs, compose a command line and run one
tool. What has state, callbacks and retries is listed first.

| Component | State | Operations | Interaction | Hard behaviour |
|---|---|---|---|---|
| `JenkinsQueueJobV2`: `Job` | state, build number, join, console flag, result, `working` | `DoWork`, `initialize`, `streamConsole`, `finish`, `downloadResults`, `SetStreaming`, `SetJoined`, `Cut` | requests to Jenkins; calls `JobSearch` and `JobQueue` and is called back by both | callbacks of several jobs interleave; a job is moved by callbacks of others while its own request is outstanding |
| `JenkinsQueueJobV2`: `JobSearch` | known causes of builds, next number, direction, jobs sought | `Initialize`, `searchFor`, `locateExecution`, `DetermineMainJob`, `ResolveIfKnown` | one per project, shared by all jobs of it | one answer decides about many jobs; builds with several causes; a search that has to turn |
| `JenkinsQueueJobV2`: `JobQueue` | the list of jobs, the searches, the interval | `Start`, `stop`, `FlushJobConsolesSafely`, `FindJob`, `writeFinalMarkdown` | drives jobs and searches every 100 ms, writes the result | decides from a snapshot that all is over; the report is a chain of requests |
| `JenkinsQueueJobV2`: submission (`util.ts`) | crumb, plug-in flag, queue item | `getCrumb`, `submitJob`, `createRootJob` | runs before the tracker, gives it the root build | a lost answer to a POST that was accepted |
| `WaitForTriggeredBuildsXPlat` | wait list, `running`, result so far, cancellations | the interval, answers, `cancellingBuilds` | polls the build service; gets its list from `TriggerAnotherBuildXPlat` in a variable | polls overlap, answers overtake each other, unhandled rejections |
| `TriggerAnotherBuildXPlat` | the build it queued, its timer, the variable with the triggered builds | queue a build, create the links between the builds, wait for it or register it | writes the list the task above reads | the links are created between queueing and registering, and can fail; a timeout against a late answer |
| `Common/azure-arm-rest` | the cached token promise | `sendRequest`, `getToken`, `beginRequest`, `getLongRunningOperationResult` | under every Azure task | retries of requests that were carried out, a cached rejection, refresh by several requests |
| `AzureResourceGroupDeploymentV2` | counters and results per machine | deploy a template, start, stop, restart and delete machines, their agent extensions and the group | through `azure-arm-rest` | callbacks of all machines share two counters and one promise; operations that fail after they were accepted |
| `AzureRmWebAppDeploymentV4` | `app_offline.htm`, deployments and scripts on the site; what was thrown | settings, package, script, clean-up, status | through `azure-arm-rest` and Kudu | requests that time out and go on, are repeated at two levels, and fail inside `finally` |
| `AzureAppServiceManageV0` | the remote service; what it has found there | start, stop, restart, swap slots, web jobs, extensions, monitoring | through `azure-arm-rest` and Kudu | a swap that is sent twice, a restart of Kudu in three requests, loops without a limit, several steps of which one fails |
| `InstallSSHKeyV0` | ssh agent, `known_hosts` | pre-job, post-job | shared with other tasks of the job | the post-job step restores a file others may have changed |
| `PublishTestResultsWithTestCases` | `publishData` passed along a chain of promises | create a run, add results, complete it | test REST API | a step of several fails |
| `DownloadBuildArtifactsV0` | none of its own | download | the external `artifact-engine` | inside the external package |
| Tool runners, PowerShell tasks | none between steps | run a tool | tool exit code | none a model would show |
| `make.js`, `make-util.js`, `gulpfile.js`, `ci/` | files | build and package tasks | sequential | none a model would show |

What makes the components correct:

* *Tracker*: each build of the pipeline is followed by one job; a joined job
  follows a build its parent caused; nothing below a joined or cut job is
  followed; one running job at a time writes to the console; the task succeeds
  only when everything the pipeline caused ended well, reports a failure of any
  job (unless Jenkins refuses it the report: section 5), and ends.
* *Wait*: success only if all builds ended well; only builds that are over leave
  the list; the first result stands; a failure cancels the rest of the chain; the
  wait ends, at the latest when its timeout does.
* *Trigger*: a job that succeeds has waited for every build its steps queued, or
  was told not to; a build is registered before it is waited for; every step ends.
* *Submission*: one build per run of the task, and the build that is followed is
  the one that was submitted.
* *azure-arm-rest*: a request whose token has expired is sent once more, with a
  token that was not known to be expired; a retry starts nothing twice unless an
  answer was lost; a long-running operation is polled to its end.
* *Resource group*: a result Succeeded means that everything the action promises
  has happened; the task reports after the last machine, and always does.
* *Web application*: the site is offline while a package is synchronised, online
  after a success; the script runs on a deployment that is over and good; the
  task ends.
* *App service*: a success means that the site is as asked for; slots are swapped
  once, or once more for a request that failed, and are swapped in the end (they need
  not be: `AppServiceSwap`); Kudu is restarted for what was installed; the task ends.

`PROJECT.json` lists the hazards of this code at their lines, with the
properties that cover each, or the reason why none does yet.

## 2. Modules

| Module | Models | Lines of the code |
|---|---|---|
| `JenkinsServer` | the server as the tracker observes it: builds, causes, the queue with folded triggers, builds of other people (external) | what the tracker parses |
| `JobLifecycle` | abstract specification: the state diagram in the header of `job.ts`, and which jobs may be cut | `job.ts` 16-35 |
| `JenkinsQueueJob` | `Job`, `JobSearch`, `JobQueue` and the final report | `job.ts`, `jobsearch.ts`, `jobqueue.ts`, parts of `util.ts` |
| `Subsequences` | the filtering loops of the above | |
| `MCJenkinsQueueJob` | the pipelines TLC checks | |
| `WaitForTriggeredBuilds` | the whole task | `waitForTriggeredBuilds.ts` |
| `MCWaitForTriggeredBuilds` | its instances | |
| `TriggerAnotherBuild` | the steps that queue the builds, composed with `WaitForTriggeredBuilds`; the agent is external | `triggerAnotherBuild.ts` |
| `MCTriggerAnotherBuild` | its instance | |
| `JenkinsSubmit` | `getCrumb`, `submitJob`, `createRootJob` and the queue of Jenkins | `util.ts`, `jenkinsqueuejobtask.ts` |
| `WebClient` | how a request fails and is sent again; used by both Azure models | `webClient.ts` |
| `ArmClient` | the shared token, renewed after an expiry, and the polling of operations | `azure-arm-common.ts`, `AzureServiceClient.ts` |
| `AzureResourceGroup` | the actions of the task, on top of `ArmClient`; Azure is external | `AzureResourceGroupDeploymentV2/`, `azure-arm-compute.ts`, `azure-arm-resource.ts` |
| `MCAzureResourceGroup` | its instance | |
| `WebAppDeployment` | the deployment providers, on top of `WebClient`; Kudu is external | `AzureRmWebAppDeploymentV4/`, `azure-arm-app-service-kudu.ts` |
| `AzureAppServiceManage` | all actions of the task, on top of `WebClient`; the site and Kudu are external | `AzureAppServiceManageV0/`, parts of `azure-arm-app-service.ts` and of the Kudu client |
| `Subsequences_proof` | facts about sequences and what is selected of them | |
| `JenkinsQueueJob_proof` | theorems about the tracker: types, knowledge, life cycle, console | |
| `JenkinsQueueTree_proof` | theorems about the tracker: the tree of jobs, the history of the server, the verdict | |
| `JenkinsSubmit_proof`, `AzureResourceGroup_proof`, `WebAppDeployment_proof`, `AzureAppServiceManage_proof` | theorems about these modules | |
| `TriggerAnotherBuild_proof` | theorems about the wait by itself and about the job it is composed in | |

### JenkinsQueueJob

Variables are the fields of the classes: `allJobs`, and per job `state`,
`number` (`ExecutableNumber`), `joined`, `console`, `result`
(`ParsedExecutionResult`); per project `search`, a record of the fields of
`JobSearch`. `work[j]` stands for `working` and for what the job waits for: its
timer, the answer to a request, or the continuation of a promise. `opts` are the
task options, which the code changes while it runs (an answer 401 switches the
capture of consoles off). `interval`, `complete` and `summary` are the interval
and the steps of the final report, `verdicts` what `setResult` was called with,
`exited` that the process has ended.

JavaScript runs one callback at a time, but a callback calls methods of other
jobs, which call others. Such a callback is modelled as a stack `todo` of calls:
the action of the callback puts the first calls there and `Continue` executes
them in the order of the code, each with its own guard, until the stack is empty.
No other callback starts before (`Quiet`), promise continuations run before
timers and answers. The assertions of the code (`Util.fail`) are kept: they raise,
which empties the stack and fails the task, or disappears if a promise handler
swallows it (`Raise`).

Each request has an action for its answer with one disjunct for every branch of
its callback. `FaultKinds` lists which request can fail how: each of the eight
requests of the tracker (`Request`: the initialisation of a search by a job or by its
constructor, a console, a result, the plug-in's results, a build, the two of the
report) by `reset` (ECONNRESET), `error` (any other), `missing` (404), `denied` (401)
or `status` (any other status). `MaxFaults` bounds how many do. The builds in
`Uncaused` show no causes if no project has triggered them; a search that meets one
raises (`Undetermined`). A console request that is reset is handled by two listeners:
the first leaves the job to be asked for again, the second throws and fails the task.

Left out: the text of consoles and of the report, URLs, the contents of the
results archive (the answer to its download leads to `Done` in all cases), and
timestamps, which are replaced by the order in which builds were created.

### WaitForTriggeredBuilds

`waitList`, `running`, `resultState` and `interval` are the variables of
`waitForBuilds`; `calls` holds, for each call of `cancellingBuilds`, what became
of the request for each build. Requests for a build are not messages with an
identity: `early[b]` counts those sent while it ran, which can be answered
either way, `late[b]` those sent after its end. That is all their order can
change. The result is
read when the promise of a call is settled, as in the code; with nothing to
cancel it is set in the callback of the interval itself.

Left out: error texts, and the end of the process when there is no token.

### TriggerAnotherBuild

The module extends `WaitForTriggeredBuilds` and puts steps before it: the wait is
the last step of a job (`at`), its list is what the steps before left in the
variable of the job (`registered`), and the server's builds are those they have
`queued`. `process` is the Node process of the current step. `createLinks` and the
requests below it are one step: what they write is read by nobody, and all that
matters is whether the promise that `waitAndFinish` hangs on is settled. The agent
decides what a step's result is (`reports`) and whether the job goes on
(`resilient`).

Left out: which definition is queued and with which parameters; other tags, whose
builds are to this wait as if nobody had registered them; the status `Cancelling`,
which the task treats as the end of a cancelled build.

### JenkinsSubmit

`pc` is the request under way, `crumb`, `available` and `queueUri` are the fields
of the task's options. `util.ts` treats a connection that is reset as a round that
has brought nothing, and starts over. Jenkins keeps `items` of its queue, with what
became of each and whether the task was told of it: a POST can be accepted and its
answer lost, or folded into an item that waits.

### ArmClient and AzureResourceGroup

A call is a chain of requests. Each request first awaits the promise of the token
(`token` is an index into `promise`, because several requests can hold different
promises), is then sent, and perhaps sent again; what the service answers is
looked at by `Receive`. `AzureResourceGroup` gives every call a program, written
as the continuations of the code: `VmProgram` for the callbacks of a machine,
`MainProgram` for the promises of the action. The machines run concurrently and
share `succeeded` and `failed`, the counters of `getCallback`. Azure accepts
operations, ends them well or badly, and serves reads.

Left out: request URIs and bodies, WinRM and output variables, and the registration
of an environment.

### WebAppDeployment

The task has no concurrency of its own, but what it starts outlives its requests.
`todo` holds the requests that are left of the `try` block the task is in
(`phase`), the first one under way; where the code decides by data (a setting is
new or not), `Steps` is a set of such sequences. `tries` and `repeats` are the
counters of the two levels of retries, `sendRequest` and the Kudu client. `own` is
the deployment or script a request waits for. `Raise` is the control of an
exception: the `finally` block of the script, the handler of `main`, and nothing in
the `finally` block of `main`.

msdeploy is a command the task waits for, so a run of it is one step; `throw` in
`todo` is no request but the exception that follows its last attempt, or an input
that does not fit. What a package leaves on the site is an entry of `deployments`,
also for an extraction, a run of msdeploy and the image of a container.

Left out: settings and packages themselves and the transformation of packages; an
expired token, which `ArmClient` has; a script file that is missing, for which the code
throws (`KuduServiceUtility.ts:51`) after it has put `app_offline.htm` and before it knows
a name of a file, so that its clean-up has nothing to do but remove `app_offline.htm`:
the way of an `app_offline.htm` whose answer was lost, which the model has.

### AzureAppServiceManage

As in `WebAppDeployment`, `todo` holds the requests that are left; each names the
slot, web job or extension it is for. `action` is the input, `phase` is "status"
for what follows the `switch` of `run`: the entries in the history, whose failure
changes nothing. What a request finds decides about the rest of `todo`
(`JobSteps`, `InstallSteps`, `LinkSought`). `Answered` is what the two levels of
retries make of an answer, `GiveUp` which failures the code lets pass.

The processes of Kudu are told apart only as the code does: by whether one is the
one that `getProcess` has read. `loaded` is what the process has started with. One
process stands for the Kudu of both slots of a swap. A run starts on any site,
also one an earlier, failed run has left: with extensions that are not loaded, with
any of the jobs running, with some of the links.

Left out: the names and titles of extensions and their mapping for Python, output
variables, and what a restart of the site does, which leaves no trace.

## 3. Runs

| Run | Instance | Question |
|---|---|---|
| `QueueDiamond` | R starts A and B, both start C; Jenkins and the task interleave freely, no faults | one tracker per build, joins, exclusive consoles, the life cycle of a job, what success covers |
| `QueueTriangle` | R starts A and B, A starts B, B starts D; Jenkins is done before the task looks: with the triggers of B or those of D folded, or with A, B or D failed; any request fails in any way | subtrees below a joined job are cut; a failed job fails the task, unless the report is refused |
| `QueueProgress` | R starts A, which has earlier builds, one build of somebody else that shows no causes, any task inputs, results plug-in; two requests fail, in every way but those of section 5 | the task ends with a verdict; without console capture it succeeds without waiting for Jenkins |
| `QueueReset` | R starts A, a reset | **violated**: a job stays New for ever |
| `Submit` | plug-in and crumbs or none, four lost answers, resets, restarts of Jenkins | the build that is followed is the one the task was told of; nothing is submitted after a failure; a decision comes |
| `WaitPolls` | two builds, one fault, two overlapping requests per build, two calls that cancel | safety of the wait |
| `Pipeline` | two steps that trigger builds (each registered, waited for or left alone) and the wait, composed; a timeout or none, one failing request of the steps and one of the wait, one call that cancels | a job that succeeds has waited for every build it should; every job ends |
| `AzureGroup` | every action on two machines, operations that fail, one fault (a failing request, a lost answer, an expired token) | a success is real and complete, an expiry is survived, a retry starts nothing twice, a result comes |
| `AzureDeletion` | deletion of the agent extension of one machine | **violated**: a deletion that failed is reported as a success |
| `WebApp` | all eight providers with and without the inputs, two requests that fail, retries of one, loops and msdeploy runs of two | deployments, scripts and the offline file never overlap wrongly, a success is complete, the task ends |
| `AppService` | every action from any state of the site, two requests that fail or processes of Kudu that end | a success is real, a second swap answers for a request that failed, the task ends even if a swap or Kudu hangs |
| `AppServiceSwap` | a swap, one request that fails | **violated**: the slots are swapped back, and the task succeeds |

The violated properties are quotations of what the code's own comments and
`task.json` say; `PROJECT.json` gives the lines under "findings".

*Bounds.* A conflict about a build needs two jobs of one project with different
parents, which the diamond has; a subtree to cut needs one more stage, which the
triangle has; a search has something to skip as soon as a project has two earlier
builds and one of somebody else. One fault in `QueueTriangle` hits each request of the
task in turn, the report of a pipeline that failed among them; two in `QueueProgress`
let a second one meet what the first has left. In the wait, overlap needs two requests for a
build and two builds, one of which clears `running` for the other; `MaxAsked`
stops the interval from sending a third, and `MaxCalls` a third cancellation,
which adds nothing a second does not. A build that can only succeed in part and
one that succeeds or is cancelled by somebody else give every way through the
answer (the task treats failed and cancelled builds alike).

`Pipeline` has two steps, the fewest in which one registers and the other waits, and
in which the second runs after the first failed and the job goes on; one fault of
the steps hits each of their requests in turn.

Two faults in `Submit` would lose one answer; four let a second round meet a crumb
of an earlier session or an item that has been forgotten. `AzureGroup` needs two
machines for callbacks that share counters and for requests that share a token; with
`RetryCount = 2` there is a first retry and a last one, and one fault lets each
request in turn fail, be lost or meet an expired token. `ExpiryIsSurvived` with one
expiry says that no request may fail for it. In `WebApp` every loop has a round that
is repeated and a last one, and two faults reach both levels of retries, a failure in
the clean-up after another failure, and a package or script that runs twice. In
`AppService` two faults let a swap be lost and repeated, and a process of Kudu end
between the requests of its restart; two jobs and two extensions give some that are
as wanted already and some that are not.

*Deadlock* is not checked: a task ends, and its model has no step after that.

*Fairness.* The event loop runs every callback that is ready, and answers and
errors arrive in the end: weak fairness of each callback of the wait, strong
fairness of each callback of the tracker, because a callback is disabled while
another one runs. That Jenkins goes on (`JenkinsProgresses`) is not assumed of the
specification but a premise of the properties that need it. `EventuallyEnded`
of the job has three premises, each of which the code of the wait needs: its
connections succeed (section 5 says why; `Pipeline` lets those of the other steps
fail), and without a timeout timelines can be read and answers
come before the next poll from some time on. Without the last a build that
succeeded in part is put back on the list by every late answer, without end.
`EventuallyDecided` needs weak fairness of the requests and of the queue: resets are
bounded by `MaxFaults`, and an item leaves the queue of Jenkins in the end.
`EventuallyVerdict` of the resource group assumes that answers arrive and that Azure
ends its operations, and as a premise that the end of an operation has a body:
without one a handler throws and no callback ever comes. `EventuallyEnded` of the
web application assumes that requests are answered or time out, and that Kudu ends
deployments; a script may run for ever. `EventuallyEnded` of the app service needs
that requests are answered or time out and that the site comes to the state it was
told to, because `monitorApplicationState` has no limit; nothing is assumed of swaps
and of Kudu, for which the code has limits.

## 4. Theorems

All are for every value of the constants that meets the assumptions: any
pipeline, any history, any inputs, any number of faults, any number of builds,
requests and calls. Only theorems about the tracker have a hypothesis on top of these:

* `OneConsole` and `LifecycleImplemented` assume `Plain`: the results plug-in is not
  used, and a denied request, if there can be one, ends the process. Without the first
  the life cycle is violated (section 5), and so are parts of the invariants of the
  others; without the second an answer 401 switches console capture off under jobs that
  were found with it, and `SetStreaming`, which then no longer looks at the state of its
  job, can set a job streaming that has ended.
* `TrackedOnce`, `MainJobIsOne`, `OrphansAreCut` and `CauseFollowed` assume in addition
  `CausesShown`: every build shows its causes, or what fails the task ends the process.
  A build without causes raises in the middle of a callback, whose other calls are then
  never made.
* `FailureReported` assumes only that there is no plug-in; requests fail in every way,
  and a failed task may go on. Its property says nothing of a task whose report was
  refused.
* `SuccessCovers` assumes no plug-in, `CausesShown`, and that no initialisation of a
  search is answered by a reset (section 5). All other requests fail in every way.

What each theorem rests on:

* `JenkinsQueueJob_proof!TypeCorrect`: `Spec => []TypeOK`. The types are not
  inductive alone. `FoundExist` is added (a build whose causes the search knows
  exists on the server), because a step that looks causes up has a typed result
  only then, and the calls on the stack are restricted to the set `Frame` (who
  sets the root streaming does so for the root build), because otherwise the
  root's number could change and the server be asked for a build it does not
  have. The proof has one lemma per action and one per call of `Continue`.
* `JenkinsQueueJob_proof!KnowledgeKept`: `Spec => KnowledgeIsKept`. The build
  of a job, the result of a job that is done and the causes a search knows are
  never taken back. The invariant adds that a job in `finish()` is not done
  (`FinishBusy`), so that the answer cannot overwrite a result, and that a job
  which is still to be resolved has no number (`Unnumbered`), so that
  `SetStreaming` writes into an empty field: its second caller finds the job
  resolved already.
* `JenkinsQueueJob_proof!OneConsole` (`Spec => []OneConsoleWriter`) and
  `LifecycleImplemented` (`Spec => LifecycleSpec`: the tracker implements
  `JobLifecycle`), both from `LifeInv`. That a call finds its job in a state in which
  it may change it is not a matter of one step: the call was pushed when other jobs
  had other states. The invariant therefore says what every call on the stack still
  finds (`CallOK`) and how calls lie on each other (`Stacked`: those that join or cut
  are on top together, and what lies below them moves no job), so that a step
  disturbs no call that is waiting; how the state of a job goes with its parent's,
  its number and its outstanding work (`JobOK`: a job that has run or is joined has a
  parent that has run, a cut one a parent that is joined or cut); that searches only
  seek tracked jobs (`Seeking`), that without console capture there is only the root
  (`Mode`), and that causes are builds (`CausesReal`), by which no joined or cut job
  has caused a build and `JoinOthersToMe` meets only jobs that have not begun
  (`SecondaryFacts`). Every step is then a `Move` or leaves states alone, and no
  step makes a job active that was not, so the console can change hands only in
  `Flushed`.
* `JenkinsQueueTree_proof!TrackedOnce` (`Spec => []OneTrackerPerBuild`), `MainJobIsOne`
  (`Spec => []OneMainJob`) and `OrphansAreCut` (`Spec => []NoOrphans`), from `LifeInv`
  and two more layers. `History0` is what the server guarantees, and is proved of its
  actions alone: a cause is a build that is over, belongs to the pipeline, and has the
  project downstream (`CausesOver`); a build is a cause only once, of one build of a
  project or of what waits in its queue (`CausesOnce`); and builds can be ordered so
  that causes come first, which takes a rank because builds of different projects are
  not ordered in the state (`Ranked`). `TreeInv` relates the jobs to it. Its core is
  `InOrder`: a job that has a number shares the build, that is, the build of its parent
  is among the causes (`Shares`, `Numbered`); no other job of the project has the
  number (`OneTracker`); and a job is joined to one that is ahead of it
  (`JoinedAhead`), that is, which shares a build with it and either follows this build
  or has the earlier cause. This is the order in which `DetermineMainJob` looks at the
  jobs, and it is what stays true when the main job itself joins another one later.
  `CallsFit` says what each call that waits on the stack still relies on: who is to be
  set streaming is still the main job, who is told to join still comes after the job
  it joins. `OrphansCut` says that below a joined or cut job every job is New, cut, or
  has its cut on the stack, and `TreeGrows`, `NewBelowNew` and `BegunLater` at which
  point of a job's initialisation it has children. So the loops of calls that join
  and cut leave the tree right when the stack is empty, whatever they met on the way.
  `Known`, that the builds a search has found show their causes, is there as long as
  the process runs: a build that does not raises, which then ends it.
* `JenkinsQueueTree_proof!FailureReported` (`Spec => []FailureIsReported`), from `EndInv`.
  `Told` is what the interval, the summary and the verdicts say of each other.
  `Settled` says that when the queue is complete no job has failed, and every job is
  Done, Queued, Joined or Cut, or New below a joined or cut one, so that no job can
  fail later: this needs all of `TreeInv`. Once an answer 401 or a build without causes
  has failed the task, only `Told` is claimed, and is enough.
* `JenkinsQueueTree_proof!SuccessCovers` (`Spec => []SuccessCoversPipeline`), from
  `EndInv` with two parts for a task that captures the pipeline. `Pursued`: a job that
  is done has all its children, and its build is over with the result it reports.
  `Covered`: when the queue is complete, nothing of the pipeline waits in the server's
  queue, and every build of it has a job that is done with a good result. It is proved
  at the tick that completes the queue from a smallest counterexample. Of the builds
  of the pipeline that no job follows, take one with the least rank. It is not the
  root's; so it has a cause, which some job follows that is done and therefore has a
  child which shares the build. Among those that share it `DetermineMainJob` chooses
  one that is neither joined nor cut. That job is over, hence done, hence follows
  the build. A trigger left in the queue would be a second occurrence of its cause.
  From then on no build of the pipeline begins or ends.
* `JenkinsQueueTree_proof!CauseFollowed` (`Spec => []FollowsItsCause`). `findWorkingJob`
  follows joins to their end, and nothing in the code says that there is one. By
  `JoinedAhead` and because two jobs share one build only, all jobs of such a chain
  share the build of the first, and each join goes to an earlier cause of it, so
  no job occurs twice; a chain as long as the list of jobs would need more jobs than
  there are (the pigeonhole principle). At its end is a job that is not joined, and not
  cut either, because its parent ran. The operator `WorkingJob` is a recursive function,
  and all that is used of it is that such a chain exists, by induction on its length.
* `Subsequences_proof!AmongProperties`: what filtering a sequence returns. Since
  the induction theorems of the library take operators, induction is done from a
  least counterexample: `NatMinimum` (every nonempty set of numbers has a least
  element, from the well-foundedness of the strict subset order on finite
  sets), then `NatInductionSet`, then the recursion of `Among`. The module also has
  the fact that the elements kept come once each and in their order (`Picks`), on which
  the choice of a main job rests, and the lemmas on what is left of a sequence that the
  two Azure tasks below share: which elements it still has, which of two comes first,
  which one another follows, and that one comes once, all of which `Tail` inherits.
* `TriggerAnotherBuild_proof`, of the wait by itself: `TypeCorrect`, `SuccessEarned`,
  `RemovedOver`, `ChainCancelled` and `VerdictFinal`, all from one invariant `Inv`. Its parts say
  that a deleted build is over and, if it ended badly, `resultState` is Failed
  already (`RemovedIsJudged`); that timelines are only read of builds that are
  over; that a call of `cancellingBuilds` exists only after a failure, so
  that the result it will report is known (`CancelIsFailure`); that the interval
  has ended with the first result (`VerdictEnds`); and what each request of a call
  says of its build (`CallCovers`). `VerdictFinal` follows because the only steps
  left after a result are those of calls, which all report a failure, and there
  are none after a success.
* `TriggerAnotherBuild_proof`, of the job as a whole: `PipelineTypeCorrect` and
  `SuccessWhole`. `PipelineInv` says that before the wait begins nothing of it is there
  (`NotBegun`), that a step links and polls only what it has queued (`StepInOrder`),
  what each reported success stands for, and, of the wait once it has begun, the
  invariant of the wait for the registered builds; its steps are dealt with by the
  lemmas already proved.
* `JenkinsSubmit_proof`: `TypeCorrect`, `FollowsTheBuild` and `FailureIsFinal`, from
  an invariant that adds to the property that no item is polled in the rounds that
  submit (`Told`), so that an answer is the first one the task gets, that a reported
  failure has ended the task (`Final`), and that restarts are faults (`Counted`).
* `AzureResourceGroup_proof`: all invariants of the run: `TypeCorrect`,
  `ExpirySurvived`, `RepeatsLost`, `DeploymentOver`, `VerdictComplete` and
  `SuccessReal`, for any number of machines, pages, retries, faults and expiries. The
  invariant is proved in layers, each from the ones before: `Base` (types, and which
  requests a program can be at); `ExpiryInOrder` (a request that carries a second
  token has seen an older one expire); `OperationsInOrder` and `EffectsStay` (what is
  polled is the operation the program is at, one that was seen to succeed has, and no
  later operation takes its effect back); `AcceptedOrLost` (until an operation is
  accepted with an answer, each that was accepted has lost its own); `DeploymentSettled`;
  and `CallbacksCounted` with `VerdictIsLast` (the shared counters are the numbers of
  machines whose callback came, so the result comes with the last one, which is what
  the concurrent callbacks put at risk).
* `WebAppDeployment_proof`: all invariants of the run: `TypeCorrect`, `SyncSheltered`,
  `SuccessWhole` and `ScriptLast`. What is left of the task is a suffix of one of the
  many programs of `Steps`, with pings and updates put before it. `Good` says of each
  phase what such a suffix must still contain for the rest of its goals to be met
  (`Chain`, `DeployOK`: what puts the package on the site is still to come, or it is
  there), `Site` relates the deployments, scripts and `app_offline.htm` on the site in
  every phase, and `Owned` says that the number a poll waits for is that of the
  deployment or script the task has started last.
* `AzureAppServiceManage_proof`: all invariants of the run: `TypeCorrect`, `SuccessReal`
  and `SwapsBounded`. `Goals` says for each thing a success stands for that the request
  which brings it about is still in the chain, or the site has it, and `Met` when a
  request may be dropped without losing one; `Shape` says in which order requests
  come, so that none is skipped. `SwapCount` (no swap more than faults until the one
  that is to come) is an invariant only together with these.

With these, every invariant and every action property that a passing run checks is
proved, under the hypotheses above, and so is the refinement of `JobLifecycle`.

Only model-checked: everything under fairness, which is outside the prover's reach
(`EventuallyEnded` of three modules, `EventuallyVerdict` of two, `EventuallyDecided`
and `SucceedsOnceQueued`), and the three violated properties; the cases that the
hypotheses above exclude; the modules `WebClient` and `ArmClient` apart from their use
in the tasks; and what the recursive function `Among` computes beyond the facts proved
of it.

## 5. What the models show of the code beside the properties

Where no comment, document or test of the repository says otherwise, these are no
findings, but a maintainer may want to know them.

* `jobsearch.ts:139`: with the results plug-in a job that is Downloading does not
  count as a master, so a sibling caused by the same build becomes the main job and
  joins it: `Downloading` to `Joined`, which the diagram in the header of `job.ts`
  does not have. `QueueDiamond` checks the diagram without the plug-in.
* `job.ts:206`: `SetJoined` refuses a main job that is joined or cut, but not one that
  is still sought and joins another later, so joins can form a chain. This takes a
  build with three causes and a job that meets its build before the others are known;
  `QueueDiamond` is too small for it, a random simulation of a tree with eight jobs
  shows it. The code expects it: `findWorkingJob` (`jobqueue.ts:208`) follows joins to
  their end, and `FollowsItsCause` is stated of that end.
* `jobqueue.ts:60`: a task that fails stops at the first failed job; what the
  console of that job had to say is not always printed.
* `jobqueue.ts:272`: the promise of `getPipelineReport` has no handler for its
  rejection, and any status but 200 rejects it (`util.ts:77`). Then the summary is not
  written, and what follows it, `setResult` included, does not happen: the process ends
  without a verdict even if a job has failed, and the agent takes that for a success,
  although the task is to "succeed/fail based on the Jenkins build pipeline result"
  (`task.json:75`). The model has it as the summary `refused`, in every run where the
  report can fail; `FailureIsReported` says nothing of it, and with "refused" added to
  `Ended` TLC finds it violated in `QueueTriangle`. `QueueProgress` leaves it out.
* `jobsearch.ts:49`, "resolve but do not initialize -- a job will trigger this again":
  no job does so for a job whose own initialisation was answered by a reset
  (`QueueReset` shows the one that stays New). If a sibling then initialises the search,
  the first job can still become the main job and end Done, but the children that its
  initialisation would have created never are, and the task succeeds without looking
  at them. With a reset of `init` in the pipeline of `QueueTriangle` TLC finds
  `SuccessCoversPipeline` violated; `SuccessCovers` excludes it.
* `jobsearch.ts:56`: any other failure of the same request rejects a promise whose
  handlers throw it on (`job.ts:288`), to nobody. The job stays New and busy, and the
  task does not end: `QueueProgress` leaves these failures out too.
* `job.ts:450`: a reset of a console request is to be tried again by the first
  listener, but the second one throws it: an uncaught exception, which fails the task.
* `jobsearch.ts:107`: a build that shows no causes fails the task, also one of somebody
  else that the search only passes by.
* `triggerAnotherBuild.ts:167`: the promise of `createLinks` has no handler; if a
  request below it fails, a build that was queued is neither waited for nor
  registered, and the step ends without a result, which the agent takes for a success.
* `triggerAnotherBuild.ts:224`: the comment asks for at least one record, the test is
  `records.length < 0`; a build that has no record yet gets past it, and the next
  access throws in a callback where nobody catches it.
* `triggerAnotherBuild.ts`: an answer that arrives after the timeout reports a second
  result.
* `azure-arm-app-service-kudu.ts:403`: the script is a POST that is sent again after
  a reset or a status 5xx, so it can run twice, and at the same time.
* `KuduServiceUtility.ts:305`: the exit code of the script is looked at only if
  there is something on stderr (`silent` in the model).
* `KuduServiceUtility.ts:413`: the number of attempts is computed for ten seconds
  between two of them, the code sleeps five: it gives up in half the time.
* `KuduServiceUtility.ts:172`: `app_offline.htm` is removed only after a success, as
  the help text says; a failed deployment leaves the site offline.
* `WindowsWebAppWarDeployProvider.ts:19`: a WAR file is deployed without regard for
  `TakeAppOfflineFlag`; only the script that follows observes it.
* `KuduServiceUtility.ts:135`: an extraction that times out goes on and is requested
  again; when the second one ends first, the site goes online, and the script runs,
  while the first still writes. For deployments Kudu excludes this.
* `PublishProfileWebAppDeploymentProvider.ts:65`: the number of attempts is compared
  with zero after it is decremented, so with `appservice.msdeployretrycount` 0 a
  command that fails is repeated for ever; `WebDeployUtility.ts:36` then reads the
  result of a deployment that never ran.
* `PublishProfileWebAppDeploymentProvider.ts:50`: the package is transformed before
  the `try` block whose `finally` restores it; an exception between the two leaves
  the transformed package behind.
* `azurermwebappdeployment.ts:30`: the address of the site is read in the `finally`
  block of `main`; if that fails, nothing handles the exception and the result
  stays what it was.
* `waitForTriggeredBuilds.ts:166`: a connection that fails is handled by nobody, and
  leaves `running` set or the cancellation unsettled: the interval returns at once for
  ever, and a timeout is not looked at again.
* `azure-arm-app-service.ts:123`: a swap whose answer is lost, or which meets another
  one (409), is sent again; if the first one has ended well by then, the second swaps
  back, and the task reports a success (`AppServiceSwap`). A swap that times out is
  reported as failed and goes on, and a second run of the task then undoes it.
* `KuduServiceUtils.ts:88`: Kudu is restarted only for what this run has installed. If
  the restart fails, a second run finds the extensions installed and succeeds without
  a restart, and they are never loaded (`SuccessIsReal` is about the extensions the
  run did not find).
* `azureappservicemanage.ts:138`: the status of a swap is sent to the Kudu of both slots
  under one name only if the first answer comes; else they get two.
* `azure-arm-app-service-kudu.ts:248`: any 502 counts as the end of the process, also
  that of a gateway; the comparison of process numbers catches this.
* `azure-arm-app-service.ts:179`: settings are read once and written back as a whole
  later, over what others have changed in between.

## 6. Not modelled, and the plan

Tool runners, PowerShell tasks and the build scripts keep no state worth a model;
they are most of the lines of the repository, and a task of this kind that is one
command line has no steps whose order matters. The artifact engine is not in the
repository. `InstallSSHKeyV0` and `PublishTestResultsWithTestCases` are sequential:
each has a step that can fail after another, but no loop, retry or callback of its
own. Of the modelled tasks, the transformation of packages, WinRM and the
registration of an environment are left out: they are chains of files and commands.
What could be composed next is the submission with the tracker through the root
build.

Of the theorems, what is left are the cases outside the hypotheses of those about the
tracker: which of its invariants survive the results plug-in and a task that goes on
after an answer 401.
