----------------------------- MODULE JenkinsSubmit -----------------------------
(***************************************************************************)
(* How JenkinsQueueJobV2 comes to the root build that JenkinsQueueJob      *)
(* follows (doWork of jenkinsqueuejobtask.ts, getCrumb, submitJob and      *)
(* createRootJob of util.ts): it asks for a crumb, posts to the endpoint   *)
(* of the team-build plug-in or, when there is none, to that of the job,   *)
(* and polls the queue item it is given until the build has a number.  A   *)
(* connection that is reset counts as "no failure either" everywhere, and  *)
(* the whole round is repeated.                                            *)
(*                                                                         *)
(* Jenkins is external: it may accept a job and lose the answer, fold a    *)
(* job into the same one that still waits, restart, and forget items.      *)
(***************************************************************************)
EXTENDS Naturals, Sequences

CONSTANT MaxFaults   \* bound on requests that fail and restarts of Jenkins

ASSUME SubmitAssumption == MaxFaults \in Nat

VARIABLES
  pc,              \* the request under way, or how doWork has ended
  crumb,           \* taskOptions.crumb: the session it belongs to, 0 for NO_CRUMB
  available,       \* taskOptions.teamBuildPluginAvailable
  queueUri,        \* the queue item that is polled, 0 for none
  reported,        \* setResult(Failed) has been called
  items,           \* Jenkins: the queue items of this job
  plugin,          \* Jenkins: the team-build plug-in is installed
  issuer,          \* Jenkins: requests need a crumb
  session,         \* Jenkins: crumbs of earlier sessions are refused
  faults           \* number of failed requests and restarts

taskVars == <<pc, crumb, available, queueUri, reported>>
jenkinsVars == <<items, plugin, issuer, session>>
vars == <<taskVars, jenkinsVars, faults>>

(* answered: the task was told of the item.                                *)
Item == [state : {"waiting", "started", "cancelled", "forgotten"}, answered : BOOLEAN]

TypeOK ==
  /\ pc \in {"crumb", "team", "job", "item", "tracking", "failed"}
  /\ crumb \in 0 .. session /\ session \in 1 .. MaxFaults + 1
  /\ available \in BOOLEAN /\ reported \in BOOLEAN
  /\ items \in Seq(Item) /\ queueUri \in 0 .. Len(items)
  /\ plugin \in BOOLEAN /\ issuer \in BOOLEAN
  /\ faults \in 0 .. MaxFaults

Init ==
  /\ pc = "crumb" /\ crumb = 0 /\ available = FALSE /\ queueUri = 0 /\ reported = FALSE
  /\ items = << >> /\ plugin \in BOOLEAN /\ issuer \in BOOLEAN /\ session = 1
  /\ faults = 0

Fails ==
  /\ faults < MaxFaults
  /\ faults' = faults + 1

------------------------------------------------------------------------------
(* Jenkins.                                                                *)

Move(i, from, to) ==
  /\ items[i].state = from
  /\ items' = [items EXCEPT ![i].state = to]
  /\ UNCHANGED <<taskVars, plugin, issuer, session>>

LeaveQueue(i) ==
  /\ Move(i, "waiting", "started") \/ Move(i, "waiting", "cancelled")
  /\ UNCHANGED faults

(* Jenkins remembers an item for a while after it has left the queue.      *)
Forget(i) == Move(i, "started", "forgotten") /\ Fails

Restart ==
  /\ Fails
  /\ session' = session + 1
  /\ plugin' \in BOOLEAN
  /\ UNCHANGED <<taskVars, items, issuer>>

(* The job is put into the queue, or folded into one that waits there.     *)
Accept(i, told) ==
  IF \E j \in DOMAIN items : items[j].state = "waiting"
  THEN /\ i \in DOMAIN items /\ items[i].state = "waiting"
       /\ items' = [items EXCEPT ![i].answered = @ \/ told]
  ELSE /\ i = Len(items) + 1
       /\ items' = Append(items, [state |-> "waiting", answered |-> told])

(* Whether a request gets past the check of its crumb.                     *)
Admitted == issuer => crumb = session

------------------------------------------------------------------------------
(* The task.                                                               *)

(* The catch of doWork; the process is not ended by setResult.             *)
Reject ==
  /\ pc' = "failed" /\ reported' = TRUE
  /\ UNCHANGED <<crumb, available, queueUri, jenkinsVars>>

(* resolve(null): the round starts again.                                  *)
TryAgain ==
  /\ pc' = "crumb"
  /\ UNCHANGED <<crumb, available, queueUri, reported>>

(* A rejection for an error of the connection or a status of an error.     *)
Refused == Fails /\ Reject

(* Mutant of CrumbRefused: the status is reported, but nothing is rejected. *)
CrumbReported ==
  /\ pc = "crumb"
  /\ Fails
  /\ reported' = TRUE
  /\ UNCHANGED <<pc, crumb, available, queueUri, jenkinsVars>>

(* failReturnCode sets the result, and so does the rejection.              *)
CrumbRefused == pc = "crumb" /\ Refused

(* getCrumb: the answer 404 means that none is needed, true or not.        *)
CrumbReceived ==
  /\ pc = "crumb" /\ pc' = "team"
  /\ \/ issuer /\ crumb' = session /\ UNCHANGED faults
     \/ ~ issuer /\ crumb' = 0 /\ UNCHANGED faults
     \/ issuer /\ crumb' = 0 /\ Fails
  /\ UNCHANGED <<available, queueUri, reported, jenkinsVars>>

CrumbReset ==
  /\ pc = "crumb"
  /\ Fails /\ TryAgain
  /\ UNCHANGED jenkinsVars

(* submitJob, first request: 404 also if Jenkins does not know the job.    *)
TeamMissing ==
  /\ pc = "team" /\ pc' = "job" /\ available' = FALSE
  /\ \/ ~ plugin /\ Admitted /\ UNCHANGED faults
     \/ plugin /\ Fails
  /\ UNCHANGED <<crumb, queueUri, reported, jenkinsVars>>

(* Mutant of Submitted: the item is taken for a new one.                   *)
SubmittedAnew(i) ==
  /\ Admitted /\ Accept(i, TRUE)
  /\ queueUri' = Len(items) + 1 /\ pc' = "item"
  /\ UNCHANGED <<crumb, reported, plugin, issuer, session, faults>>

Submitted(i) ==
  /\ Admitted /\ Accept(i, TRUE)
  /\ queueUri' = i /\ pc' = "item"
  /\ UNCHANGED <<crumb, reported, plugin, issuer, session, faults>>

TeamSubmitted(i) ==
  /\ pc = "team" /\ plugin
  /\ Submitted(i) /\ available' = TRUE

JobSubmitted(i) ==
  /\ pc = "job"
  /\ Submitted(i) /\ UNCHANGED available

(* A POST that is reset, before Jenkins has accepted the job or after.     *)
SubmitReset ==
  /\ pc \in {"team", "job"}
  /\ Fails /\ TryAgain
  /\ \/ UNCHANGED items
     \/ /\ Admitted /\ (pc = "team" => plugin)
        /\ \E i \in 1 .. Len(items) + 1 : Accept(i, FALSE)
  /\ UNCHANGED <<plugin, issuer, session>>

SubmitRefused ==
  /\ pc \in {"team", "job"}
  /\ \/ Refused
     \/ ~ Admitted /\ Reject /\ UNCHANGED faults

(* Mutant of ItemWaits: a reset repeats the round here too.                *)
ItemRepeated ==
  /\ pc = "item"
  /\ Fails /\ TryAgain
  /\ UNCHANGED jenkinsVars

(* createRootJob: an item that waits is read again, as is one whose answer *)
(* is reset; both leave everything as it is.                               *)
ItemWaits ==
  /\ pc = "item"
  /\ Fails
  /\ UNCHANGED <<taskVars, jenkinsVars>>

RootCreated ==
  /\ pc = "item" /\ items[queueUri].state = "started"
  /\ pc' = "tracking"
  /\ UNCHANGED <<crumb, available, queueUri, reported, jenkinsVars, faults>>

(* Mutant of ItemLost: cancelled is not looked at.                         *)
ItemForgotten ==
  /\ pc = "item"
  /\ \/ items[queueUri].state = "forgotten" /\ Reject /\ UNCHANGED faults
     \/ Refused

ItemLost ==
  /\ pc = "item"
  /\ \/ items[queueUri].state \in {"cancelled", "forgotten"} /\ Reject /\ UNCHANGED faults
     \/ Refused

Task ==
  \/ CrumbReceived \/ CrumbReset \/ CrumbRefused \/ TeamMissing
  \/ SubmitReset \/ SubmitRefused \/ ItemWaits \/ RootCreated \/ ItemLost
  \/ \E i \in 1 .. Len(items) + 1 : TeamSubmitted(i) \/ JobSubmitted(i)

Jenkins == Restart \/ \E i \in DOMAIN items : LeaveQueue(i) \/ Forget(i)

Next == Task \/ Jenkins

Spec == Init /\ [][Next]_vars

(* Answers come, and no item waits for ever.                               *)
FairSpec == Spec /\ WF_vars(Task) /\ WF_vars(\E i \in DOMAIN items : LeaveQueue(i))

------------------------------------------------------------------------------
(* Properties.                                                             *)

(* "no queueUri yet, but no failure either, so keep trying": a round that  *)
(* is repeated may leave builds behind, but only builds the task was never *)
(* told of; the one it was told of is the one it follows.                  *)
OneBuildFollowed == \A i \in DOMAIN items : items[i].answered => i = queueUri

(* Once a failure is reported nothing more is submitted, and the tracker   *)
(* does not start.                                                         *)
NothingAfterFailure ==
  [][reported => Len(items') = Len(items) /\ pc' # "tracking"]_vars

(* The task always comes to a root build or to a failure.                  *)
EventuallyDecided == <>(pc \in {"tracking", "failed"})
=============================================================================
