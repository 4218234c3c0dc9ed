------------------------ MODULE WaitForTriggeredBuilds ------------------------
(***************************************************************************)
(* The WaitForTriggeredBuildsXPlat task (waitForTriggeredBuilds.ts): every *)
(* five seconds it asks the server for each build of its wait list, and    *)
(* reports a result when the list is empty, a build has failed or the time *)
(* is over; then it cancels the builds that are left.                      *)
(*                                                                         *)
(* The flag running is to hold the next poll back until the last one is    *)
(* answered, but the first of its answers clears it: polls overlap, and an *)
(* answer can be older than one that came before it.  The requests for a   *)
(* build are kept in two counters: one sent while the build ran ("early")  *)
(* may have been read before or after its end, and can answer either way.  *)
(***************************************************************************)
EXTENDS Naturals, Sequences, FiniteSets

CONSTANTS
  Build,           \* the triggered builds to wait for
  Outcomes,        \* how each build can end without this task
  Timed,           \* the values of "a timeout is given"
  Cancelling,      \* the input cancellingOnError
  FaultKinds,      \* requests that can fail, each kind once
  MaxFaults,       \* bound on failing requests
  MaxAsked,        \* bound on outstanding requests for a build
  MaxCalls         \* bound on overlapping calls of cancellingBuilds

ASSUME WaitAssumption ==
  /\ Outcomes \in [Build -> SUBSET {"Succeeded", "PartiallySucceeded", "Failed", "Canceled"}]
  /\ Timed \subseteq BOOLEAN /\ Cancelling \in BOOLEAN
  /\ FaultKinds \subseteq {"connect", "get", "timeline", "update"}
  /\ MaxFaults \in Nat
  /\ MaxAsked \in Nat \ {0} /\ MaxCalls \in Nat \ {0}

VARIABLES
  outcome,     \* the server: how a build ended, "None" while it runs
  cancelled,   \* the server: builds a cancellation was accepted for
  expired,     \* the timeout date has passed
  timed,       \* there is a timeout date
  waitList,    \* buildsWaitList; "absent" for a deleted key
  running,     \* no poll is to be sent
  interval,    \* timer is set
  resultState,
  early,       \* early[b]: getBuild requests sent while the build ran
  late,        \* late[b]: getBuild requests sent after its end
  timelines,   \* timelines[b]: outstanding getBuildTimeline requests
  calls,       \* the calls of cancellingBuilds, each with its requests
  verdict,     \* what setResult reported
  faults       \* the kinds of requests that have failed

serverVars == <<outcome, cancelled, expired, timed>>
pollVars   == <<early, late, timelines>>
endVars    == <<interval, calls, verdict>>
vars == <<serverVars, waitList, running, resultState, pollVars, endVars, faults>>

Ends == {"Succeeded", "PartiallySucceeded", "Failed", "Canceled"}
Status == {"InProgress", "Completed"}
Listed == Status \cup {"All"}
Good == {"Succeeded", "PartiallySucceeded"}

(* One build in a call of cancellingBuilds: "lost" if no answer will come. *)
Request == {"none", "sent", "done", "failed", "lost"}

TypeOK ==
  /\ outcome \in [Build -> Ends \cup {"None"}]
  /\ cancelled \subseteq Build
  /\ expired \in BOOLEAN /\ timed \in BOOLEAN
  /\ waitList \in [Build -> Listed \cup {"absent"}]
  /\ running \in BOOLEAN /\ interval \in BOOLEAN
  /\ resultState \in {"Succeeded", "Failed"}
  /\ early \in [Build -> Nat] /\ late \in [Build -> Nat]
  /\ timelines \in [Build -> Nat]
  /\ calls \in Seq([Build -> Request])
  /\ verdict \in {"none", "Succeeded", "Failed"}
  /\ faults \subseteq FaultKinds

Waiting == {b \in Build : waitList[b] # "absent"}

Init ==
  /\ outcome = [b \in Build |-> "None"]
  /\ cancelled = {}
  /\ expired = FALSE
  /\ timed \in Timed
  /\ waitList = [b \in Build |-> "All"]
  /\ running = FALSE
  /\ interval = TRUE
  /\ resultState = "Succeeded"
  /\ early = [b \in Build |-> 0] /\ late = [b \in Build |-> 0]
  /\ timelines = [b \in Build |-> 0]
  /\ calls = <<>>
  /\ verdict = "none"
  /\ faults = {}
-----------------------------------------------------------------------------
(* The server. *)

Finish(b) ==
  /\ outcome[b] = "None"
  /\ \E r \in Outcomes[b] \cup (IF b \in cancelled THEN {"Canceled"} ELSE {}) :
       outcome' = [outcome EXCEPT ![b] = r]
  /\ UNCHANGED <<cancelled, expired, timed, waitList, running, resultState, pollVars,
                 endVars, faults>>

Expire ==
  /\ timed /\ ~expired
  /\ expired' = TRUE
  /\ UNCHANGED <<outcome, cancelled, timed, waitList, running, resultState, pollVars,
                 endVars, faults>>

Fault(kind) ==
  /\ kind \in FaultKinds \ faults
  /\ Cardinality(faults) < MaxFaults
  /\ faults' = faults \cup {kind}
-----------------------------------------------------------------------------
(* The interval. *)

\* Mutant: the interval goes on after the result.
KeepInterval == interval' = interval
ClearInterval == interval' = FALSE

SetResult(r) == verdict' = r /\ ClearInterval

(* cancellingBuilds, and what its promise leads to: with nothing to cancel  *)
(* the result is set in the same callback.                                  *)
CancelBuilds(r) ==
  IF Cancelling /\ Waiting # {}
  THEN /\ Len(calls) < MaxCalls
       /\ calls' = Append(calls, [b \in Build |-> IF b \in Waiting THEN "sent" ELSE "none"])
       /\ UNCHANGED <<interval, verdict>>
  ELSE SetResult(r) /\ UNCHANGED calls

Poll ==
  /\ \A b \in Waiting : early[b] + late[b] + timelines[b] < MaxAsked
  /\ early' = [b \in Build |-> IF b \in Waiting /\ outcome[b] = "None" THEN early[b] + 1 ELSE early[b]]
  /\ late' = [b \in Build |-> IF b \in Waiting /\ outcome[b] # "None" THEN late[b] + 1 ELSE late[b]]

Tick ==
  /\ interval /\ ~running
  /\ running' = TRUE
  /\ \/ /\ expired
        /\ resultState' = "Failed"
        /\ CancelBuilds("Failed") /\ UNCHANGED <<early, late>>
     \/ /\ ~expired
        /\ resultState = "Failed" \/ Waiting = {}
        /\ CancelBuilds(resultState) /\ UNCHANGED <<resultState, early, late>>
     \/ /\ ~expired /\ resultState # "Failed" /\ Waiting # {}
        /\ Poll /\ UNCHANGED <<resultState, endVars>>
  /\ UNCHANGED <<serverVars, waitList, timelines, faults>>
-----------------------------------------------------------------------------
(* The answers of a poll. *)

\* Mutant: the builds left get the status None.
RemovedToNone(b) == [c \in Build |-> IF c \in Waiting \ {b} THEN "None" ELSE "absent"]
(* The build is deleted from the list, and every other one is news again. *)
Removed(b) == [c \in Build |-> IF c \in Waiting \ {b} THEN "All" ELSE "absent"]

\* Mutant: any news of a build is taken for its end.
OverOnNews(b, s) == TRUE
Over(b, s) == s = "Completed"

EarlyReceived(b) == early[b] > 0 /\ early' = [early EXCEPT ![b] = @ - 1] /\ UNCHANGED late
LateReceived(b) == late[b] > 0 /\ late' = [late EXCEPT ![b] = @ - 1] /\ UNCHANGED early

Deliver(b, s) ==
  /\ \/ s = "InProgress" /\ EarlyReceived(b)
     \/ s = "Completed" /\ outcome[b] # "None" /\ (EarlyReceived(b) \/ LateReceived(b))
  /\ \/ /\ waitList[b] = s
        /\ UNCHANGED <<waitList, timelines>>
     \/ /\ waitList[b] # s /\ ~Over(b, s)
        /\ waitList' = [waitList EXCEPT ![b] = s]
        /\ UNCHANGED timelines
     \/ /\ waitList[b] # s /\ Over(b, s) /\ outcome[b] = "Succeeded"
        /\ waitList' = Removed(b)
        /\ UNCHANGED timelines
     \/ /\ waitList[b] # s /\ Over(b, s) /\ outcome[b] # "Succeeded"
        /\ waitList' = [waitList EXCEPT ![b] = s]
        /\ timelines' = [timelines EXCEPT ![b] = @ + 1]
  /\ running' = FALSE
  /\ UNCHANGED <<serverVars, resultState, endVars, faults>>

RunningAfterFailure == FALSE

(* getBuild fails, or the connection for it, which nothing catches. *)
LoseAnswer(b) ==
  /\ EarlyReceived(b) \/ LateReceived(b)
  /\ \/ Fault("get") /\ running' = RunningAfterFailure
     \/ Fault("connect") /\ UNCHANGED running
  /\ UNCHANGED <<serverVars, waitList, resultState, timelines, endVars>>

\* Mutant: a build somebody cancelled is not a failure.
FailsUnlessCanceled(r) == r = "Failed"
Fails(r) == r \notin Good

Timeline(b) ==
  /\ timelines[b] > 0
  /\ timelines' = [timelines EXCEPT ![b] = @ - 1]
  /\ \/ /\ waitList' = Removed(b)
        /\ resultState' = IF Fails(outcome[b]) THEN "Failed" ELSE resultState
        /\ UNCHANGED faults
     \/ /\ Fault("timeline")
        /\ UNCHANGED <<waitList, resultState>>
  /\ UNCHANGED <<serverVars, running, early, late, endVars>>
-----------------------------------------------------------------------------
(* The requests of a call of cancellingBuilds. *)

\* Mutant: the first build that is cancelled settles the call.
SettledByAny(call) == \E b \in Build : call[b] \in {"done", "failed"}
Settled(call) ==
  \/ \E b \in Build : call[b] = "failed"
  \/ \A b \in Build : call[b] \in {"none", "done"}

Advance(i, b, to) ==
  /\ calls' = [calls EXCEPT ![i][b] = to]
  /\ IF Settled(calls'[i]) /\ ~Settled(calls[i])
     THEN SetResult(resultState)
     ELSE UNCHANGED <<interval, verdict>>

(* The build is read, then written back as cancelling; the server may       *)
(* refuse to cancel what is over.                                           *)
Cancel(i, b) ==
  /\ calls[i][b] = "sent"
  /\ \/ /\ Advance(i, b, "done")
        /\ cancelled' = IF outcome[b] = "None" THEN cancelled \cup {b} ELSE cancelled
        /\ UNCHANGED faults
     \/ /\ outcome[b] # "None"
        /\ Advance(i, b, "failed") /\ UNCHANGED <<cancelled, faults>>
     \/ /\ Fault("update")
        /\ Advance(i, b, "failed") /\ UNCHANGED cancelled
     \/ /\ Fault("connect")
        /\ Advance(i, b, "lost") /\ UNCHANGED cancelled
  /\ UNCHANGED <<outcome, expired, timed, waitList, running, resultState, pollVars>>
-----------------------------------------------------------------------------
Reply(b) ==
  \/ LoseAnswer(b) \/ Timeline(b)
  \/ \E s \in Status : Deliver(b, s)
  \/ \E i \in DOMAIN calls : Cancel(i, b)

Next ==
  \/ Expire \/ Tick
  \/ \E b \in Build : Finish(b) \/ Reply(b)

Spec == Init /\ [][Next]_vars

(* Time passes, requests are answered, and builds end. *)
Fairness ==
  /\ WF_vars(Expire) /\ WF_vars(Tick)
  /\ \A b \in Build :
       /\ WF_vars(Finish(b)) /\ WF_vars(Timeline(b))
       /\ WF_vars(\E s \in Status : Deliver(b, s))
       /\ WF_vars(\E i \in DOMAIN calls : Cancel(i, b))

FairSpec == Spec /\ Fairness
-----------------------------------------------------------------------------
(* Properties. *)

(* The task succeeds only when every build it waits for has ended well: a   *)
(* late or repeated answer never hides a failure.                           *)
SuccessIsEarned == verdict = "Succeeded" => \A b \in Build : outcome[b] \in Good

(* A build leaves the wait list only when it is over, in spite of answers   *)
(* that overtake each other.                                                *)
RemovedIsOver == \A b \in Build : waitList[b] = "absent" => outcome[b] # "None"

(* With cancellingOnError the task does not report a failure before every   *)
(* build of the chain is over or being cancelled, unless a request for that *)
(* failed.                                                                  *)
ChainIsCancelled ==
  /\ verdict = "Failed" /\ Cancelling
  /\ \A i \in DOMAIN calls : \A b \in Build : calls[i][b] # "failed"
  => \A b \in Build : outcome[b] # "None" \/ b \in cancelled

(* Polls and cancellations that overlap never change what was reported. *)
VerdictStands == [][verdict # "none" => verdict' = verdict]_vars
=============================================================================
