--------------------- MODULE TriggerAnotherBuild_proof ----------------------
(***************************************************************************)
(* The safety of WaitForTriggeredBuilds, for any builds, any ends of them, *)
(* any requests that fail, and any number of overlapping polls and calls   *)
(* of cancellingBuilds.  Then the safety of the job of                     *)
(* TriggerAnotherBuild, for any builds in any order, any inputs of the     *)
(* steps, and any requests that fail: of the steps that trigger builds,    *)
(* and of the wait for those they register, which the lemmas about the     *)
(* wait deal with.                                                         *)
(***************************************************************************)
EXTENDS TriggerAnotherBuild, SequenceTheorems, TLAPS

(* The list L of builds is the whole of Build when the task runs by itself, *)
(* and what the steps of a job have registered when they trigger it.        *)

(* A deleted build is over, and if it did not end well the task will fail. *)
RemovedIsJudged(L) ==
  \A b \in L : waitList[b] = "absent" =>
    outcome[b] # "None" /\ (outcome[b] \in Good \/ resultState = "Failed")

(* Timelines are read of builds that are over. *)
TimelineOfOver == \A b \in Build : timelines[b] > 0 => outcome[b] # "None"

(* Builds are cancelled only for a failure, which is then the result.  *)
CancelIsFailure ==
  calls # <<>> => resultState = "Failed" /\ verdict # "Succeeded"

(* The first result ends the interval. *)
VerdictEnds == verdict # "none" => ~interval

(* What has become of the builds of a call. *)
CallCovers(L) ==
  \A i \in DOMAIN calls : \A b \in L :
    /\ calls[i][b] = "none" => outcome[b] # "None"
    /\ calls[i][b] = "done" => outcome[b] # "None" \/ b \in cancelled

(* SuccessIsEarned and ChainIsCancelled, for the builds of L. *)
EarnedOn(L) == verdict = "Succeeded" => \A b \in L : outcome[b] \in Good

CancelledOn(L) ==
  /\ verdict = "Failed" /\ Cancelling
  /\ \A i \in DOMAIN calls : \A b \in Build : calls[i][b] # "failed"
  => \A b \in L : outcome[b] # "None" \/ b \in cancelled

(* The inductive invariant. *)
InvOn(L) ==
  /\ TypeOK
  /\ RemovedIsJudged(L) /\ TimelineOfOver /\ CancelIsFailure /\ VerdictEnds /\ CallCovers(L)
  /\ EarnedOn(L) /\ CancelledOn(L)

Inv == InvOn(Build)

Stands == verdict # "none" => verdict' = verdict
Step(L) == InvOn(L)' /\ Stands
-----------------------------------------------------------------------------
LEMMA InvInit == Init => Inv
<1> SUFFICES ASSUME Init PROVE Inv
  OBVIOUS
<1>1. calls = <<>> /\ calls \in Seq([Build -> Request])
  BY DEF Init
<1>2. TypeOK
  BY <1>1, WaitAssumption DEF Init, TypeOK, Listed
<1>3. QED
  BY <1>1, <1>2 DEF Init, Inv, InvOn, RemovedIsJudged, TimelineOfOver, CancelIsFailure, VerdictEnds,
     CallCovers, EarnedOn, CancelledOn
-----------------------------------------------------------------------------
LEMMA ServerStep ==
  ASSUME NEW L \in SUBSET Build, InvOn(L), Expire \/ \E b \in Build : Finish(b)
  PROVE  Step(L)
<1>1. /\ UNCHANGED <<cancelled, timed, waitList, running, resultState, pollVars, endVars, faults>>
      /\ \A c \in Build : outcome[c] # "None" => outcome'[c] = outcome[c]
  BY DEF Finish, Expire, InvOn, TypeOK
<1>2. outcome' \in [Build -> Ends \cup {"None"}] /\ expired' \in BOOLEAN
  BY WaitAssumption DEF Finish, Expire, InvOn, TypeOK, Ends
<1>3. TypeOK'
  BY <1>1, <1>2 DEF InvOn, TypeOK, pollVars, endVars
<1>4. EarnedOn(L)'
  BY <1>1 DEF InvOn, EarnedOn, Good, endVars
<1>5. CancelledOn(L)' /\ CallCovers(L)'
  BY <1>1 DEF InvOn, CancelledOn, CallCovers, endVars
<1>6. (RemovedIsJudged(L) /\ TimelineOfOver /\ CancelIsFailure /\ VerdictEnds)' /\ Stands
  BY <1>1 DEF InvOn, RemovedIsJudged, TimelineOfOver, CancelIsFailure, VerdictEnds, Stands,
     pollVars, endVars
<1>7. QED
  BY <1>3, <1>4, <1>5, <1>6 DEF Step, InvOn

LEMMA DeliverStep ==
  ASSUME NEW L \in SUBSET Build, InvOn(L), NEW b \in Build, NEW s \in Status, Deliver(b, s)
  PROVE  Step(L)
<1>1. UNCHANGED <<serverVars, resultState, endVars, faults>> /\ running' \in BOOLEAN
  BY DEF Deliver
<1>2. early' \in [Build -> Nat] /\ late' \in [Build -> Nat]
  <2>1. EarlyReceived(b) \/ LateReceived(b)
    BY DEF Deliver
  <2>2. early \in [Build -> Nat] /\ late \in [Build -> Nat]
    BY DEF InvOn, TypeOK
  <2>3. CASE EarlyReceived(b)
    BY <2>2, <2>3 DEF EarlyReceived
  <2>4. CASE LateReceived(b)
    BY <2>2, <2>4 DEF LateReceived
  <2>5. QED
    BY <2>1, <2>3, <2>4
<1>3. \/ waitList' = waitList
      \/ waitList' = [waitList EXCEPT ![b] = s]
      \/ waitList' = Removed(b) /\ outcome[b] = "Succeeded"
  BY DEF Deliver
<1>4. timelines' = timelines \/ timelines' = [timelines EXCEPT ![b] = @ + 1]
  BY DEF Deliver
<1>5. waitList \in [Build -> Listed \cup {"absent"}] /\ timelines \in [Build -> Nat]
  BY DEF InvOn, TypeOK
<1>6. /\ waitList' \in [Build -> Listed \cup {"absent"}]
      /\ \A c \in Build : waitList'[c] = "absent" =>
           waitList[c] = "absent" \/ outcome[c] = "Succeeded"
  <2>1. CASE waitList' = [waitList EXCEPT ![b] = s]
    BY <1>5, <2>1 DEF Listed, Status
  <2>2. CASE waitList' = Removed(b) /\ outcome[b] = "Succeeded"
    BY <1>5, <2>2 DEF Removed, Waiting, Listed
  <2>3. QED
    BY <1>3, <1>5, <2>1, <2>2
<1>7. \A c \in Build : timelines'[c] > 0 => timelines[c] > 0 \/ outcome[c] # "None"
  BY DEF Deliver, Over, InvOn, TypeOK, Status
<1>8. TypeOK'
  <2>1. timelines' \in [Build -> Nat]
    BY <1>4, <1>5
  <2>2. QED
    BY <1>1, <1>2, <1>6, <2>1 DEF InvOn, TypeOK, serverVars, endVars
<1>9. RemovedIsJudged(L)' /\ TimelineOfOver'
  BY <1>1, <1>6, <1>7 DEF InvOn, RemovedIsJudged, TimelineOfOver, Good, serverVars
<1>10. (CancelIsFailure /\ VerdictEnds /\ CallCovers(L) /\ EarnedOn(L) /\ CancelledOn(L))' /\ Stands
  BY <1>1 DEF InvOn, CancelIsFailure, VerdictEnds, CallCovers, EarnedOn,
     CancelledOn, Stands, serverVars, endVars
<1>11. QED
  BY <1>8, <1>9, <1>10 DEF Step, InvOn

LEMMA LoseAnswerStep ==
  ASSUME NEW L \in SUBSET Build, InvOn(L), NEW b \in Build, LoseAnswer(b)
  PROVE  Step(L)
<1>1. UNCHANGED <<serverVars, waitList, resultState, timelines, endVars>> /\ running' \in BOOLEAN
  BY DEF LoseAnswer, RunningAfterFailure, InvOn, TypeOK
<1>2. early' \in [Build -> Nat] /\ late' \in [Build -> Nat]
  BY DEF LoseAnswer, EarlyReceived, LateReceived, InvOn, TypeOK
<1>3. faults' \subseteq FaultKinds
  BY DEF LoseAnswer, Fault, InvOn, TypeOK
<1>4. QED
  BY <1>1, <1>2, <1>3 DEF Step, InvOn, TypeOK, RemovedIsJudged, TimelineOfOver, CancelIsFailure,
     VerdictEnds, CallCovers, EarnedOn, CancelledOn, Stands, serverVars, endVars

LEMMA TimelineStep ==
  ASSUME NEW L \in SUBSET Build, InvOn(L), NEW b \in Build, Timeline(b)
  PROVE  Step(L)
<1>1. UNCHANGED <<serverVars, running, early, late, endVars>>
  BY DEF Timeline
<1>2. waitList' = waitList \/ waitList' = Removed(b)
  BY DEF Timeline
<1>3. waitList' \in [Build -> Listed \cup {"absent"}]
  BY <1>2 DEF Removed, InvOn, TypeOK, Listed
<1>4. resultState' \in {"Succeeded", "Failed"} /\ (resultState = "Failed" => resultState' = "Failed")
  BY DEF Timeline, InvOn, TypeOK
<1>5. timelines' \in [Build -> Nat] /\ \A c \in Build : timelines'[c] > 0 => timelines[c] > 0
  BY DEF Timeline, InvOn, TypeOK
<1>6. TypeOK'
  BY <1>1, <1>3, <1>4, <1>5 DEF Timeline, Fault, InvOn, TypeOK, serverVars, endVars
<1>7. outcome[b] # "None"
  BY DEF Timeline, InvOn, TimelineOfOver
<1>8. RemovedIsJudged(L)'
  <2>1. CASE waitList' = waitList
    BY <1>1, <1>4, <2>1 DEF InvOn, RemovedIsJudged, serverVars
  <2>2. CASE waitList' = Removed(b) /\ waitList' # waitList
    <3>1. resultState' = IF Fails(outcome[b]) THEN "Failed" ELSE resultState
      BY <2>2 DEF Timeline
    <3>2. \A c \in Build : waitList'[c] = "absent" => waitList[c] = "absent" \/ c = b
      BY <2>2 DEF Removed, Waiting
    <3>3. QED
      BY <1>1, <1>4, <1>7, <3>1, <3>2 DEF Fails, InvOn, RemovedIsJudged, serverVars
  <2>3. QED
    BY <1>2, <2>1, <2>2
<1>9. (TimelineOfOver /\ CancelIsFailure)'
  BY <1>1, <1>4, <1>5 DEF InvOn, TimelineOfOver, CancelIsFailure, serverVars, endVars
<1>10. (VerdictEnds /\ CallCovers(L) /\ EarnedOn(L) /\ CancelledOn(L))' /\ Stands
  BY <1>1 DEF InvOn, VerdictEnds, CallCovers, EarnedOn, CancelledOn, Stands,
     serverVars, endVars
<1>11. QED
  BY <1>6, <1>8, <1>9, <1>10 DEF Step, InvOn
-----------------------------------------------------------------------------
(* What setting the result has to meet. *)
LEMMA SetResultStep ==
  ASSUME NEW L \in SUBSET Build, InvOn(L), NEW r \in {"Succeeded", "Failed"}, CancelBuilds(r),
         r = "Succeeded" => Waiting = {}, r = "Failed" => resultState' = "Failed",
         r = "Succeeded" => resultState' = resultState /\ resultState # "Failed", interval,
         UNCHANGED <<serverVars, waitList, timelines, faults>>
  PROVE  /\ (CancelIsFailure /\ VerdictEnds /\ CallCovers(L) /\ EarnedOn(L) /\ CancelledOn(L))'
         /\ Stands
         /\ calls' \in Seq([Build -> Request])
         /\ interval' \in BOOLEAN /\ verdict' \in {"none", "Succeeded", "Failed"}
<1>0. verdict = "none"
  BY DEF InvOn, VerdictEnds
<1>1. CASE Cancelling /\ Waiting # {}
  <2> DEFINE call == [b \in Build |-> IF b \in Waiting THEN "sent" ELSE "none"]
  <2>1. calls' = Append(calls, call) /\ UNCHANGED <<interval, verdict>> /\ r = "Failed"
    BY <1>1 DEF CancelBuilds
  <2>2. call \in [Build -> Request]
    BY DEF Request
  <2>3. calls \in Seq([Build -> Request])
    BY DEF InvOn, TypeOK
  <2> HIDE DEF call
  <2>4. /\ calls' \in Seq([Build -> Request])
        /\ Len(calls') = Len(calls) + 1
        /\ \A i \in 1..Len(calls) : calls'[i] = calls[i]
        /\ calls'[Len(calls) + 1] = call
    BY <2>1, <2>2, <2>3, AppendProperties
  <2>5. \A i \in DOMAIN calls' : calls'[i] = call \/ (i \in DOMAIN calls /\ calls'[i] = calls[i])
    BY <2>3, <2>4
  <2>6. CallCovers(L)'
    <3>1. \A b \in Build : call[b] # "done" /\ (call[b] = "none" => waitList[b] = "absent")
      BY DEF call, Waiting
    <3>2. QED
      BY <2>5, <3>1 DEF InvOn, CallCovers, RemovedIsJudged, serverVars
  <2>7. QED
    BY <1>0, <2>1, <2>4, <2>6 DEF InvOn, TypeOK, CancelIsFailure, VerdictEnds, EarnedOn,
       CancelledOn, Stands
<1>2. CASE ~(Cancelling /\ Waiting # {})
  <2>1. verdict' = r /\ interval' = FALSE /\ UNCHANGED calls
    BY <1>2 DEF CancelBuilds, SetResult, ClearInterval
  <2>2. CallCovers(L)'
    BY <2>1 DEF InvOn, CallCovers, serverVars
  <2>3. EarnedOn(L)'
    BY <2>1 DEF InvOn, TypeOK, RemovedIsJudged, EarnedOn, Waiting, serverVars
  <2>4. CancelledOn(L)'
    BY <1>2, <2>1 DEF InvOn, RemovedIsJudged, CancelledOn, Waiting, serverVars
  <2>5. QED
    BY <1>0, <2>1, <2>2, <2>3, <2>4 DEF InvOn, TypeOK, CancelIsFailure, VerdictEnds, Stands
<1>3. QED
  BY <1>1, <1>2

LEMMA TickStep ==
  ASSUME NEW L \in SUBSET Build, InvOn(L), Tick
  PROVE  Step(L)
<1>1. interval /\ running' = TRUE /\ UNCHANGED <<serverVars, waitList, timelines, faults>>
  BY DEF Tick
<1>2. CASE /\ ~expired /\ resultState # "Failed" /\ Waiting # {}
           /\ Poll /\ UNCHANGED <<resultState, endVars>>
  <2>1. early' \in [Build -> Nat] /\ late' \in [Build -> Nat]
    BY <1>2 DEF Poll, InvOn, TypeOK
  <2>2. QED
    BY <1>1, <1>2, <2>1 DEF Step, InvOn, TypeOK, RemovedIsJudged, TimelineOfOver,
       CancelIsFailure, VerdictEnds, CallCovers, EarnedOn, CancelledOn, Stands,
       serverVars, endVars
<1>3. ASSUME NEW r \in {"Succeeded", "Failed"}, CancelBuilds(r), resultState' = r,
             r # resultState => r = "Failed", r = "Succeeded" => Waiting = {},
             UNCHANGED <<early, late>>
      PROVE  Step(L)
  <2>1. /\ (CancelIsFailure /\ VerdictEnds /\ CallCovers(L) /\ EarnedOn(L) /\ CancelledOn(L))'
        /\ Stands
        /\ calls' \in Seq([Build -> Request])
        /\ interval' \in BOOLEAN /\ verdict' \in {"none", "Succeeded", "Failed"}
    BY <1>1, <1>3, SetResultStep
  <2>2. TypeOK'
    BY <1>1, <1>3, <2>1 DEF InvOn, TypeOK, serverVars
  <2>3. RemovedIsJudged(L)' /\ TimelineOfOver'
    BY <1>1, <1>3 DEF InvOn, RemovedIsJudged, TimelineOfOver, serverVars
  <2>4. QED
    BY <2>1, <2>2, <2>3 DEF Step, InvOn
<1>4. \/ CancelBuilds("Failed") /\ resultState' = "Failed" /\ UNCHANGED <<early, late>>
      \/ /\ resultState = "Failed" \/ Waiting = {}
         /\ CancelBuilds(resultState) /\ UNCHANGED <<resultState, early, late>>
      \/ /\ ~expired /\ resultState # "Failed" /\ Waiting # {}
         /\ Poll /\ UNCHANGED <<resultState, endVars>>
  BY DEF Tick
<1>5. resultState \in {"Succeeded", "Failed"}
  BY DEF InvOn, TypeOK
<1>6. QED
  BY <1>2, <1>3, <1>4, <1>5
-----------------------------------------------------------------------------
LEMMA CancelStep ==
  ASSUME NEW L \in SUBSET Build, InvOn(L), NEW b \in Build, NEW i \in DOMAIN calls, Cancel(i, b)
  PROVE  Step(L)
<1>1. PICK t \in {"done", "failed", "lost"} :
        /\ Advance(i, b, t)
        /\ t = "done" => outcome[b] # "None" \/ b \in cancelled'
  BY DEF Cancel
<1>2. /\ UNCHANGED <<outcome, expired, timed, waitList, running, resultState, pollVars>>
      /\ cancelled \subseteq cancelled' /\ cancelled' \subseteq Build /\ faults' \subseteq FaultKinds
  BY DEF Cancel, Fault, InvOn, TypeOK
<1>3. calls \in Seq([Build -> Request]) /\ calls[i] \in [Build -> Request]
  BY ElementOfSeq DEF InvOn, TypeOK
<1> DEFINE call == [calls[i] EXCEPT ![b] = t]
<1>4. call \in [Build -> Request]
  BY <1>3 DEF Request
<1>5. calls' = [calls EXCEPT ![i] = call]
  BY <1>1 DEF Advance
<1>6. /\ \A c \in Build : call[c] = IF c = b THEN t ELSE calls[i][c]
      /\ calls[i][b] = "sent"
  BY <1>3 DEF Cancel
<1> HIDE DEF call
<1>7. /\ calls' \in Seq([Build -> Request]) /\ DOMAIN calls' = DOMAIN calls
      /\ \A j \in DOMAIN calls : calls'[j] = IF j = i THEN call ELSE calls[j]
  <2>1. i \in 1..Len(calls) /\ DOMAIN calls = 1..Len(calls)
    BY <1>3
  <2>2. QED
    BY <1>3, <1>4, <1>5, <2>1, ExceptSeq
<1>8. resultState = "Failed" /\ verdict # "Succeeded"
  <2>1. calls # <<>>
    OBVIOUS
  <2>2. QED
    BY <2>1 DEF InvOn, CancelIsFailure
<1>9. \/ Settled(call) /\ verdict' = "Failed" /\ interval' = FALSE
      \/ UNCHANGED <<interval, verdict>>
  BY <1>1, <1>7, <1>8 DEF Advance, SetResult, ClearInterval
<1>10. CallCovers(L)'
  BY <1>1, <1>2, <1>6, <1>7 DEF InvOn, CallCovers
<1>11. TypeOK'
  BY <1>2, <1>7, <1>9 DEF InvOn, TypeOK, pollVars
<1>12. CancelledOn(L)'
  <2>1. CASE Settled(call) /\ verdict' = "Failed"
    BY <1>7, <1>10, <2>1 DEF Settled, CancelledOn, CallCovers
  <2>2. CASE verdict' = verdict
    <3>1. \A j \in DOMAIN calls : \A c \in Build : calls[j][c] = "failed" => calls'[j][c] = "failed"
      BY <1>6, <1>7
    <3>2. QED
      BY <1>2, <1>7, <2>2, <3>1 DEF InvOn, CancelledOn
  <2>3. QED
    BY <1>9, <2>1, <2>2
<1>13. (RemovedIsJudged(L) /\ TimelineOfOver)'
  BY <1>2 DEF InvOn, RemovedIsJudged, TimelineOfOver, pollVars
<1>14. (CancelIsFailure /\ VerdictEnds /\ EarnedOn(L))' /\ Stands
  BY <1>2, <1>8, <1>9 DEF InvOn, TypeOK, CancelIsFailure, VerdictEnds, EarnedOn, Stands
<1>15. QED
  BY <1>10, <1>11, <1>12, <1>13, <1>14 DEF Step, InvOn
-----------------------------------------------------------------------------
LEMMA InvNext ==
  ASSUME NEW L \in SUBSET Build, InvOn(L), [Next]_vars
  PROVE  Step(L)
<1>1. CASE UNCHANGED vars
  <2>1. InvOn(L)'
    BY <1>1 DEF InvOn, TypeOK, RemovedIsJudged, TimelineOfOver, CancelIsFailure, VerdictEnds,
       CallCovers, EarnedOn, CancelledOn, vars, serverVars, pollVars, endVars
  <2>2. QED
    BY <1>1, <2>1 DEF Step, Stands, vars, endVars
<1>2. CASE Expire
  BY <1>2, ServerStep
<1>3. CASE Tick
  BY <1>3, TickStep
<1>4. ASSUME NEW b \in Build, Finish(b)
      PROVE  Step(L)
  BY <1>4, ServerStep
<1>5. ASSUME NEW b \in Build, Reply(b)
      PROVE  Step(L)
  BY <1>5, LoseAnswerStep, TimelineStep, DeliverStep, CancelStep DEF Reply
<1>6. QED
  BY <1>1, <1>2, <1>3, <1>4, <1>5 DEF Next

LEMMA Safe == Spec => []Inv
<1>1. Inv /\ [Next]_vars => Inv'
  BY InvNext DEF Inv, Step
<1>2. QED
  BY <1>1, InvInit, PTL DEF Spec

(* Every variable keeps its type, however many requests are outstanding.    *)
THEOREM TypeCorrect == Spec => []TypeOK
<1>1. Inv => TypeOK
  BY DEF Inv, InvOn
<1>2. QED
  BY <1>1, Safe, PTL

(* The task reports success only when every build of its list has ended     *)
(* well, whatever the order in which the answers of overlapping polls come, *)
(* and whichever requests fail.                                             *)
THEOREM SuccessEarned == Spec => []SuccessIsEarned
<1>1. Inv => SuccessIsEarned
  BY DEF Inv, InvOn, EarnedOn, SuccessIsEarned
<1>2. QED
  BY <1>1, Safe, PTL

(* No stale answer takes a running build from the wait list.                *)
THEOREM RemovedOver == Spec => []RemovedIsOver
<1>1. Inv => RemovedIsOver
  BY DEF Inv, InvOn, RemovedIsJudged, RemovedIsOver
<1>2. QED
  BY <1>1, Safe, PTL

(* With cancellingOnError, a failure is reported only when each build is    *)
(* over or being cancelled, or a request for a cancellation has failed.     *)
THEOREM ChainCancelled == Spec => []ChainIsCancelled
<1>1. Inv => ChainIsCancelled
  BY DEF Inv, InvOn, CancelledOn, ChainIsCancelled
<1>2. QED
  BY <1>1, Safe, PTL

(* The first result the task reports is the only one, in spite of calls of  *)
(* cancellingBuilds and of answers that are still to come.                  *)
THEOREM VerdictFinal == Spec => VerdictStands
<1>1. Inv /\ [Next]_vars => [Stands]_vars
  BY InvNext DEF Inv, Step
<1>2. Spec => [][Stands]_vars
  BY <1>1, Safe, PTL DEF Spec
<1>3. QED
  BY <1>2 DEF VerdictStands, Stands

-----------------------------------------------------------------------------
(* The job as a whole. *)

(* Before the wait step begins, nothing of its process is there.           *)
NotBegun ==
  ~ Begun =>
    /\ ~ interval /\ calls = << >> /\ verdict = "none"
    /\ \A b \in Build : early[b] = 0 /\ late[b] = 0 /\ timelines[b] = 0

(* A step links a build that has been queued, and polls only if it waits.  *)
StepInOrder ==
  ~ Begun =>
    /\ process.pc = "link" => This \in queued
    /\ process.timer \/ process.asked # "none" => mode[This] = "wait"

(* What it means that a step has printed a success.                        *)
ReportIsEarned ==
  \A b \in Build : "Succeeded" \in reports[b] =>
    /\ mode[b] = "register" => b \in registered
    /\ mode[b] = "wait" => outcome[b] = "Succeeded"

(* The inductive invariant; once it has begun, the wait is that for the     *)
(* builds that are registered.                                             *)
PipelineInv ==
  /\ PipelineTypeOK
  /\ NotBegun /\ StepInOrder /\ ReportIsEarned
  /\ Begun => InvOn(registered)
-----------------------------------------------------------------------------
(* Steps are builds, one each.                                             *)
LEMMA ThisIsABuild ==
  ASSUME PipelineTypeOK, ~ Begun
  PROVE  at \in 1 .. Len(Steps) /\ This \in Build
<1>1. Len(Steps) \in Nat /\ at \in 1 .. Len(Steps) + 1
  BY TriggerAssumption DEF PipelineTypeOK
<1>2. at \in 1 .. Len(Steps)
  BY <1>1 DEF Begun
<1>3. QED
  BY <1>2, TriggerAssumption, ElementOfSeq DEF This

(* The steps come first; a job without any has nothing to wait for.        *)
LEMMA InitBegins ==
  ASSUME PipelineInit, PipelineTypeOK, Begun
  PROVE  InvOn(registered)
<1>1. registered = {} /\ calls = << >> /\ verdict = "none"
  BY DEF PipelineInit
<1>2. TimelineOfOver
  BY DEF PipelineInit, TimelineOfOver
<1>3. QED
  BY <1>1, <1>2
     DEF PipelineTypeOK, InvOn, RemovedIsJudged, CancelIsFailure, VerdictEnds, CallCovers,
         EarnedOn, CancelledOn

LEMMA PipelineInitInv == PipelineInit => PipelineInv
<1> SUFFICES ASSUME PipelineInit PROVE PipelineInv
  OBVIOUS
<1>1. calls = << >> /\ calls \in Seq([Build -> Request])
  BY DEF PipelineInit
<1>2. TypeOK
  BY <1>1, WaitAssumption DEF PipelineInit, TypeOK, Listed
<1>3. process = NewProcess /\ NewProcess \in Process
  BY DEF PipelineInit, NewProcess, Process
<1>4. PipelineTypeOK
  <2>1. at = 1 /\ Len(Steps) \in Nat /\ MaxMishaps \in Nat
    BY TriggerAssumption DEF PipelineInit
  <2>2. at \in 1 .. Len(Steps) + 1
    BY <2>1
  <2>3. QED
    BY <1>2, <1>3, <2>1, <2>2 DEF PipelineInit, PipelineTypeOK
<1>5. NotBegun /\ ReportIsEarned /\ StepInOrder
  BY <1>3 DEF PipelineInit, NotBegun, ReportIsEarned, NewProcess, StepInOrder
<1>6. QED
  BY <1>4, <1>5, InitBegins DEF PipelineInv
-----------------------------------------------------------------------------
(* A triggering step leaves the variables of the wait alone, so only the   *)
(* parts of the invariant about steps have to be looked at.                *)
LEMMA StepKeeps ==
  ASSUME PipelineInv, ~ Begun, UNCHANGED <<vars, inputs>>,
         process' \in Process, registered' \subseteq queued', queued' \subseteq Build,
         reports' \in [Build -> SUBSET {"Succeeded", "Failed"}], mishaps' \in 0 .. MaxMishaps,
         StepInOrder', ReportIsEarned'
  PROVE  PipelineInv'
<1>1. TypeOK'
  BY DEF PipelineInv, PipelineTypeOK, TypeOK, vars, serverVars, pollVars, endVars
<1>2. PipelineTypeOK'
  BY <1>1 DEF PipelineInv, PipelineTypeOK, inputs
<1>3. ~ Begun' /\ NotBegun'
  BY DEF Begun, PipelineInv, NotBegun, inputs, vars, pollVars, endVars
<1>4. QED
  BY <1>2, <1>3 DEF PipelineInv

(* What a result the step prints has to meet.                              *)
LEMMA ReportKeeps ==
  ASSUME PipelineInv, ~ Begun, NEW r \in {"Succeeded", "Failed"}, ReportResult(r),
         registered \subseteq registered', UNCHANGED <<vars, inputs>>,
         r = "Succeeded" /\ mode[This] = "register" => This \in registered',
         r = "Succeeded" /\ mode[This] = "wait" => outcome[This] = "Succeeded"
  PROVE  reports' \in [Build -> SUBSET {"Succeeded", "Failed"}] /\ ReportIsEarned'
<1>1. This \in Build /\ reports \in [Build -> SUBSET {"Succeeded", "Failed"}]
  BY ThisIsABuild DEF PipelineInv, PipelineTypeOK
<1>2. reports' = [reports EXCEPT ![This] = reports[This] \cup {r}]
  BY DEF ReportResult
<1>3. \A b \in Build : "Succeeded" \in reports'[b] =>
        "Succeeded" \in reports[b] \/ (b = This /\ r = "Succeeded")
  BY <1>1, <1>2
<1>4. mode' = mode /\ outcome' = outcome
  BY DEF inputs, vars, serverVars
<1>5. ReportIsEarned'
  BY <1>3, <1>4 DEF PipelineInv, ReportIsEarned
<1>6. QED
  BY <1>1, <1>2, <1>5

LEMMA TriggerBuildStep ==
  ASSUME PipelineInv, ~ Begun, TriggerBuild
  PROVE  PipelineInv'
<1>1. /\ UNCHANGED <<vars, inputs, registered>> /\ This \in Build /\ This' = This
      /\ queued' \in {queued, queued \cup {This}} /\ mishaps' \in 0 .. MaxMishaps
  BY ThisIsABuild, TriggerAssumption
     DEF TriggerBuild, Mishap, PipelineInv, PipelineTypeOK, inputs, This
<1>2. registered' \subseteq queued' /\ queued' \subseteq Build /\ process \in Process
  BY <1>1 DEF PipelineInv, PipelineTypeOK
<1>3. CASE /\ queued' = queued \cup {This} /\ process' = [process EXCEPT !.pc = "link"]
           /\ UNCHANGED <<reports, mishaps>>
  <2>1. process' \in Process /\ process'.timer = process.timer /\ process'.asked = process.asked
    BY <1>2, <1>3 DEF Process
  <2>2. StepInOrder'
    BY <1>1, <1>3, <2>1 DEF PipelineInv, StepInOrder, Begun, inputs
  <2>3. ReportIsEarned'
    BY <1>1, <1>3 DEF PipelineInv, ReportIsEarned, inputs, vars, serverVars
  <2>4. QED
    BY <1>1, <1>2, <1>3, <2>1, <2>2, <2>3, StepKeeps DEF PipelineInv, PipelineTypeOK
<1>4. CASE NotQueued
  <2>1. process' = [process EXCEPT !.pc = "over"] /\ ReportResult("Failed")
    BY <1>4 DEF NotQueued
  <2>2. /\ process' \in Process /\ process'.pc = "over"
        /\ process'.timer = process.timer /\ process'.asked = process.asked
    BY <1>2, <2>1 DEF Process
  <2>3. StepInOrder'
    BY <1>1, <2>2 DEF PipelineInv, StepInOrder, Begun, inputs
  <2>4. reports' \in [Build -> SUBSET {"Succeeded", "Failed"}] /\ ReportIsEarned'
    BY <1>1, <2>1, ReportKeeps
  <2>5. QED
    BY <1>1, <1>2, <2>2, <2>3, <2>4, StepKeeps
<1>5. QED
  BY <1>3, <1>4 DEF TriggerBuild

LEMMA CreateLinksStep ==
  ASSUME PipelineInv, ~ Begun, CreateLinks
  PROVE  PipelineInv'
<1>1. /\ UNCHANGED <<vars, inputs, queued, mishaps>> /\ This \in Build /\ This' = This
      /\ process \in Process /\ process.pc = "link" /\ This \in queued
  BY ThisIsABuild DEF CreateLinks, PipelineInv, PipelineTypeOK, StepInOrder, inputs, This
<1>2. CASE WaitAndFinish
  <2>1. /\ process' = [process EXCEPT !.pc = "over", !.timer = (mode[This] = "wait")]
        /\ IF mode[This] = "wait" THEN UNCHANGED reports ELSE ReportResult("Succeeded")
        /\ registered' = IF mode[This] = "register" THEN registered \cup {This} ELSE registered
    BY <1>2 DEF WaitAndFinish, Register
  <2>2. /\ process' \in Process /\ process'.pc = "over"
        /\ process'.timer => mode[This] = "wait"
        /\ process'.asked = process.asked
    BY <1>1, <2>1 DEF Process
  <2>3. StepInOrder'
    BY <1>1, <2>2 DEF PipelineInv, StepInOrder, Begun, inputs
  <2>4. registered \subseteq registered' /\ registered' \subseteq queued'
    BY <1>1, <2>1 DEF PipelineInv, PipelineTypeOK
  <2>5. reports' \in [Build -> SUBSET {"Succeeded", "Failed"}] /\ ReportIsEarned'
    <3>1. CASE mode[This] = "wait"
      <4>1. reports' = reports /\ registered' = registered
        BY <2>1, <3>1
      <4>2. QED
        BY <1>1, <4>1 DEF PipelineInv, PipelineTypeOK, ReportIsEarned, inputs, vars, serverVars
    <3>2. CASE mode[This] # "wait"
      <4>1. ReportResult("Succeeded") /\ (mode[This] = "register" => This \in registered')
        BY <2>1, <3>2
      <4>2. QED
        BY <1>1, <2>4, <3>2, <4>1, ReportKeeps
    <3>3. QED
      BY <3>1, <3>2
  <2>6. QED
    BY <1>1, <2>2, <2>3, <2>4, <2>5, StepKeeps DEF PipelineInv, PipelineTypeOK
<1>3. CASE /\ process' = [process EXCEPT !.pc = "over"] /\ UNCHANGED registered
           /\ ReportResult("Failed") \/ UNCHANGED reports
  <2>1. /\ process' \in Process /\ process'.pc = "over"
        /\ process'.timer = process.timer /\ process'.asked = process.asked
    BY <1>1, <1>3 DEF Process
  <2>2. StepInOrder'
    BY <1>1, <2>1 DEF PipelineInv, StepInOrder, Begun, inputs
  <2>3. reports' \in [Build -> SUBSET {"Succeeded", "Failed"}] /\ ReportIsEarned'
    <3>1. CASE ReportResult("Failed")
      BY <1>1, <1>3, <3>1, ReportKeeps
    <3>2. CASE UNCHANGED reports
      BY <1>1, <1>3, <3>2
         DEF PipelineInv, PipelineTypeOK, ReportIsEarned, inputs, vars, serverVars
    <3>3. QED
      BY <1>3, <3>1, <3>2
  <2>4. QED
    BY <1>1, <1>3, <2>1, <2>2, <2>3, StepKeeps DEF PipelineInv, PipelineTypeOK
<1>4. QED
  BY <1>2, <1>3 DEF CreateLinks

(* The polls of a step that waits for its build by itself.                 *)
LEMMA PollStep ==
  ASSUME PipelineInv, ~ Begun, StepTick \/ StepExpires \/ StepReply
  PROVE  PipelineInv'
<1>1. /\ UNCHANGED <<vars, inputs, queued, registered>> /\ This \in Build /\ This' = This
      /\ process \in Process
  BY ThisIsABuild
     DEF StepTick, StepExpires, StepReply, StepAnswered, StepUnanswered, PipelineInv,
         PipelineTypeOK, inputs, This
<1>2. mode[This] = "wait"
  BY DEF StepTick, StepExpires, StepReply, StepAnswered, StepUnanswered, PipelineInv, StepInOrder
<1>3. /\ process' \in Process /\ process'.pc = process.pc
  BY <1>1
     DEF StepTick, StepExpires, StepReply, StepAnswered, StepUnanswered, Process
<1>4. mishaps' \in 0 .. MaxMishaps
  BY TriggerAssumption
     DEF StepTick, StepExpires, StepReply, StepAnswered, StepUnanswered, Mishap, PipelineInv,
         PipelineTypeOK
<1>5. StepInOrder'
  BY <1>1, <1>2, <1>3 DEF PipelineInv, StepInOrder, Begun, inputs
<1>6. \/ UNCHANGED reports
      \/ ReportResult("Failed")
      \/ outcome[This] = "Succeeded" /\ ReportResult("Succeeded")
  BY DEF StepTick, StepExpires, StepReply, StepAnswered, StepUnanswered
<1>7. reports' \in [Build -> SUBSET {"Succeeded", "Failed"}] /\ ReportIsEarned'
  <2>1. CASE UNCHANGED reports
    BY <1>1, <2>1 DEF PipelineInv, PipelineTypeOK, ReportIsEarned, inputs, vars, serverVars
  <2>2. CASE ReportResult("Failed")
    BY <1>1, <2>2, ReportKeeps
  <2>3. CASE outcome[This] = "Succeeded" /\ ReportResult("Succeeded")
    BY <1>1, <1>2, <2>3, ReportKeeps
  <2>4. QED
    BY <1>6, <2>1, <2>2, <2>3
<1>8. QED
  BY <1>1, <1>3, <1>4, <1>5, <1>7, StepKeeps DEF PipelineInv, PipelineTypeOK
-----------------------------------------------------------------------------
(* The variables of the wait before it begins.                             *)
LEMMA EmptyWait ==
  ASSUME TypeOK, NotBegun, ~ Begun
  PROVE  InvOn({})
BY DEF NotBegun, InvOn, RemovedIsJudged, TimelineOfOver, CancelIsFailure, VerdictEnds, CallCovers,
   EarnedOn, CancelledOn

LEMMA NextStepStep ==
  ASSUME PipelineInv, NextStep
  PROVE  PipelineInv'
<1>1. /\ UNCHANGED <<vars, mode, resilient, queued, registered, reports, mishaps>>
      /\ at < Len(Steps) /\ at' = at + 1 /\ process' = NewProcess
  BY DEF NextStep
<1>2. at' \in 1 .. Len(Steps) + 1 /\ ~ Begun'
  BY <1>1, TriggerAssumption DEF PipelineInv, PipelineTypeOK, Begun
<1>3. NewProcess \in Process
  BY DEF NewProcess, Process
<1>4. TypeOK'
  BY <1>1 DEF PipelineInv, PipelineTypeOK, TypeOK, vars, serverVars, pollVars, endVars
<1>5. PipelineTypeOK'
  BY <1>1, <1>2, <1>3, <1>4 DEF PipelineInv, PipelineTypeOK
<1>6. NotBegun'
  BY <1>1, <1>2 DEF PipelineInv, NotBegun, NextStep, GoesOn, vars, pollVars, endVars
<1>7. StepInOrder'
  BY <1>1 DEF StepInOrder, NewProcess
<1>8. ReportIsEarned'
  BY <1>1 DEF PipelineInv, ReportIsEarned, vars, serverVars
<1>9. QED
  BY <1>2, <1>5, <1>6, <1>7, <1>8 DEF PipelineInv

(* The wait begins with all registered builds on its list.                 *)
LEMMA StartWaitStep ==
  ASSUME PipelineInv, StartWait
  PROVE  PipelineInv'
<1>1. /\ UNCHANGED <<serverVars, running, resultState, pollVars, calls, verdict, faults, mode,
                     resilient, queued, registered, reports, mishaps>>
      /\ ~ Begun /\ at = Len(Steps) /\ at' = at + 1 /\ process' = NewProcess
      /\ waitList' = [b \in Build |-> IF b \in registered THEN "All" ELSE "absent"]
      /\ interval' = TRUE
  BY DEF StartWait, GoesOn
<1>2. at' \in 1 .. Len(Steps) + 1 /\ Begun'
  BY <1>1, TriggerAssumption DEF PipelineInv, PipelineTypeOK, Begun
<1>3. NewProcess \in Process
  BY DEF NewProcess, Process
<1>4. TypeOK'
  <2>1. waitList' \in [Build -> Listed \cup {"absent"}]
    BY <1>1 DEF Listed
  <2>2. QED
    BY <1>1, <2>1 DEF PipelineInv, PipelineTypeOK, TypeOK, serverVars, pollVars
<1>5. PipelineTypeOK'
  BY <1>1, <1>2, <1>3, <1>4 DEF PipelineInv, PipelineTypeOK
<1>6. NotBegun' /\ StepInOrder'
  BY <1>2 DEF NotBegun, StepInOrder
<1>7. ReportIsEarned'
  BY <1>1 DEF PipelineInv, ReportIsEarned, serverVars
<1>8. InvOn(registered)'
  <2>1. calls' = << >> /\ verdict' = "none" /\ \A b \in Build : timelines'[b] = 0
    BY <1>1 DEF PipelineInv, NotBegun, pollVars
  <2>2. \A b \in registered' : waitList'[b] # "absent"
    BY <1>1 DEF PipelineInv, PipelineTypeOK
  <2>3. QED
    BY <1>4, <2>1, <2>2
       DEF InvOn, RemovedIsJudged, TimelineOfOver, CancelIsFailure, VerdictEnds, CallCovers,
           EarnedOn, CancelledOn
<1>9. QED
  BY <1>5, <1>6, <1>7, <1>8 DEF PipelineInv

(* What the steps have printed stays true: a build that is over stays as   *)
(* it has ended.                                                           *)
LEMMA ReportsKept ==
  ASSUME PipelineInv, [Next]_vars, UNCHANGED triggerVars, TypeOK'
  PROVE  PipelineTypeOK' /\ ReportIsEarned'
<1>1. \A b \in Build : outcome[b] # "None" => outcome'[b] = outcome[b]
  <2>1. CASE \E c \in Build : Finish(c)
    BY <2>1 DEF Finish, PipelineInv, PipelineTypeOK, TypeOK
  <2>2. CASE UNCHANGED outcome
    BY <2>2
  <2>3. QED
    BY <2>1, <2>2
       DEF Next, Expire, Tick, Reply, LoseAnswer, Timeline, Deliver, Cancel, vars, serverVars
<1>2. PipelineTypeOK'
  BY DEF PipelineInv, PipelineTypeOK, triggerVars
<1>3. ReportIsEarned'
  BY <1>1 DEF PipelineInv, ReportIsEarned, triggerVars
<1>4. QED
  BY <1>2, <1>3

(* The steps of the wait and the ends of builds are those of               *)
(* WaitForTriggeredBuilds.                                                 *)
LEMMA WaitStep ==
  ASSUME PipelineInv, [Next]_vars, UNCHANGED triggerVars,
         Begun \/ \E b \in Build : Finish(b)
  PROVE  PipelineInv'
<1>1. Begun' = Begun
  BY DEF Begun, triggerVars
<1>2. registered \subseteq Build /\ registered' = registered
  BY DEF PipelineInv, PipelineTypeOK, triggerVars
<1>3. CASE Begun
  <2>1. PICK L \in SUBSET Build : L = registered
    BY <1>2
  <2>2. InvOn(L)
    BY <1>3, <2>1 DEF PipelineInv
  <2>3. InvOn(L)'
    BY <2>2, InvNext DEF Step
  <2>4. InvOn(registered)'
    BY <1>2, <2>1, <2>3 DEF InvOn, RemovedIsJudged, CallCovers, EarnedOn, CancelledOn
  <2>5. TypeOK'
    BY <2>4 DEF InvOn
  <2>6. QED
    BY <1>1, <1>3, <2>4, <2>5, ReportsKept DEF PipelineInv, NotBegun, StepInOrder
<1>4. CASE ~ Begun
  <2>1. PICK b \in Build : Finish(b)
    BY <1>4
  <2>2. InvOn({})
    BY <1>4, EmptyWait DEF PipelineInv, PipelineTypeOK
  <2>3. InvOn({})'
    BY <2>1, <2>2, ServerStep DEF Step
  <2>4. TypeOK'
    BY <2>3 DEF InvOn
  <2>5. NotBegun'
    BY <1>1, <1>4, <2>1 DEF PipelineInv, NotBegun, Finish, pollVars, endVars
  <2>6. StepInOrder'
    BY <1>1, <1>4 DEF PipelineInv, StepInOrder, This, triggerVars
  <2>7. QED
    BY <1>1, <1>4, <2>4, <2>5, <2>6, ReportsKept DEF PipelineInv
<1>5. QED
  BY <1>3, <1>4

-----------------------------------------------------------------------------
LEMMA PipelineInvNext == PipelineInv /\ [PipelineNext]_pipelineVars => PipelineInv'
<1> SUFFICES ASSUME PipelineInv, [PipelineNext]_pipelineVars PROVE PipelineInv'
  OBVIOUS
<1>1. CASE TriggerNext
  BY <1>1, TriggerBuildStep, CreateLinksStep, PollStep DEF TriggerNext
<1>2. CASE NextStep \/ StartWait
  BY <1>2, NextStepStep, StartWaitStep
<1>3. CASE WaitNext
  <2>1. Begun /\ Next /\ UNCHANGED triggerVars
    BY <1>3 DEF WaitNext, Next
  <2>2. QED
    BY <2>1, WaitStep
<1>4. ASSUME NEW b \in Build, BuildEnds(b)
      PROVE  PipelineInv'
  <2>1. Finish(b) /\ Next /\ UNCHANGED triggerVars
    BY <1>4 DEF BuildEnds, Next
  <2>2. QED
    BY <2>1, WaitStep
<1>5. CASE UNCHANGED pipelineVars
  <2>1. UNCHANGED <<vars, triggerVars>>
    BY <1>5 DEF pipelineVars
  <2>2. TypeOK' /\ (Begun => InvOn(registered))'
    <3>1. TypeOK'
      BY <2>1 DEF PipelineInv, PipelineTypeOK, TypeOK, vars, serverVars, pollVars, endVars
    <3>2. Begun' = Begun /\ (Begun => InvOn(registered))
      BY <2>1 DEF PipelineInv, Begun, triggerVars
    <3>3. ASSUME InvOn(registered) PROVE InvOn(registered)'
      <4>1. RemovedIsJudged(registered)' /\ CallCovers(registered)'
        BY <2>1, <3>3 DEF InvOn, RemovedIsJudged, CallCovers, vars, serverVars, endVars, triggerVars
      <4>2. EarnedOn(registered)' /\ CancelledOn(registered)'
        BY <2>1, <3>3 DEF InvOn, EarnedOn, CancelledOn, vars, serverVars, endVars, triggerVars
      <4>3. TimelineOfOver' /\ CancelIsFailure' /\ VerdictEnds'
        BY <2>1, <3>3 DEF InvOn, TimelineOfOver, CancelIsFailure, VerdictEnds, vars, serverVars,
           pollVars, endVars
      <4>4. QED
        BY <3>1, <4>1, <4>2, <4>3 DEF InvOn
    <3>4. QED
      BY <3>1, <3>2, <3>3
  <2>3. NotBegun' /\ StepInOrder'
    BY <2>1 DEF PipelineInv, NotBegun, StepInOrder, Begun, This, vars, pollVars, endVars,
       triggerVars
  <2>4. PipelineTypeOK' /\ ReportIsEarned'
    BY <2>1, <2>2, ReportsKept
  <2>5. QED
    BY <2>2, <2>3, <2>4 DEF PipelineInv
<1>6. QED
  BY <1>1, <1>2, <1>3, <1>4, <1>5 DEF PipelineNext

LEMMA PipelineSafe == PipelineSpec => []PipelineInv
BY PipelineInitInv, PipelineInvNext, PTL DEF PipelineSpec

(* Every variable keeps its type, and a step registers no build that has    *)
(* not been queued.                                                        *)
THEOREM PipelineTypeCorrect == PipelineSpec => []PipelineTypeOK
<1>1. PipelineInv => PipelineTypeOK
  BY DEF PipelineInv
<1>2. QED
  BY <1>1, PipelineSafe, PTL

(* When every step of the job and the wait have succeeded, every build     *)
(* that a step waited for or registered has ended well, whatever order the *)
(* steps, the polls and the ends of the builds come in.                    *)
THEOREM SuccessWhole == PipelineSpec => []SuccessIsWhole
<1>1. PipelineInv => SuccessIsWhole
  <2> SUFFICES ASSUME PipelineInv, verdict = "Succeeded",
                      \A b \in Build : "Failed" \notin reports[b],
                      NEW b \in Build, reports[b] # {}
               PROVE  /\ mode[b] = "register" => outcome[b] \in Good
                      /\ mode[b] = "wait" => outcome[b] = "Succeeded"
    BY DEF SuccessIsWhole
  <2>1. "Succeeded" \in reports[b]
    BY DEF PipelineInv, PipelineTypeOK
  <2>2. \A c \in registered : outcome[c] \in Good
    BY DEF PipelineInv, NotBegun, InvOn, EarnedOn
  <2>3. QED
    BY <2>1, <2>2 DEF PipelineInv, ReportIsEarned
<1>2. QED
  BY <1>1, PipelineSafe, PTL
=============================================================================
