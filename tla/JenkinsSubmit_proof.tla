------------------------- MODULE JenkinsSubmit_proof -------------------------
(***************************************************************************)
(* Proofs about JenkinsSubmit, for any number of failing requests and      *)
(* restarts of Jenkins.                                                    *)
(***************************************************************************)
EXTENDS JenkinsSubmit, TLAPS

(* Until the task is told of an item it follows none, a failure that is    *)
(* reported is the end, and every session but the first began with a       *)
(* restart.                                                                *)
Told == pc \in {"crumb", "team", "job"} => queueUri = 0
Final == reported => pc = "failed"
Counted == session <= faults + 1
IInv == TypeOK /\ OneBuildFollowed /\ Told /\ Final /\ Counted

(* What Accept does to the queue, whichever of its two cases it takes.     *)
LEMMA AcceptItems ==
  ASSUME TypeOK, NEW told \in BOOLEAN, NEW i \in 1 .. Len(items) + 1, Accept(i, told)
  PROVE  /\ items' \in Seq(Item)
         /\ Len(items') \in Len(items) .. Len(items) + 1
         /\ i \in 1 .. Len(items')
         /\ \A k \in DOMAIN items' :
              items'[k].answered => (told /\ k = i) \/ (k \in DOMAIN items /\ items[k].answered)
<1> DEFINE Fresh == [state |-> "waiting", answered |-> told]
<1>1. items \in Seq(Item)
  BY DEF TypeOK
<1>2. CASE \E j \in DOMAIN items : items[j].state = "waiting"
  <2>1. /\ i \in DOMAIN items
        /\ items' = [items EXCEPT ![i].answered = @ \/ told]
    BY <1>2 DEF Accept
  <2>2. items[i] \in Item /\ items[i].answered \in BOOLEAN
    <3>1. items[i] \in Item
      BY <1>1, <2>1
    <3> QED BY <3>1 DEF Item
  <2>3. [items[i] EXCEPT !.answered = @ \/ told] \in Item
    BY <2>2 DEF Item
  <2>4. items' = [items EXCEPT ![i] = [items[i] EXCEPT !.answered = @ \/ told]]
    BY <2>1
  <2>5. items' \in Seq(Item) /\ Len(items') = Len(items) /\ DOMAIN items' = DOMAIN items
    BY <1>1, <2>1, <2>3, <2>4
  <2>6. ASSUME NEW k \in DOMAIN items', items'[k].answered
        PROVE  (told /\ k = i) \/ (k \in DOMAIN items /\ items[k].answered)
    <3>1. CASE k # i
      BY <1>1, <2>4, <2>5, <2>6, <3>1
    <3>2. CASE k = i
      <4>1. items'[k] = [items[i] EXCEPT !.answered = @ \/ told]
        BY <1>1, <2>1, <2>4, <3>2
      <4>2. items[i].answered \/ told
        BY <2>2, <2>6, <4>1 DEF Item
      <4> QED BY <2>1, <3>2, <4>2
    <3> QED BY <3>1, <3>2
  <2> QED BY <1>1, <2>1, <2>5, <2>6
<1>3. CASE ~ \E j \in DOMAIN items : items[j].state = "waiting"
  <2>1. i = Len(items) + 1 /\ items' = Append(items, Fresh)
    BY <1>3 DEF Accept
  <2>2. Fresh \in Item
    BY DEF Item
  <2>3. /\ items' \in Seq(Item) /\ Len(items') = Len(items) + 1
        /\ items'[i] = Fresh
        /\ \A k \in DOMAIN items' : k # i => k \in DOMAIN items /\ items'[k] = items[k]
    BY <1>1, <2>1, <2>2
  <2> QED BY <1>1, <2>1, <2>3
<1> QED BY <1>2, <1>3

(* Jenkins moves items and never touches what the task was told.           *)
LEMMA MoveItems ==
  ASSUME TypeOK, NEW i \in DOMAIN items, NEW from,
         NEW to \in {"started", "cancelled", "forgotten"}, Move(i, from, to)
  PROVE  /\ items' \in Seq(Item) /\ Len(items') = Len(items)
         /\ \A k \in DOMAIN items : items'[k].answered = items[k].answered
<1>1. items \in Seq(Item) /\ items[i] \in Item
  BY DEF TypeOK
<1>2. items' = [items EXCEPT ![i] = [items[i] EXCEPT !.state = to]]
  BY DEF Move
<1>3. /\ [items[i] EXCEPT !.state = to] \in Item
      /\ [items[i] EXCEPT !.state = to].answered = items[i].answered
  BY <1>1 DEF Item
<1>4. items' \in Seq(Item) /\ Len(items') = Len(items)
  BY <1>1, <1>2, <1>3
<1>5. ASSUME NEW k \in DOMAIN items
      PROVE  items'[k].answered = items[k].answered
  BY <1>1, <1>2, <1>3
<1> QED BY <1>4, <1>5

(* A bound by a counter that only grows. *)
LEMMA BoundGrows ==
  ASSUME NEW a \in Nat, NEW b \in Nat, NEW c \in Nat, b <= c, a <= b + 1
  PROVE  a <= c + 1
OBVIOUS

LEMMA InitInv == Init => IInv
<1> SUFFICES ASSUME Init PROVE IInv
  OBVIOUS
<1>1. items = << >> /\ items \in Seq(Item) /\ Len(items) = 0
  BY DEF Init
<1>2. TypeOK
  <2>1. plugin \in BOOLEAN /\ issuer \in BOOLEAN /\ available \in BOOLEAN /\ reported \in BOOLEAN
    BY DEF Init
  <2>2. /\ crumb \in 0 .. session /\ session \in 1 .. MaxFaults + 1
        /\ queueUri \in 0 .. Len(items) /\ faults \in 0 .. MaxFaults
    BY <1>1, SubmitAssumption DEF Init
  <2>3. pc \in {"crumb", "team", "job", "item", "tracking", "failed"}
    BY DEF Init
  <2> QED BY <1>1, <2>1, <2>2, <2>3 DEF TypeOK
<1>3. OneBuildFollowed
  BY <1>1 DEF OneBuildFollowed
<1>4. Told /\ Final /\ Counted
  BY DEF Init, Told, Final, Counted
<1> QED BY <1>2, <1>3, <1>4 DEF IInv

(* A step that leaves the queue of Jenkins and the item that is followed   *)
(* alone keeps the items and the build that is followed in order.          *)
LEMMA QueueKept ==
  ASSUME IInv, UNCHANGED <<items, queueUri>>
  PROVE  /\ items' \in Seq(Item) /\ queueUri' \in 0 .. Len(items')
         /\ OneBuildFollowed'
BY DEF IInv, TypeOK, OneBuildFollowed

(* The steps of the task that send nothing to the queue.                   *)
LEMMA AskingKeeps ==
  ASSUME IInv,
         \/ CrumbReceived \/ CrumbReset \/ CrumbRefused \/ TeamMissing
         \/ SubmitRefused \/ ItemWaits \/ RootCreated \/ ItemLost
  PROVE  IInv'
<1>1. UNCHANGED <<items, queueUri, plugin, issuer, session>>
  BY DEF CrumbReceived, CrumbReset, CrumbRefused, TeamMissing, SubmitRefused, ItemWaits,
         RootCreated, ItemLost, Refused, Reject, TryAgain, jenkinsVars, taskVars
<1>2. faults' \in 0 .. MaxFaults /\ faults <= faults'
  BY SubmitAssumption
     DEF CrumbReceived, CrumbReset, CrumbRefused, TeamMissing, SubmitRefused, ItemWaits,
         RootCreated, ItemLost, Refused, Fails, IInv, TypeOK
<1>3. pc' \in {"crumb", "team", "job", "item", "tracking", "failed"}
  BY
     DEF CrumbReceived, CrumbReset, CrumbRefused, TeamMissing, SubmitRefused, ItemWaits,
         RootCreated, ItemLost, Refused, Reject, TryAgain, jenkinsVars, taskVars, IInv, TypeOK
<1>7. crumb' \in 0 .. session
  <2>1. crumb' \in {0, crumb, session}
    BY
       DEF CrumbReceived, CrumbReset, CrumbRefused, TeamMissing, SubmitRefused, ItemWaits,
           RootCreated, ItemLost, Refused, Reject, TryAgain, jenkinsVars, taskVars
  <2>2. crumb \in 0 .. session /\ session \in 1 .. MaxFaults + 1
    BY DEF IInv, TypeOK
  <2> QED BY <2>1, <2>2, SubmitAssumption
<1>8. available' \in BOOLEAN /\ reported' \in BOOLEAN
  BY
     DEF CrumbReceived, CrumbReset, CrumbRefused, TeamMissing, SubmitRefused, ItemWaits,
         RootCreated, ItemLost, Refused, Reject, TryAgain, jenkinsVars, taskVars, IInv, TypeOK
<1>4. Told' /\ Final'
  BY <1>1 DEF CrumbReceived, CrumbReset, CrumbRefused, TeamMissing, SubmitRefused, ItemWaits,
         RootCreated, ItemLost, Refused, Reject, TryAgain, jenkinsVars, taskVars, IInv, Told, Final
<1>5. /\ items' \in Seq(Item) /\ queueUri' \in 0 .. Len(items')
      /\ OneBuildFollowed'
  BY <1>1, QueueKept
<1>6. Counted'
  <2>1. session' = session /\ session \in 1 .. MaxFaults + 1 /\ session <= faults + 1
    BY <1>1 DEF IInv, Counted, TypeOK
  <2>2. faults \in 0 .. MaxFaults
    BY DEF IInv, TypeOK
  <2>3. faults' \in Nat /\ faults <= faults'
    BY <1>2, SubmitAssumption
  <2>4. session \in Nat /\ faults \in Nat
    BY <2>1, <2>2, SubmitAssumption
  <2>5. session <= faults' + 1
    BY <2>1, <2>3, <2>4, BoundGrows
  <2> QED BY <2>1, <2>5 DEF Counted
<1> QED BY <1>1, <1>2, <1>3, <1>4, <1>5, <1>6, <1>7, <1>8 DEF IInv, TypeOK

(* The task is told of an item only while it follows none.                 *)
LEMMA SubmittedKeeps ==
  ASSUME IInv, NEW i \in 1 .. Len(items) + 1, TeamSubmitted(i) \/ JobSubmitted(i)
  PROVE  IInv'
<1>1. /\ Submitted(i) /\ Accept(i, TRUE) /\ queueUri' = i /\ pc' = "item"
      /\ pc \in {"team", "job"} /\ available' \in BOOLEAN
      /\ UNCHANGED <<crumb, reported, plugin, issuer, session, faults>>
  BY DEF TeamSubmitted, JobSubmitted, Submitted, IInv, TypeOK
<1>2. queueUri = 0 /\ ~ reported
  BY <1>1 DEF IInv, Told, Final
<1>3. /\ items' \in Seq(Item) /\ i \in 1 .. Len(items')
      /\ \A k \in DOMAIN items' :
           items'[k].answered => k = i \/ (k \in DOMAIN items /\ items[k].answered)
  BY <1>1, AcceptItems DEF IInv
<1>4. \A k \in DOMAIN items : ~ items[k].answered
  BY <1>2 DEF IInv, OneBuildFollowed, TypeOK
<1>5. OneBuildFollowed'
  BY <1>1, <1>3, <1>4 DEF OneBuildFollowed
<1>6. Told' /\ Final'
  BY <1>1, <1>2 DEF Told, Final
<1>7. TypeOK'
  BY <1>1, <1>3 DEF IInv, TypeOK
<1>8. Counted'
  BY <1>1 DEF IInv, Counted
<1> QED BY <1>5, <1>6, <1>7, <1>8 DEF IInv

(* A build whose answer is lost is one the task was not told of.           *)
LEMMA ResetKeeps ==
  ASSUME IInv, SubmitReset
  PROVE  IInv'
<1>1. /\ pc \in {"team", "job"} /\ pc' = "crumb" /\ faults' \in 0 .. MaxFaults /\ faults' = faults + 1
      /\ UNCHANGED <<crumb, available, queueUri, reported, plugin, issuer, session>>
  BY SubmitAssumption DEF SubmitReset, Fails, TryAgain, IInv, TypeOK
<1>2. queueUri = 0 /\ ~ reported
  BY <1>1 DEF IInv, Told, Final
<1>3. /\ items' \in Seq(Item)
      /\ \A k \in DOMAIN items' : items'[k].answered => k \in DOMAIN items /\ items[k].answered
  <2>1. CASE UNCHANGED items
    BY <2>1 DEF IInv, TypeOK
  <2>2. CASE \E i \in 1 .. Len(items) + 1 : Accept(i, FALSE)
    BY <2>2, AcceptItems DEF IInv
  <2> QED BY <2>1, <2>2 DEF SubmitReset
<1>4. \A k \in DOMAIN items : ~ items[k].answered
  BY <1>2 DEF IInv, OneBuildFollowed, TypeOK
<1>5. OneBuildFollowed'
  BY <1>3, <1>4 DEF OneBuildFollowed
<1>6. Told' /\ Final'
  BY <1>1, <1>2 DEF Told, Final
<1>7. TypeOK'
  BY <1>1, <1>2, <1>3 DEF IInv, TypeOK
<1>8. Counted'
  BY <1>1 DEF IInv, Counted, TypeOK
<1> QED BY <1>5, <1>6, <1>7, <1>8 DEF IInv

LEMMA JenkinsKeeps ==
  ASSUME IInv, Jenkins
  PROVE  IInv'
<1>1. CASE Restart
  <2>1. /\ UNCHANGED <<pc, crumb, available, queueUri, reported, items, issuer>>
        /\ plugin' \in BOOLEAN
        /\ faults' = faults + 1 /\ faults < MaxFaults /\ session' = session + 1
    BY <1>1 DEF Restart, Fails, taskVars
  <2>2. session \in 1 .. MaxFaults + 1 /\ session <= faults + 1 /\ faults \in 0 .. MaxFaults
    BY DEF IInv, Counted, TypeOK
  <2>3. /\ session' \in 1 .. MaxFaults + 1 /\ faults' \in 0 .. MaxFaults
        /\ session' <= faults' + 1
    BY <2>1, <2>2, SubmitAssumption
  <2>4. crumb \in 0 .. session'
    BY <2>1, <2>2 DEF IInv, TypeOK
  <2>5. items' \in Seq(Item) /\ queueUri' \in 0 .. Len(items') /\ OneBuildFollowed'
    BY <2>1, QueueKept
  <2>6. TypeOK'
    BY <2>1, <2>3, <2>4, <2>5 DEF IInv, TypeOK
  <2> QED BY <2>1, <2>3, <2>5, <2>6 DEF IInv, Told, Final, Counted
<1>2. ASSUME NEW i \in DOMAIN items, LeaveQueue(i) \/ Forget(i)
      PROVE  IInv'
  <2>1. /\ UNCHANGED <<pc, crumb, available, queueUri, reported, plugin, issuer, session>>
        /\ faults' \in 0 .. MaxFaults /\ faults <= faults'
    BY <1>2, SubmitAssumption DEF LeaveQueue, Forget, Move, Fails, taskVars, IInv, TypeOK
  <2>2. \/ Move(i, "waiting", "started") \/ Move(i, "waiting", "cancelled")
        \/ Move(i, "started", "forgotten")
    BY <1>2 DEF LeaveQueue, Forget
  <2>3. /\ items' \in Seq(Item) /\ Len(items') = Len(items)
        /\ \A k \in DOMAIN items : items'[k].answered = items[k].answered
    BY <2>2, MoveItems DEF IInv
  <2>4. TypeOK'
    BY <2>1, <2>3 DEF IInv, TypeOK
  <2>5. DOMAIN items' = DOMAIN items
    BY <2>3 DEF IInv, TypeOK
  <2>6. OneBuildFollowed'
    BY <2>1, <2>3, <2>5 DEF IInv, OneBuildFollowed
  <2>7. Told' /\ Final'
    BY <2>1 DEF IInv, Told, Final
  <2>8. Counted'
    <3>1. session' = session /\ session \in 1 .. MaxFaults + 1 /\ session <= faults + 1
      BY <2>1 DEF IInv, Counted, TypeOK
    <3>2. faults \in 0 .. MaxFaults
      BY DEF IInv, TypeOK
    <3>3. faults' \in Nat /\ faults <= faults'
      BY <2>1, SubmitAssumption
    <3>4. session \in Nat /\ faults \in Nat
      BY <3>1, <3>2, SubmitAssumption
    <3>5. session <= faults' + 1
      BY <3>1, <3>3, <3>4, BoundGrows
    <3> QED BY <3>1, <3>5 DEF Counted
  <2> QED BY <2>4, <2>6, <2>7, <2>8 DEF IInv
<1> QED BY <1>1, <1>2 DEF Jenkins

LEMMA NextKeeps == IInv /\ [Next]_vars => IInv'
<1> SUFFICES ASSUME IInv, [Next]_vars PROVE IInv'
  OBVIOUS
<1>1. CASE Task
  BY <1>1, AskingKeeps, SubmittedKeeps, ResetKeeps DEF Task
<1>2. CASE Jenkins
  BY <1>2, JenkinsKeeps
<1>3. CASE UNCHANGED vars
  BY <1>3 DEF vars, taskVars, jenkinsVars, IInv, TypeOK, OneBuildFollowed, Told, Final, Counted
<1> QED BY <1>1, <1>2, <1>3 DEF Next

LEMMA Invariance == Spec => []IInv
BY InitInv, NextKeeps, PTL DEF Spec

(* The variables of JenkinsSubmit keep their types.                        *)
THEOREM TypeCorrect == Spec => []TypeOK
<1>1. IInv => TypeOK
  BY DEF IInv
<1> QED BY <1>1, Invariance, PTL

(* However many rounds pollSubmitJob repeats, the build the task was told  *)
(* of is the one it follows.                                               *)
THEOREM FollowsTheBuild == Spec => []OneBuildFollowed
<1>1. IInv => OneBuildFollowed
  BY DEF IInv
<1> QED BY <1>1, Invariance, PTL

(* What a step does once a failure has been reported: Jenkins alone moves. *)
LEMMA QuietAfterFailure ==
  ASSUME IInv, [Next]_vars, reported
  PROVE  Len(items') = Len(items) /\ pc' # "tracking"
<1>1. pc = "failed"
  BY DEF IInv, Final
<1>2. CASE Task
  BY <1>1, <1>2 DEF Task, CrumbReceived, CrumbReset, CrumbRefused, TeamMissing, SubmitReset,
         SubmitRefused, ItemWaits, RootCreated, ItemLost, TeamSubmitted, JobSubmitted
<1>3. CASE Restart
  BY <1>1, <1>3 DEF Restart, taskVars
<1>4. ASSUME NEW i \in DOMAIN items, LeaveQueue(i) \/ Forget(i)
      PROVE  Len(items') = Len(items) /\ pc' # "tracking"
  <2>1. \/ Move(i, "waiting", "started") \/ Move(i, "waiting", "cancelled")
        \/ Move(i, "started", "forgotten")
    BY <1>4 DEF LeaveQueue, Forget
  <2>2. Len(items') = Len(items)
    BY <2>1, MoveItems DEF IInv
  <2>3. pc' = pc
    BY <2>1 DEF Move, taskVars
  <2> QED BY <1>1, <2>2, <2>3
<1>5. CASE UNCHANGED vars
  BY <1>1, <1>5 DEF vars, taskVars, jenkinsVars
<1> QED BY <1>2, <1>3, <1>4, <1>5 DEF Next, Jenkins

(* After setResult(Failed) nothing more is submitted and the tracker is    *)
(* not started, from whichever of the two places the result was set.       *)
THEOREM FailureIsFinal == Spec => NothingAfterFailure
<1>1. IInv /\ [Next]_vars =>
        [reported => Len(items') = Len(items) /\ pc' # "tracking"]_vars
  BY QuietAfterFailure
<1> QED BY <1>1, Invariance, PTL DEF Spec, NothingAfterFailure
=============================================================================
