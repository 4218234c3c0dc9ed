------------------------ MODULE JenkinsQueueJob_proof ------------------------
(***************************************************************************)
(* Theorems about the tracker, for every pipeline, every task input and    *)
(* every number of failing requests: types; what is known of executions is *)
(* kept; one job writes to the console; the life cycle of a job is         *)
(* implemented; the tree of jobs (one tracker for each execution, one main *)
(* job among those that share it, nothing below a job that was joined or   *)
(* cut); and the verdict (a failure is reported, a success covers the      *)
(* pipeline, a job that is done followed one of its causes).               *)
(***************************************************************************)
EXTENDS JenkinsQueueJob, Subsequences_proof, TLAPS

(* Whoever sets the root streaming does so for the root build. *)
Frame ==
  {f \in JobCall \cup SearchCall :
     f.op = "Streaming" /\ f.job = Root => f.num = RootNumber}

JobTypes ==
  /\ allJobs \in Seq(Job)
  /\ state \in [Job -> JobState]
  /\ number \in [Job -> Nat]
  /\ number[Root] = RootNumber
  /\ joined \in [Job -> Job \cup {NoJob}]
  /\ console \in [Job -> BOOLEAN]
  /\ result \in [Job -> Results \cup {"none"}]
  /\ work \in [Job -> Work]

QueueTypes ==
  /\ opts \in [console : BOOLEAN, pipeline : BOOLEAN, shouldFail : BOOLEAN]
  /\ interval \in BOOLEAN
  /\ complete \in BOOLEAN
  /\ summary \in {"none", "probe", "report", "write", "done", "lost", "refused"}

OutTypes == verdicts \in SUBSET {"Succeeded", "Failed"} /\ exited \in BOOLEAN

SearchTypes == search \in [Ident -> Search]
CallTypes == todo \in Seq(Frame)
FaultTypes == faults \in 0..MaxFaults

(* Causes are looked up only for builds that exist: without it the causes   *)
(* in the search have no type.                                              *)
FoundExist == \A id \in Ident : search[id].found \subseteq 1..Len(builds[id])

(* The inductive invariant: TypeOK, in parts, and FoundExist. *)
TypeInv ==
  /\ ServerTypeOK /\ JobTypes /\ SearchTypes /\ QueueTypes
  /\ OutTypes /\ CallTypes /\ FaultTypes /\ FoundExist

LEMMA TypeInvIsTypeOK == TypeInv => TypeOK
<1>1. Frame \subseteq JobCall \cup SearchCall
  BY DEF Frame
<1>2. TypeInv => todo \in Seq(JobCall \cup SearchCall)
  BY <1>1, SeqMonotonic DEF TypeInv, CallTypes
<1>3. QED
  BY <1>2 DEF TypeInv, TypeOK, JobTypes, QueueTypes, OutTypes, SearchTypes, FaultTypes

-----------------------------------------------------------------------------
(* Types of the queries. *)

LEMMA AmongType ==
  ASSUME NEW S, NEW s \in Seq(S), NEW Q
  PROVE  Among(s, Q) \in Seq(S)
<1>1. Among(s, Q) \in Seq(S \cap Q)
  BY AmongProperties
<1>2. S \cap Q \subseteq S
  OBVIOUS
<1>3. QED
  BY <1>1, <1>2, SeqMonotonic

LEMMA FirstOrType ==
  ASSUME NEW S, NEW s \in Seq(S), NEW d
  PROVE  FirstOr(s, d) \in S \cup {d}
<1>1. CASE s = <<>>
  BY <1>1 DEF FirstOr
<1>2. CASE s # <<>>
  <2>1. 1 \in 1..Len(s)
    BY <1>2, EmptySeq, LenProperties
  <2>2. s[1] \in S
    BY <2>1, ElementOfSeq
  <2>3. QED
    BY <1>2, <2>2 DEF FirstOr
<1>3. QED
  BY <1>1, <1>2

LEMMA ChildrenType ==
  ASSUME NEW j \in Job
  PROVE  Children(j) \in Seq(Job \ {Root})
<1>1. Kids[j] \in Seq(Job) /\ \A i \in DOMAIN Kids[j] : Kids[j][i] # Root
  BY TreeAssumption
<1>2. Range(Kids[j]) \subseteq Job \ {Root}
  BY <1>1, RangeOfSeq DEF Range
<1>3. Kids[j] \in Seq(Range(Kids[j]))
  BY <1>1, SeqOfRange
<1>4. Kids[j] \in Seq(Job \ {Root})
  BY <1>2, <1>3, SeqMonotonic
<1>5. QED
  BY <1>4, AmongType DEF Children

LEMMA FindJobType ==
  ASSUME JobTypes, NEW id, NEW n
  PROVE  FindJob(id, n) \in Job \cup {NoJob}
<1> DEFINE Q == {j \in Job : IdentOf[j] = id /\ number[j] = n}
<1>1. Among(allJobs, Q) \in Seq(Job)
  BY AmongType DEF JobTypes
<1> HIDE DEF Q
<1>2. FirstOr(Among(allJobs, Q), NoJob) \in Job \cup {NoJob}
  BY <1>1, FirstOrType
<1>3. QED
  BY <1>2 DEF FindJob, Q

LEMMA ChildOfType ==
  ASSUME NEW p \in Job, NEW id
  PROVE  ChildOf(p, id) \in (Job \ {Root}) \cup {NoJob}
<1> DEFINE Q == {k \in Job : IdentOf[k] = id}
<1>1. Among(Children(p), Q) \in Seq(Job \ {Root})
  BY AmongType, ChildrenType
<1> HIDE DEF Q
<1>2. FirstOr(Among(Children(p), Q), NoJob) \in (Job \ {Root}) \cup {NoJob}
  BY <1>1, FirstOrType
<1>3. QED
  BY <1>2 DEF ChildOf, Q

LEMMA CausedKidsType ==
  ASSUME ServerTypeOK, JobTypes, NEW id \in Ident, NEW n \in 1..Len(builds[id]), NEW States
  PROVE  CausedKids(id, n, States) \in Seq(Job \ {Root})
<1> DEFINE causes == builds[id][n].causes
           kid(c) == LET h == FindJob(c[1], c[2])
                     IN  IF h # NoJob /\ state[h] \in States THEN ChildOf(h, id) ELSE NoJob
           kids == [i \in DOMAIN causes |-> kid(causes[i])]
<1>1. causes \in Seq(Cause)
  <2>1. builds[id] \in Seq(Build)
    BY DEF ServerTypeOK
  <2>2. builds[id][n] \in Build
    BY <2>1, ElementOfSeq
  <2>3. QED
    BY <2>2 DEF Build
<1>2. ASSUME NEW c PROVE kid(c) \in (Job \ {Root}) \cup {NoJob}
  BY FindJobType, ChildOfType
<1> HIDE DEF causes, kid
<1>3. kids \in Seq((Job \ {Root}) \cup {NoJob})
  <2>1. DOMAIN causes = 1..Len(causes) /\ Len(causes) \in Nat
    BY <1>1, LenProperties
  <2>2. kids = [i \in 1..Len(causes) |-> kid(causes[i])]
    BY <2>1
  <2>3. \A i \in 1..Len(causes) : kid(causes[i]) \in (Job \ {Root}) \cup {NoJob}
    BY <1>2
  <2> HIDE DEF kids
  <2>4. QED
    BY <2>1, <2>2, <2>3, IsASeq
<1> HIDE DEF kids
<1>4. Among(kids, Job) \in Seq(((Job \ {Root}) \cup {NoJob}) \cap Job)
  BY <1>3, AmongProperties
<1>5. ((Job \ {Root}) \cup {NoJob}) \cap Job \subseteq Job \ {Root}
  BY TreeAssumption
<1>6. Among(kids, Job) \in Seq(Job \ {Root})
  BY <1>4, <1>5, SeqMonotonic
<1>7. QED
  BY <1>6 DEF CausedKids, kids, kid, causes

LEMMA MainJobTypes ==
  ASSUME ServerTypeOK, JobTypes, NEW id \in Ident, NEW n \in 1..Len(builds[id])
  PROVE  /\ MainJob(id, n) \in (Job \ {Root}) \cup {NoJob}
         /\ Secondary(id, n) \in Seq(Job \ {Root})
         /\ Secondary(id, n) # <<>> => MainJob(id, n) \in Job \ {Root}
<1>1. Masters(id, n) \in Seq(Job \ {Root}) /\ Potential(id, n) \in Seq(Job \ {Root})
  <2>1. CausedKids(id, n, Ran) \in Seq(Job \ {Root})
    BY CausedKidsType
  <2>2. QED
    BY <2>1, AmongType DEF Masters, Potential
<1>2. Candidates(id, n) \in Seq(Job \ {Root})
  BY <1>1, ConcatProperties DEF Candidates
<1>3. MainJob(id, n) \in (Job \ {Root}) \cup {NoJob}
  BY <1>2, FirstOrType DEF MainJob
<1>4. Candidates(id, n) # <<>> => MainJob(id, n) \in Job \ {Root}
  <2>1. ASSUME Candidates(id, n) # <<>> PROVE MainJob(id, n) \in Job \ {Root}
    <3>1. 1 \in 1..Len(Candidates(id, n))
      BY <1>2, <2>1, EmptySeq, LenProperties
    <3>2. Candidates(id, n)[1] \in Job \ {Root}
      BY <1>2, <3>1, ElementOfSeq
    <3>3. QED
      BY <2>1, <3>2 DEF MainJob, FirstOr
  <2>2. QED
    BY <2>1
<1>5. Candidates(id, n) # <<>> => Tail(Candidates(id, n)) \in Seq(Job \ {Root})
  BY <1>2, HeadTailProperties
<1>6. CausedKids(id, n, {"Joined", "Cut"}) \in Seq(Job \ {Root})
  BY CausedKidsType
<1>7. Secondary(id, n) \in Seq(Job \ {Root})
  <2>1. <<>> \in Seq(Job \ {Root})
    BY EmptySeq
  <2>2. QED
    BY <2>1, <1>5, <1>6, ConcatProperties DEF Secondary
<1>8. Secondary(id, n) # <<>> => Candidates(id, n) # <<>>
  BY DEF Secondary
<1>9. QED
  BY <1>3, <1>4, <1>7, <1>8
-----------------------------------------------------------------------------
(* Types of the calls. *)

JobOps == {"Resolve", "Sought", "InitEnd", "Streaming", "Finishing",
           "JoinOthers", "Join", "JoinUnlessCut", "Cut"}

LEMMA CallType ==
  ASSUME NEW op \in JobOps, NEW j \in Job, NEW m \in Job, NEW n \in Nat
  PROVE  /\ op # "Streaming" => Call(op, j) \in Frame /\ CallWith(op, j, m) \in Frame
         /\ j = Root /\ n = RootNumber => CallAt(op, j, n) \in Frame
         /\ j # Root => CallAt(op, j, n) \in Frame
  BY DEF JobOps, Call, CallWith, CallAt, Frame, JobCall

LEMMA SearchDoType ==
  ASSUME NEW op \in {"Decide", "Advance"}, NEW id \in Ident
  PROVE  SearchDo(op, id) \in Frame
  BY DEF SearchDo, Frame, SearchCall

LEMMA CallsType ==
  ASSUME NEW op \in JobOps, op # "Streaming", NEW s \in Seq(Job)
  PROVE  [i \in DOMAIN s |-> Call(op, s[i])] \in Seq(Frame)
<1>1. DOMAIN s = 1..Len(s) /\ Len(s) \in Nat
  BY LenProperties
<1>2. \A i \in 1..Len(s) : Call(op, s[i]) \in Frame
  BY CallType, ElementOfSeq
<1>3. [i \in 1..Len(s) |-> Call(op, s[i])] \in Seq(Frame)
  BY <1>1, <1>2, IsASeq
<1>4. QED
  BY <1>1, <1>3

LEMMA CallsWithType ==
  ASSUME NEW op \in JobOps, op # "Streaming", NEW s \in Seq(Job), NEW m \in Job
  PROVE  [i \in DOMAIN s |-> CallWith(op, s[i], m)] \in Seq(Frame)
<1>1. DOMAIN s = 1..Len(s) /\ Len(s) \in Nat
  BY LenProperties
<1>2. \A i \in 1..Len(s) : CallWith(op, s[i], m) \in Frame
  BY CallType, ElementOfSeq
<1>3. [i \in 1..Len(s) |-> CallWith(op, s[i], m)] \in Seq(Frame)
  BY <1>1, <1>2, IsASeq
<1>4. QED
  BY <1>1, <1>3

LEMMA CutAllType ==
  ASSUME NEW s \in Seq(Job)
  PROVE  CutAll(s) \in Seq(Frame)
  BY CallsType DEF CutAll, JobOps

LEMMA HeadTailType ==
  ASSUME CallTypes, todo # <<>>
  PROVE  Head(todo) \in Frame /\ Tail(todo) \in Seq(Frame)
  BY HeadTailProperties DEF CallTypes

(* What a job call carries. *)
LEMMA JobCallFields ==
  ASSUME NEW f \in Frame, f.op \in JobOps
  PROVE  /\ f.job \in Job /\ f.main \in Job /\ f.num \in Nat
         /\ f.op = "Streaming" /\ f.job = Root => f.num = RootNumber
  BY DEF Frame, JobCall, SearchCall, JobOps

LEMMA SearchCallFields ==
  ASSUME NEW f \in Frame, f.op \in {"Decide", "Advance"}
  PROVE  f.id \in Ident
  BY DEF Frame, JobCall, SearchCall

LEMMA OneCallType ==
  ASSUME NEW f \in Frame, NEW rest \in Seq(Frame)
  PROVE  <<f>> \o rest \in Seq(Frame) /\ <<f>> \in Seq(Frame)
<1>1. <<f>> \in Seq(Frame)
  OBVIOUS
<1>2. QED
  BY <1>1, ConcatProperties

-----------------------------------------------------------------------------
(* Results, exceptions and changes of state. *)

LEMMA ReportType ==
  ASSUME OutTypes, NEW v \in {"Succeeded", "Failed"}, Report(v)
  PROVE  OutTypes'
  BY DEF OutTypes, Report

LEMMA RaiseType ==
  ASSUME OutTypes, Raise
  PROVE  OutTypes' /\ CallTypes'
<1>1. todo' = <<>>
  BY DEF Raise
<1>2. CallTypes'
  BY <1>1, EmptySeq DEF CallTypes
<1>3. UNCHANGED outVars \/ Report("Failed")
  BY DEF Raise
<1>4. OutTypes'
  BY <1>3, ReportType DEF OutTypes, outVars
<1>5. QED
  BY <1>2, <1>4

LEMMA ProceedType ==
  ASSUME OutTypes, NEW calls \in Seq(Frame), Proceed(calls)
  PROVE  OutTypes' /\ CallTypes'
  BY DEF Proceed, OutTypes, outVars, CallTypes

LEMMA ChangeStateType ==
  ASSUME JobTypes, OutTypes, NEW j \in Job, NEW s \in JobState, NEW calls \in Seq(Frame),
         ChangeState(j, s, calls)
  PROVE  state' \in [Job -> JobState] /\ OutTypes' /\ CallTypes'
<1>1. state' \in [Job -> JobState]
  BY DEF ChangeState, JobTypes
<1>2. Proceed(calls) \/ Raise
  BY DEF ChangeState
<1>3. QED
  BY <1>1, <1>2, ProceedType, RaiseType

LEMMA FlushedType ==
  ASSUME NEW st
  PROVE  Flushed(st) \in [Job -> BOOLEAN]
  BY DEF Flushed

LEMMA StopWorkType ==
  ASSUME JobTypes, OutTypes, NEW j \in Job, NEW s \in JobState, StopWork(j, s),
         result' \in [Job -> Results \cup {"none"}]
  PROVE  JobTypes' /\ OutTypes' /\ CallTypes'
<1>1. <<>> \in Seq(Frame)
  BY EmptySeq
<1>2. state' \in [Job -> JobState] /\ OutTypes' /\ CallTypes'
  BY <1>1, ChangeStateType DEF StopWork
<1>3. work' \in [Job -> Work]
  BY DEF StopWork, JobTypes, Work
<1>4. console' \in [Job -> BOOLEAN]
  BY FlushedType DEF StopWork, JobTypes
<1>5. QED
  BY <1>2, <1>3, <1>4 DEF StopWork, JobTypes
-----------------------------------------------------------------------------
(* Every call of a callback keeps the types. *)

LEMMA MinType ==
  ASSUME NEW T \in SUBSET Nat, T # {}
  PROVE  Min(T) \in T
<1>1. \E x \in T : \A y \in T : x <= y
  BY NatMinimum
<1>2. QED
  BY <1>1 DEF Min

(* What the calls may change, and the searches they keep as found. *)
StepTypes == JobTypes' /\ OutTypes' /\ CallTypes' /\ SearchTypes'
SameFound == \A id \in Ident : search'[id].found = search[id].found
FoundGrows == \A id \in Ident : search[id].found \subseteq search'[id].found

SearchWork == {"idle", "timer", "busy", "missing", "locate"}

(* Setting one field of a search; several are set one after the other. *)
LEMMA SearchFields ==
  ASSUME NEW s \in Search
  PROVE  /\ \A w \in SearchWork :
              [s EXCEPT !.work = w] \in Search /\ [s EXCEPT !.work = w].found = s.found
         /\ \A q \in Seq(Job) :
              [s EXCEPT !.seeking = q] \in Search /\ [s EXCEPT !.seeking = q].found = s.found
         /\ \A n \in Nat :
              [s EXCEPT !.next = n] \in Search /\ [s EXCEPT !.next = n].found = s.found
         /\ \A n \in Nat :
              [s EXCEPT !.first = n] \in Search /\ [s EXCEPT !.first = n].found = s.found
         /\ \A b \in BOOLEAN :
              [s EXCEPT !.forward = b] \in Search /\ [s EXCEPT !.forward = b].found = s.found
         /\ \A b \in BOOLEAN :
              [s EXCEPT !.ready = b] \in Search /\ [s EXCEPT !.ready = b].found = s.found
         /\ \A b \in BOOLEAN :
              [s EXCEPT !.ctor = b] \in Search /\ [s EXCEPT !.ctor = b].found = s.found
  BY DEF Search, SearchWork

LEMMA SearchRests ==
  ASSUME NEW s \in Search, NEW w \in SearchWork, NEW q \in Seq(Job)
  PROVE  /\ [s EXCEPT !.work = w, !.seeking = q] \in Search
         /\ [s EXCEPT !.work = w, !.seeking = q].found = s.found
<1> DEFINE t == [s EXCEPT !.work = w]
<1>1. t \in Search /\ t.found = s.found
  BY SearchFields
<1>2. [s EXCEPT !.work = w, !.seeking = q] = [t EXCEPT !.seeking = q]
  OBVIOUS
<1> HIDE DEF t
<1>3. [t EXCEPT !.seeking = q] \in Search /\ [t EXCEPT !.seeking = q].found = t.found
  BY <1>1, SearchFields
<1>4. QED
  BY <1>1, <1>2, <1>3

LEMMA SearchSet ==
  ASSUME SearchTypes, NEW id \in Ident, NEW s \in Search, s.found = search[id].found,
         search' = [search EXCEPT ![id] = s]
  PROVE  SearchTypes' /\ SameFound
  BY DEF SearchTypes, SameFound

LEMMA SearchSetWork ==
  ASSUME SearchTypes, NEW id \in Ident, NEW w \in SearchWork,
         search' = [search EXCEPT ![id].work = w]
  PROVE  SearchTypes' /\ SameFound
<1> DEFINE s == [search[id] EXCEPT !.work = w]
<1>1. search[id] \in Search
  BY DEF SearchTypes
<1>2. s \in Search /\ s.found = search[id].found
  BY <1>1, SearchFields
<1>3. search' = [search EXCEPT ![id] = s]
  OBVIOUS
<1> HIDE DEF s
<1>4. QED
  BY <1>2, <1>3, SearchSet

LEMMA SearchSetRest ==
  ASSUME SearchTypes, NEW id \in Ident,
         search' = [search EXCEPT ![id].work = "idle", ![id].seeking = <<>>]
  PROVE  SearchTypes' /\ SameFound
<1> DEFINE s == [search[id] EXCEPT !.work = "idle", !.seeking = <<>>]
<1>1. search[id] \in Search
  BY DEF SearchTypes
<1>2. <<>> \in Seq(Job) /\ "idle" \in SearchWork
  BY EmptySeq DEF SearchWork
<1>3. s \in Search /\ s.found = search[id].found
  BY <1>1, <1>2, SearchRests
<1>4. search' = [search EXCEPT ![id] = s]
  BY <1>1 DEF SearchTypes
<1> HIDE DEF s
<1>5. QED
  BY <1>3, <1>4, SearchSet

LEMMA SameSearchType ==
  ASSUME SearchTypes, UNCHANGED search
  PROVE  SearchTypes' /\ SameFound
  BY DEF SearchTypes, SameFound

LEMMA ResolveType ==
  ASSUME TypeInv, todo # <<>>, Resolve(Head(todo))
  PROVE  StepTypes /\ SameFound
<1> DEFINE f == Head(todo)
           j == f.job
           id == IdentOf[j]
           rest == Tail(todo)
           hits == {n \in search[id].found :
                      \/ Undetermined(id, n)
                      \/ MainJob(id, n) = j
                      \/ j \in Range(Secondary(id, n))}
           n == Min(hits)
<1> USE DEF TypeInv
<1>1. rest \in Seq(Frame) /\ f.op \in JobOps /\ j \in Job /\ id \in Ident
  <2>1. rest \in Seq(Frame) /\ f \in Frame
    BY HeadTailType
  <2>2. f.op \in JobOps
    BY DEF Resolve, JobOps
  <2>3. j \in Job
    BY <2>1, <2>2, JobCallFields
  <2>4. QED
    BY <2>1, <2>2, <2>3, TreeAssumption
<1>2. JobTypes'
  BY DEF Resolve, JobTypes, jobVars
<1>3. hits # {} => n \in 1..Len(builds[id]) /\ n \in Nat /\ n \in hits
  <2>1. hits \subseteq 1..Len(builds[id])
    BY <1>1 DEF FoundExist
  <2>2. Len(builds[id]) \in Nat
    BY <1>1, LenProperties DEF ServerTypeOK
  <2>3. hits \in SUBSET Nat
    BY <2>1, <2>2
  <2> HIDE DEF hits
  <2>4. QED
    BY <2>1, <2>3, MinType
<1>4. \/ \E calls \in Seq(Frame) : Proceed(calls)
      \/ Raise
  <2>1. CASE Proceed(rest)
    BY <1>1, <2>1
  <2>2. CASE Proceed(<<CallAt("Streaming", j, number[j])>> \o rest)
    <3>1. CallAt("Streaming", j, number[j]) \in Frame
      BY <1>1, CallType DEF JobTypes, JobOps
    <3>2. QED
      BY <1>1, <2>2, <3>1, OneCallType
  <2>3. CASE Proceed(<<Call("Cut", j)>> \o rest)
    <3>1. Call("Cut", j) \in Frame
      BY <1>1, CallType DEF JobOps
    <3>2. QED
      BY <1>1, <2>3, <3>1, OneCallType
  <2>4. CASE j # Root /\ hits # {} /\ Proceed(<<CallAt("Streaming", j, n)>> \o rest)
    <3>1. CallAt("Streaming", j, n) \in Frame
      BY <1>1, <1>3, <2>4, CallType DEF JobOps
    <3>2. QED
      BY <1>1, <2>4, <3>1, OneCallType
  <2>5. CASE /\ hits # {} /\ ~Undetermined(id, n) /\ MainJob(id, n) # j
             /\ Proceed(<<CallWith("Join", j, MainJob(id, n))>> \o rest)
    <3>1. n \in 1..Len(builds[id]) /\ j \in Range(Secondary(id, n))
      BY <1>3, <2>5
    <3>2. Secondary(id, n) # <<>>
      <4>1. Range(<<>>) = {}
        BY DEF Range
      <4> HIDE DEF j, n, id
      <4>2. QED
        BY <3>1, <4>1
    <3>3. MainJob(id, n) \in Job
      BY <1>1, <3>1, <3>2, MainJobTypes
    <3>4. CallWith("Join", j, MainJob(id, n)) \in Frame
      BY <1>1, <3>3, CallType DEF JobOps
    <3>5. QED
      BY <1>1, <2>5, <3>4, OneCallType
  <2>6. CASE Raise
    BY <2>6
  <2>7. QED
    BY <2>1, <2>2, <2>3, <2>4, <2>5, <2>6 DEF Resolve
<1>5. OutTypes' /\ CallTypes'
  BY <1>4, ProceedType, RaiseType
<1>6. SearchTypes' /\ SameFound
  <2>1. \/ UNCHANGED search
        \/ search' = [search EXCEPT ![id].work = "missing"]
    BY DEF Resolve
  <2>2. QED
    BY <1>1, <2>1, SameSearchType, SearchSetWork DEF SearchWork
<1>7. QED
  BY <1>2, <1>5, <1>6 DEF StepTypes

(* The job call at the head of the callback. *)
LEMMA HeadJobCall ==
  ASSUME CallTypes, todo # <<>>, Head(todo).op \in JobOps
  PROVE  /\ Head(todo).job \in Job /\ Head(todo).main \in Job /\ Head(todo).num \in Nat
         /\ Head(todo).op = "Streaming" /\ Head(todo).job = Root => Head(todo).num = RootNumber
         /\ Tail(todo) \in Seq(Frame)
  BY HeadTailType, JobCallFields

LEMMA SetStreamingType ==
  ASSUME TypeInv, todo # <<>>, SetStreaming(Head(todo))
  PROVE  StepTypes /\ SameFound
<1> DEFINE f == Head(todo)
           j == f.job
           rest == Tail(todo)
<1> USE DEF TypeInv
<1>1. j \in Job /\ f.num \in Nat /\ rest \in Seq(Frame)
  BY HeadJobCall DEF SetStreaming, JobOps
<1>2. <<Call("Finishing", j)>> \o rest \in Seq(Frame) /\ <<Call("JoinOthers", j)>> \o rest \in Seq(Frame)
  BY <1>1, CallType, OneCallType DEF JobOps
<1>3. "Streaming" \in JobState
  BY DEF JobState
<1> HIDE DEF j, rest
<1> DEFINE Goal == state' \in [Job -> JobState] /\ OutTypes' /\ CallTypes'
<1>4. ASSUME NEW calls \in Seq(Frame), ChangeState(j, "Streaming", calls) PROVE Goal
  BY <1>1, <1>3, <1>4, ChangeStateType
<1>5. ASSUME Raise, UNCHANGED state PROVE Goal
  BY <1>5, RaiseType DEF JobTypes
<1>6. ASSUME NEW calls \in Seq(Frame), Proceed(calls), UNCHANGED state PROVE Goal
  BY <1>6, ProceedType DEF JobTypes
<1>7. Goal
  <2> HIDE DEF Goal
  <2>1. QED
    BY <1>2, <1>4, <1>5, <1>6 DEF SetStreaming, j, rest
<1>8. number' \in [Job -> Nat] /\ number'[Root] = RootNumber
  <2>1. CASE number' = [number EXCEPT ![j] = f.num]
    <3>1. f.op = "Streaming"
      BY DEF SetStreaming
    <3>2. j = Root => f.num = RootNumber
      BY <3>1, HeadJobCall DEF JobOps, j
    <3>3. QED
      BY <1>1, <2>1, <3>2, TreeAssumption DEF JobTypes
  <2>2. CASE number' = number
    BY <2>2 DEF JobTypes
  <2>3. QED
    BY <2>1, <2>2 DEF SetStreaming, j
<1>9. JobTypes'
  BY <1>7, <1>8 DEF SetStreaming, JobTypes
<1>10. SearchTypes' /\ SameFound
  BY SameSearchType DEF SetStreaming
<1>11. QED
  BY <1>7, <1>9, <1>10 DEF StepTypes

LEMMA SetFinishingType ==
  ASSUME TypeInv, todo # <<>>, SetFinishing(Head(todo))
  PROVE  StepTypes /\ SameFound
<1> USE DEF TypeInv
<1>1. Head(todo).job \in Job /\ Tail(todo) \in Seq(Frame)
  BY HeadJobCall DEF SetFinishing, JobOps
<1>2. state' \in [Job -> JobState] /\ OutTypes' /\ CallTypes'
  BY <1>1, ChangeStateType DEF SetFinishing, JobState
<1>3. JobTypes'
  BY <1>2 DEF SetFinishing, JobTypes
<1>4. SearchTypes' /\ SameFound
  BY SameSearchType DEF SetFinishing
<1>5. QED
  BY <1>2, <1>3, <1>4 DEF StepTypes

LEMMA JoinOthersType ==
  ASSUME TypeInv, todo # <<>>, JoinOthersToMe(Head(todo))
  PROVE  StepTypes /\ SameFound
<1> DEFINE j == Head(todo).job
           id == IdentOf[j]
           n == number[j]
           others == Secondary(id, n)
           calls == [i \in DOMAIN others |-> CallWith("JoinUnlessCut", others[i], j)]
<1> USE DEF TypeInv
<1>1. j \in Job /\ id \in Ident /\ Tail(todo) \in Seq(Frame)
  BY HeadJobCall, TreeAssumption DEF JoinOthersToMe, JobOps
<1>2. ASSUME Proceed(Tail(todo)) PROVE OutTypes' /\ CallTypes'
  BY <1>1, <1>2, ProceedType
<1>3. ASSUME Raise PROVE OutTypes' /\ CallTypes'
  BY <1>3, RaiseType
<1>4. ASSUME n \in search[id].found, Proceed(calls \o Tail(todo)) PROVE OutTypes' /\ CallTypes'
  <2>1. n \in 1..Len(builds[id])
    BY <1>1, <1>4 DEF FoundExist
  <2>2. others \in Seq(Job)
    BY <1>1, <2>1, MainJobTypes
  <2> HIDE DEF others
  <2>3. calls \in Seq(Frame)
    BY <1>1, <2>2, CallsWithType DEF JobOps
  <2>4. calls \o Tail(todo) \in Seq(Frame)
    BY <1>1, <2>3, ConcatProperties
  <2>5. QED
    BY <1>4, <2>4, ProceedType
<1>5. OutTypes' /\ CallTypes'
  BY <1>2, <1>3, <1>4 DEF JoinOthersToMe
<1>6. JobTypes'
  BY DEF JoinOthersToMe, jobVars, JobTypes
<1>7. SearchTypes' /\ SameFound
  BY SameSearchType DEF JoinOthersToMe
<1>8. QED
  BY <1>5, <1>6, <1>7 DEF StepTypes

LEMMA CutChildrenType ==
  ASSUME NEW j \in Job, NEW rest \in Seq(Frame)
  PROVE  CutAll(Children(j)) \o rest \in Seq(Frame)
  BY ChildrenType, CutAllType, ConcatProperties

LEMMA SetJoinedType ==
  ASSUME TypeInv, todo # <<>>, SetJoined(Head(todo))
  PROVE  StepTypes /\ SameFound
<1> DEFINE j == Head(todo).job
           m == Head(todo).main
<1> USE DEF TypeInv
<1>1. j \in Job /\ m \in Job /\ Tail(todo) \in Seq(Frame)
  BY HeadJobCall DEF SetJoined, JobOps
<1>2. CutAll(Children(j)) \o Tail(todo) \in Seq(Frame)
  BY <1>1, CutChildrenType
<1>3. Proceed(Tail(todo)) \/ Raise \/ Proceed(CutAll(Children(j)) \o Tail(todo))
  BY DEF SetJoined
<1>4. OutTypes' /\ CallTypes'
  BY <1>1, <1>2, <1>3, ProceedType, RaiseType
<1>5. state' \in [Job -> JobState] /\ joined' \in [Job -> Job \cup {NoJob}]
  BY <1>1 DEF SetJoined, JobTypes, JobState
<1>6. JobTypes'
  BY <1>5 DEF SetJoined, JobTypes
<1>7. SearchTypes' /\ SameFound
  BY SameSearchType DEF SetJoined
<1>8. QED
  BY <1>4, <1>6, <1>7 DEF StepTypes

LEMMA CutType ==
  ASSUME TypeInv, todo # <<>>, Cut(Head(todo))
  PROVE  StepTypes /\ SameFound
<1> USE DEF TypeInv
<1>1. Head(todo).job \in Job /\ Tail(todo) \in Seq(Frame)
  BY HeadJobCall DEF Cut, JobOps
<1>2. CutAll(Children(Head(todo).job)) \o Tail(todo) \in Seq(Frame)
  BY <1>1, CutChildrenType
<1>3. state' \in [Job -> JobState] /\ OutTypes' /\ CallTypes'
  BY <1>1, <1>2, ChangeStateType DEF Cut, JobState
<1>4. JobTypes'
  BY <1>3 DEF Cut, JobTypes
<1>5. SearchTypes' /\ SameFound
  BY SameSearchType DEF Cut
<1>6. QED
  BY <1>3, <1>4, <1>5 DEF StepTypes

LEMMA EndInitializeType ==
  ASSUME TypeInv, todo # <<>>, EndInitialize(Head(todo))
  PROVE  StepTypes /\ SameFound
<1> USE DEF TypeInv
<1>1. Head(todo).job \in Job /\ Tail(todo) \in Seq(Frame)
  BY HeadJobCall DEF EndInitialize, JobOps
<1>2. OutTypes' /\ CallTypes'
  BY <1>1, ProceedType DEF EndInitialize
<1>3. JobTypes'
  BY DEF EndInitialize, JobTypes, JobState, Work
<1>4. SearchTypes' /\ SameFound
  BY SameSearchType DEF EndInitialize
<1>5. QED
  BY <1>2, <1>3, <1>4 DEF StepTypes

(* The search call at the head of the callback. *)
LEMMA HeadSearchCall ==
  ASSUME CallTypes, todo # <<>>, Head(todo).op \in {"Decide", "Advance"}
  PROVE  Head(todo).id \in Ident /\ Tail(todo) \in Seq(Frame)
  BY HeadTailType, SearchCallFields

LEMMA DecideType ==
  ASSUME TypeInv, todo # <<>>, Decide(Head(todo))
  PROVE  StepTypes /\ SameFound
<1> DEFINE id == Head(todo).id
           s == search[id]
           t == IF s.work = "missing" THEN [s EXCEPT !.work = "locate"]
                ELSE [s EXCEPT !.work = "idle", !.seeking = <<>>]
<1> USE DEF TypeInv
<1>1. id \in Ident /\ Tail(todo) \in Seq(Frame)
  BY HeadSearchCall DEF Decide
<1>2. OutTypes' /\ CallTypes'
  BY <1>1, ProceedType DEF Decide
<1>3. JobTypes'
  BY DEF Decide, jobVars, JobTypes
<1>4. search' = [search EXCEPT ![id] = t]
  BY DEF Decide
<1>5. s \in Search /\ <<>> \in Seq(Job) /\ {"idle", "locate"} \subseteq SearchWork
  BY <1>1, EmptySeq DEF SearchTypes, SearchWork
<1> HIDE DEF s, id
<1>6. t \in Search /\ t.found = s.found
  <2> DEFINE located == [s EXCEPT !.work = "locate"]
             rested == [s EXCEPT !.work = "idle", !.seeking = <<>>]
  <2>1. located \in Search /\ located.found = s.found
    BY <1>5, SearchFields
  <2>2. rested \in Search /\ rested.found = s.found
    BY <1>5, SearchRests
  <2>3. t = IF s.work = "missing" THEN located ELSE rested
    OBVIOUS
  <2> HIDE DEF located, rested, t
  <2>4. QED
    BY <2>1, <2>2, <2>3
<1> HIDE DEF t
<1>7. SearchTypes' /\ SameFound
  BY <1>1, <1>4, <1>6, SearchSet DEF s
<1>8. QED
  BY <1>2, <1>3, <1>7 DEF StepTypes

LEMMA AdvanceType ==
  ASSUME TypeInv, todo # <<>>, Advance(Head(todo))
  PROVE  StepTypes /\ SameFound
<1> DEFINE id == Head(todo).id
           s == search[id]
           b == s.forward \/ Turns(id)
           n == IF Turns(id) THEN s.first + 1
                ELSE IF s.forward THEN s.next + 1 ELSE s.next - 1
           u == [s EXCEPT !.forward = b]
           v == [u EXCEPT !.next = n]
           t == [v EXCEPT !.work = "idle", !.seeking = <<>>]
<1> USE DEF TypeInv
<1>1. id \in Ident /\ Tail(todo) \in Seq(Frame)
  BY HeadSearchCall DEF Advance
<1>2. OutTypes' /\ CallTypes'
  BY <1>1, ProceedType DEF Advance
<1>3. JobTypes'
  BY DEF Advance, jobVars, JobTypes
<1>4. search' = [search EXCEPT ![id] = t]
  BY DEF Advance
<1>5. s \in Search /\ <<>> \in Seq(Job) /\ "idle" \in SearchWork
  BY <1>1, EmptySeq DEF SearchTypes, SearchWork
<1>6. b \in BOOLEAN
  BY DEF Turns
<1>7. n \in Nat
  BY <1>5 DEF Turns, Search
<1> HIDE DEF s, id, b, n
<1>8. u \in Search /\ u.found = s.found
  BY <1>5, <1>6, SearchFields
<1> HIDE DEF u
<1>9. v \in Search /\ v.found = s.found
  BY <1>7, <1>8, SearchFields
<1> HIDE DEF v
<1>10. t \in Search /\ t.found = s.found
  BY <1>5, <1>9, SearchRests
<1> HIDE DEF t
<1>11. SearchTypes' /\ SameFound
  BY <1>1, <1>4, <1>10, SearchSet DEF s
<1>12. QED
  BY <1>2, <1>3, <1>11 DEF StepTypes

(* What every step of the tracker that leaves the server alone must show. *)
LEMMA KeepsFound ==
  ASSUME FoundExist, UNCHANGED builds, SameFound
  PROVE  FoundExist'
  BY DEF FoundExist, SameFound

LEMMA SameServerType ==
  ASSUME ServerTypeOK, UNCHANGED serverVars
  PROVE  ServerTypeOK'
  BY DEF ServerTypeOK, serverVars

LEMMA SameQueueType ==
  ASSUME QueueTypes, UNCHANGED queueVars
  PROVE  QueueTypes'
  BY DEF QueueTypes, queueVars

LEMMA ContinueType ==
  ASSUME TypeInv, Continue
  PROVE  TypeInv' /\ SameFound
<1>1. StepTypes /\ SameFound
  BY ResolveType, SetStreamingType, SetFinishingType, JoinOthersType, SetJoinedType,
     CutType, EndInitializeType, DecideType, AdvanceType DEF Continue
<1>2. ServerTypeOK' /\ QueueTypes' /\ FaultTypes'
  BY SameServerType, SameQueueType DEF Continue, TypeInv, FaultTypes
<1>3. FoundExist'
  BY <1>1, KeepsFound DEF Continue, TypeInv, serverVars
<1>4. QED
  BY <1>1, <1>2, <1>3 DEF TypeInv, StepTypes
-----------------------------------------------------------------------------
(* Callbacks. *)

LEMMA FaultType ==
  ASSUME FaultTypes, NEW r, NEW k, Fault(r, k) \/ Refused(r) \/ Broken(r)
  PROVE  FaultTypes'
  BY OptionAssumption DEF FaultTypes, Fault, Refused, Broken

(* A step of a job that starts no call and leaves searches, server and      *)
(* queue alone.                                                             *)
LEMMA LocalType ==
  ASSUME TypeInv, JobTypes', OutTypes', CallTypes', FaultTypes',
         QueueTypes', UNCHANGED <<serverVars, search>>
  PROVE  TypeInv'
<1>1. ServerTypeOK' /\ SearchTypes' /\ SameFound
  BY SameServerType, SameSearchType DEF TypeInv
<1>2. FoundExist'
  BY <1>1, KeepsFound DEF TypeInv, serverVars
<1>3. QED
  BY <1>1, <1>2 DEF TypeInv

LEMMA StayIdleType ==
  ASSUME TypeInv, NEW j, StayIdle(j)
  PROVE  JobTypes' /\ OutTypes' /\ CallTypes'
  BY DEF TypeInv, StayIdle, JobTypes, OutTypes, CallTypes, outVars, Work

LEMMA WaitType ==
  ASSUME JobTypes, NEW j, Wait(j)
  PROVE  JobTypes'
  BY DEF Wait, JobTypes, Work

LEMMA JobTimerType ==
  ASSUME TypeInv, NEW j \in Job, JobTimer(j)
  PROVE  TypeInv'
<1>1. UNCHANGED <<serverVars, search, queueVars, faults>>
  BY DEF JobTimer
<1>2. QueueTypes' /\ FaultTypes'
  BY <1>1, SameQueueType DEF TypeInv, FaultTypes
<1>3. JobTypes' /\ OutTypes' /\ CallTypes'
  <2>1. ASSUME NEW w \in Work, work' = [work EXCEPT ![j] = w],
               UNCHANGED <<allJobs, state, number, joined, console, result, todo, outVars>>
        PROVE  JobTypes' /\ OutTypes' /\ CallTypes'
    BY <2>1 DEF TypeInv, JobTypes, OutTypes, CallTypes, outVars
  <2>2. ASSUME StopWork(j, "Queued"), UNCHANGED result
        PROVE  JobTypes' /\ OutTypes' /\ CallTypes'
    BY <2>2, StopWorkType DEF TypeInv, JobTypes, JobState
  <2>3. ASSUME StayIdle(j)
        PROVE  JobTypes' /\ OutTypes' /\ CallTypes'
    BY <2>3, StayIdleType
  <2>4. {"then", "init", "stream", "download", "finish"} \subseteq Work
    BY DEF Work
  <2>5. QED
    BY <2>1, <2>2, <2>3, <2>4 DEF JobTimer
<1>4. QED
  BY <1>1, <1>2, <1>3, LocalType

LEMMA StreamResponseType ==
  ASSUME TypeInv, NEW j \in Job, StreamResponse(j)
  PROVE  TypeInv'
<1> DEFINE Goal == JobTypes' /\ OutTypes' /\ CallTypes' /\ FaultTypes' /\ opts' \in [console : BOOLEAN, pipeline : BOOLEAN, shouldFail : BOOLEAN]
<1> USE DEF TypeInv
<1>1. ASSUME StayIdle(j), UNCHANGED opts, UNCHANGED faults \/ Missing("stream", j)
      PROVE  Goal
  BY <1>1, StayIdleType, FaultType DEF QueueTypes, FaultTypes, Missing
<1>2. ASSUME StopWork(j, "Finishing"), UNCHANGED <<opts, faults, result>>
      PROVE  Goal
  BY <1>2, StopWorkType DEF QueueTypes, FaultTypes, JobTypes, JobState
<1>3. ASSUME Fault("stream", "error"), Raise, Wait(j), UNCHANGED opts
      PROVE  Goal
  BY <1>3, RaiseType, WaitType, FaultType DEF QueueTypes
<1>4. ASSUME Fault("stream", "reset") \/ Fault("stream", "status"), Report("Failed"),
             work' = [work EXCEPT ![j] = "idle"],
             UNCHANGED <<allJobs, state, number, joined, console, result, todo, opts>>
      PROVE  Goal
  BY <1>4, ReportType, FaultType DEF QueueTypes, JobTypes, Work, CallTypes
<1>5. ASSUME Fault("stream", "denied"), Report("Failed"),
             opts' = [console |-> FALSE, pipeline |-> FALSE, shouldFail |-> TRUE],
             state' = [state EXCEPT ![j] = "Finishing"],
             work' = [work EXCEPT ![j] = "idle"],
             UNCHANGED <<allJobs, number, joined, console, result, todo>>
      PROVE  Goal
  BY <1>5, ReportType, FaultType DEF JobTypes, JobState, Work, CallTypes
<1>6. Goal /\ UNCHANGED <<serverVars, search, interval, complete, summary>>
  <2> HIDE DEF Goal
  <2>1. QED
    BY <1>1, <1>2, <1>3, <1>4, <1>5 DEF StreamResponse
<1>7. QueueTypes'
  BY <1>6 DEF QueueTypes
<1>8. QED
  BY <1>6, <1>7, LocalType

LEMMA VisibleExists ==
  ASSUME ServerTypeOK, NEW id \in Ident, NEW n, Visible(id, n)
  PROVE  n \in 1..Len(builds[id])
<1>1. Len(builds[id]) \in Nat /\ Discarded[id] \in Nat
  BY ServerAssumption, LenProperties DEF ServerTypeOK
<1>2. QED
  BY <1>1 DEF Visible

LEMMA FinishResponseType ==
  ASSUME TypeInv, NEW j \in Job, FinishResponse(j)
  PROVE  TypeInv'
<1> DEFINE Goal == JobTypes' /\ OutTypes' /\ CallTypes' /\ FaultTypes'
           b == builds[IdentOf[j]][number[j]]
<1> USE DEF TypeInv
<1>1. ASSUME StayIdle(j), UNCHANGED faults \/ Fault("finish", "reset")
      PROVE  Goal
  BY <1>1, StayIdleType, FaultType DEF FaultTypes
<1>2. ASSUME Answers(j), HasResult(b), result' = [result EXCEPT ![j] = b.result],
             NEW s \in {"Downloading", "Done"}, StopWork(j, s), UNCHANGED faults
      PROVE  Goal
  <2>1. b \in Build
    <3>1. IdentOf[j] \in Ident
      BY TreeAssumption
    <3>2. builds[IdentOf[j]] \in Seq(Build)
      BY <3>1 DEF ServerTypeOK
    <3>3. number[j] \in 1..Len(builds[IdentOf[j]])
      BY <1>2, <3>1, VisibleExists DEF Answers
    <3>4. QED
      BY <3>2, <3>3, ElementOfSeq
  <2> HIDE DEF b
  <2>2. b.result \in Results
    BY <1>2, <2>1 DEF Build, HasResult
  <2>3. result' \in [Job -> Results \cup {"none"}]
    BY <1>2, <2>2 DEF JobTypes
  <2>4. s \in JobState
    BY DEF JobState
  <2>5. QED
    BY <1>2, <2>3, <2>4, StopWorkType DEF FaultTypes
<1>3. ASSUME Fault("finish", "error"), Raise, Wait(j)
      PROVE  Goal
  BY <1>3, RaiseType, WaitType, FaultType
<1>4. ASSUME Missing("finish", j) \/ Fault("finish", "denied") \/ Fault("finish", "status"),
             Report("Failed"), Wait(j), UNCHANGED todo
      PROVE  Goal
  BY <1>4, ReportType, WaitType, FaultType DEF CallTypes, Missing, FaultTypes
<1>5. Goal /\ UNCHANGED <<serverVars, search, queueVars>>
  <2> HIDE DEF Goal
  <2>1. QED
    BY <1>1, <1>2, <1>3, <1>4 DEF FinishResponse
<1>6. QED
  BY <1>5, SameQueueType, LocalType

LEMMA DownloadResponseType ==
  ASSUME TypeInv, NEW j \in Job, DownloadResponse(j)
  PROVE  TypeInv'
<1> DEFINE Goal == JobTypes' /\ OutTypes' /\ CallTypes' /\ FaultTypes'
<1> USE DEF TypeInv
<1>1. ASSUME StopWork(j, "Done"), UNCHANGED result,
             UNCHANGED faults \/ Refused("download")
      PROVE  Goal
  BY <1>1, StopWorkType, FaultType DEF JobTypes, JobState, FaultTypes
<1>2. ASSUME Fault("download", "reset"), StayIdle(j)
      PROVE  Goal
  BY <1>2, StayIdleType, FaultType
<1>3. ASSUME Fault("download", "error"), Raise, Wait(j)
      PROVE  Goal
  BY <1>3, RaiseType, WaitType, FaultType
<1>4. Goal /\ UNCHANGED <<serverVars, search, queueVars>>
  <2> HIDE DEF Goal
  <2>1. QED
    BY <1>1, <1>2, <1>3 DEF DownloadResponse
<1>5. QED
  BY <1>4, SameQueueType, LocalType

-----------------------------------------------------------------------------
(* Callbacks that change searches. *)

LEMMA LastBuildType ==
  ASSUME ServerTypeOK, NEW id \in Ident
  PROVE  LastBuild(id) \in Nat
  BY LenProperties DEF ServerTypeOK, LastBuild

LEMMA InitializedType ==
  ASSUME TypeInv, NEW id \in Ident
  PROVE  /\ Initialized(search[id], id) \in Search
         /\ Initialized(search[id], id).found = search[id].found
<1> DEFINE s == search[id]
           a == [s EXCEPT !.ready = TRUE]
           b == [a EXCEPT !.ctor = FALSE]
           c == [b EXCEPT !.first = LastBuild(id)]
           d == [c EXCEPT !.next = LastBuild(id)]
           e == [d EXCEPT !.forward = FALSE]
<1>1. s \in Search /\ LastBuild(id) \in Nat
  BY LastBuildType DEF TypeInv, SearchTypes
<1>2. Initialized(s, id) = IF s.ready THEN s ELSE e
  BY DEF Initialized
<1> HIDE DEF s
<1>3. a \in Search /\ a.found = s.found
  BY <1>1, SearchFields
<1> HIDE DEF a
<1>4. b \in Search /\ b.found = s.found
  BY <1>3, SearchFields
<1> HIDE DEF b
<1>5. c \in Search /\ c.found = s.found
  BY <1>1, <1>4, SearchFields
<1> HIDE DEF c
<1>6. d \in Search /\ d.found = s.found
  BY <1>1, <1>5, SearchFields
<1> HIDE DEF d
<1>7. e \in Search /\ e.found = s.found
  BY <1>6, SearchFields
<1> HIDE DEF e
<1>8. QED
  BY <1>1, <1>2, <1>7 DEF s

(* A step that leaves jobs' data typed, the server alone and every search   *)
(* as found.                                                                *)
LEMMA SearchingType ==
  ASSUME TypeInv, StepTypes, SameFound, FaultTypes', UNCHANGED <<serverVars, queueVars>>
  PROVE  TypeInv'
<1>1. ServerTypeOK' /\ QueueTypes'
  BY SameServerType, SameQueueType DEF TypeInv
<1>2. FoundExist'
  BY KeepsFound DEF TypeInv, serverVars
<1>3. QED
  BY <1>1, <1>2 DEF TypeInv, StepTypes

LEMMA SetWorkType ==
  ASSUME JobTypes, NEW j, NEW w \in Work, work' = [work EXCEPT ![j] = w],
         UNCHANGED <<allJobs, state, number, joined, console, result>>
  PROVE  JobTypes'
  BY DEF JobTypes

LEMMA InitResponseType ==
  ASSUME TypeInv, NEW j \in Job, InitResponse(j)
  PROVE  TypeInv' /\ SameFound
<1> DEFINE id == IdentOf[j]
<1>1. id \in Ident
  BY TreeAssumption
<1>2. SearchTypes' /\ SameFound
  <2>1. CASE UNCHANGED search
    BY <2>1, SameSearchType DEF TypeInv
  <2>2. CASE search' = [search EXCEPT ![id] = Initialized(@, id)]
    <3> DEFINE s == Initialized(search[id], id)
    <3>1. s \in Search /\ s.found = search[id].found
      BY <1>1, InitializedType
    <3>2. search' = [search EXCEPT ![id] = s]
      BY <2>2
    <3> HIDE DEF s, id
    <3>3. QED
      BY <1>1, <3>1, <3>2, SearchSet DEF TypeInv
  <2>3. QED
    BY <2>1, <2>2 DEF InitResponse
<1>3. \E w \in Work : work' = [work EXCEPT ![j] = w]
  BY DEF InitResponse, Work
<1>4. JobTypes' /\ OutTypes' /\ CallTypes'
  BY <1>3, SetWorkType DEF InitResponse, TypeInv, OutTypes, outVars, CallTypes
<1>5. FaultTypes'
  BY FaultType DEF InitResponse, TypeInv, FaultTypes
<1>6. QED
  BY <1>2, <1>4, <1>5, SearchingType DEF InitResponse, StepTypes

LEMMA CtorResponseType ==
  ASSUME TypeInv, NEW id \in Ident, CtorResponse(id)
  PROVE  TypeInv' /\ SameFound
<1>1. SearchTypes' /\ SameFound
  <2>1. CASE search' = [search EXCEPT ![id] = Initialized(@, id)]
    <3> DEFINE s == Initialized(search[id], id)
    <3>1. s \in Search /\ s.found = search[id].found
      BY InitializedType
    <3>2. search' = [search EXCEPT ![id] = s]
      BY <2>1
    <3> HIDE DEF s
    <3>3. QED
      BY <3>1, <3>2, SearchSet DEF TypeInv
  <2>2. CASE search' = [search EXCEPT ![id].ctor = FALSE]
    <3> DEFINE s == [search[id] EXCEPT !.ctor = FALSE]
    <3>1. search[id] \in Search
      BY DEF TypeInv, SearchTypes
    <3>2. s \in Search /\ s.found = search[id].found
      BY <3>1, SearchFields
    <3>3. search' = [search EXCEPT ![id] = s]
      BY <2>2
    <3> HIDE DEF s
    <3>4. QED
      BY <3>2, <3>3, SearchSet DEF TypeInv
  <2>3. QED
    BY <2>1, <2>2 DEF CtorResponse
<1>2. FaultTypes'
  BY FaultType DEF CtorResponse, TypeInv, FaultTypes
<1>3. JobTypes' /\ OutTypes' /\ CallTypes'
  BY DEF CtorResponse, TypeInv, jobVars, JobTypes, outVars, OutTypes, CallTypes
<1>4. QED
  BY <1>1, <1>2, <1>3, SearchingType DEF CtorResponse, StepTypes

LEMMA SearchTimerType ==
  ASSUME TypeInv, NEW id \in Ident, SearchTimer(id)
  PROVE  TypeInv' /\ SameFound
<1> DEFINE s == search[id].seeking
           sought == [i \in DOMAIN s |-> Call("Sought", s[i])]
<1>1. SearchTypes' /\ SameFound
  BY SearchSetWork DEF SearchTimer, TypeInv, SearchWork
<1>2. s \in Seq(Job)
  BY DEF TypeInv, SearchTypes, Search
<1> HIDE DEF s
<1>3. sought \in Seq(Frame)
  BY <1>2, CallsType DEF JobOps
<1>4. <<SearchDo("Decide", id)>> \in Seq(Frame)
  BY SearchDoType, OneCallType, EmptySeq
<1>5. todo' = sought \o <<SearchDo("Decide", id)>>
  BY DEF SearchTimer, s
<1> HIDE DEF sought
<1>6. CallTypes'
  BY <1>3, <1>4, <1>5, ConcatProperties DEF CallTypes
<1>7. JobTypes' /\ OutTypes' /\ FaultTypes'
  BY DEF SearchTimer, TypeInv, jobVars, JobTypes, outVars, OutTypes, FaultTypes
<1>8. QED
  BY <1>1, <1>6, <1>7, SearchingType DEF SearchTimer, StepTypes

LEMMA LearnedType ==
  ASSUME TypeInv, NEW id \in Ident
  PROVE  /\ Learned(search[id]) \in Search
         /\ Learned(search[id]).found = search[id].found \cup {search[id].next}
<1> DEFINE s == search[id]
           t == [s EXCEPT !.work = "busy"]
<1>1. s \in Search
  BY DEF TypeInv, SearchTypes
<1> HIDE DEF s
<1>2. t \in Search /\ t.found = s.found
  BY <1>1, SearchFields DEF SearchWork
<1>3. Learned(s) = [t EXCEPT !.found = s.found \cup {s.next}]
  BY DEF Learned
<1> HIDE DEF t
<1>4. s.found \cup {s.next} \in SUBSET Nat
  BY <1>1 DEF Search
<1>5. /\ [t EXCEPT !.found = s.found \cup {s.next}] \in Search
      /\ [t EXCEPT !.found = s.found \cup {s.next}].found = s.found \cup {s.next}
  BY <1>2, <1>4 DEF Search
<1>6. QED
  BY <1>3, <1>5 DEF s

LEMMA LocateResponseType ==
  ASSUME TypeInv, NEW id \in Ident, LocateResponse(id)
  PROVE  TypeInv' /\ FoundGrows
<1> DEFINE n == search[id].next
           j == MainJob(id, n)
<1> USE DEF TypeInv
<1>1. JobTypes' /\ ServerTypeOK' /\ QueueTypes'
  BY SameServerType, SameQueueType DEF LocateResponse, jobVars, JobTypes
<1>2. FaultTypes'
  BY FaultType DEF LocateResponse, FaultTypes
<1>3. SearchTypes' /\ FoundExist' /\ FoundGrows
  <2>1. ASSUME Visible(id, n), search' = [search EXCEPT ![id] = Learned(@)], UNCHANGED builds
        PROVE  SearchTypes' /\ FoundExist' /\ FoundGrows
    <3> DEFINE s == Learned(search[id])
    <3>1. s \in Search /\ s.found = search[id].found \cup {n}
      BY LearnedType
    <3>2. n \in 1..Len(builds[id])
      BY <2>1, VisibleExists
    <3>3. search' = [search EXCEPT ![id] = s]
      BY <2>1
    <3> HIDE DEF s, n
    <3>4. SearchTypes'
      BY <3>1, <3>3 DEF SearchTypes
    <3>5. ASSUME NEW d \in Ident PROVE search'[d].found \subseteq 1..Len(builds[d])
      BY <3>1, <3>2, <3>3 DEF SearchTypes, FoundExist
    <3>6. QED
      BY <2>1, <3>1, <3>3, <3>4, <3>5 DEF FoundExist, FoundGrows, SearchTypes
  <2>2. ASSUME search' = [search EXCEPT ![id].work = "idle", ![id].seeking = <<>>], UNCHANGED builds
        PROVE  SearchTypes' /\ FoundExist' /\ FoundGrows
    BY <2>2, SearchSetRest, KeepsFound DEF SameFound, FoundGrows
  <2>3. ASSUME search' = [search EXCEPT ![id].work = "busy"], UNCHANGED builds
        PROVE  SearchTypes' /\ FoundExist' /\ FoundGrows
    BY <2>3, SearchSetWork, KeepsFound DEF SearchWork, SameFound, FoundGrows
  <2>4. QED
    BY <2>1, <2>2, <2>3 DEF LocateResponse, serverVars
<1>4. OutTypes' /\ CallTypes'
  <2> DEFINE Goal == OutTypes' /\ CallTypes'
  <2>1. ASSUME Visible(id, n), j # NoJob,
               Proceed(<<CallAt("Streaming", j, n), SearchDo("Advance", id)>>)
        PROVE  Goal
    <3>1. n \in 1..Len(builds[id]) /\ n \in Nat
      BY <2>1, VisibleExists DEF SearchTypes, Search
    <3> HIDE DEF n
    <3>2. j \in Job \ {Root}
      BY <2>1, <3>1, MainJobTypes
    <3> HIDE DEF j
    <3>3. CallAt("Streaming", j, n) \in Frame /\ SearchDo("Advance", id) \in Frame
      BY <3>1, <3>2, CallType, SearchDoType DEF JobOps
    <3>4. <<CallAt("Streaming", j, n), SearchDo("Advance", id)>> \in Seq(Frame)
      BY <3>3
    <3>5. QED
      BY <2>1, <3>4, ProceedType
  <2>2. ASSUME Proceed(<<SearchDo("Advance", id)>>) PROVE Goal
    <3>1. <<SearchDo("Advance", id)>> \in Seq(Frame)
      BY SearchDoType, OneCallType, EmptySeq
    <3>2. QED
      BY <2>2, <3>1, ProceedType
  <2>3. ASSUME Raise PROVE Goal
    BY <2>3, RaiseType
  <2>4. ASSUME UNCHANGED <<todo, outVars>> PROVE Goal
    BY <2>4 DEF OutTypes, outVars, CallTypes
  <2>5. ASSUME Report("Failed"), UNCHANGED todo PROVE Goal
    BY <2>5, ReportType DEF CallTypes
  <2> HIDE DEF Goal
  <2>6. Goal
    BY <2>1, <2>2, <2>3, <2>4, <2>5 DEF LocateResponse
  <2>7. QED
    BY <2>6 DEF Goal
<1>5. QED
  BY <1>1, <1>2, <1>3, <1>4

LEMMA InitThenType ==
  ASSUME TypeInv, NEW j \in Job, InitThen(j)
  PROVE  TypeInv' /\ SameFound
<1> DEFINE kids == IF opts.pipeline THEN Kids[j] ELSE <<>>
<1> USE DEF TypeInv
<1>1. FaultTypes' /\ UNCHANGED <<serverVars, queueVars>>
  BY DEF InitThen, FaultTypes
<1>2. SearchTypes' /\ SameFound
  <2>1. CASE UNCHANGED search
    BY <2>1, SameSearchType
  <2>2. ASSUME NEW new,
               search' = [id \in Ident |-> IF id \in new THEN [search[id] EXCEPT !.ctor = TRUE]
                                           ELSE search[id]]
        PROVE  SearchTypes' /\ SameFound
    <3>1. ASSUME NEW id \in Ident
          PROVE  search'[id] \in Search /\ search'[id].found = search[id].found
      <4> DEFINE s == search[id]
                 t == [s EXCEPT !.ctor = TRUE]
      <4>1. s \in Search
        BY DEF SearchTypes
      <4>2. search'[id] = IF id \in new THEN t ELSE s
        BY <2>2
      <4> HIDE DEF s
      <4>3. t \in Search /\ t.found = s.found
        BY <4>1, SearchFields
      <4> HIDE DEF t
      <4>4. search'[id] \in Search /\ search'[id].found = s.found
        BY <4>1, <4>2, <4>3
      <4>5. QED
        BY <4>4 DEF s
    <3>2. QED
      BY <2>2, <3>1 DEF SearchTypes, SameFound
  <2> DEFINE fresh == {IdentOf[k] : k \in Range(kids)} \ {IdentOf[k] : k \in Tracked}
  <2>3. \/ UNCHANGED search
        \/ search' = [id \in Ident |-> IF id \in fresh THEN [search[id] EXCEPT !.ctor = TRUE]
                                        ELSE search[id]]
    BY DEF InitThen
  <2> HIDE DEF fresh
  <2>4. QED
    BY <2>1, <2>2, <2>3
<1>3. ASSUME StayIdle(j) PROVE JobTypes' /\ OutTypes' /\ CallTypes'
  BY <1>3, StayIdleType
<1>4. ASSUME allJobs' = allJobs \o kids,
             work' \in [Job -> Work],
             todo' = <<Call("Resolve", j), Call("InitEnd", j)>>,
             UNCHANGED <<state, number, joined, console, result, outVars>>
      PROVE  JobTypes' /\ OutTypes' /\ CallTypes'
  <2>1. kids \in Seq(Job)
    BY TreeAssumption, EmptySeq
  <2> HIDE DEF kids
  <2>2. allJobs' \in Seq(Job)
    BY <1>4, <2>1, ConcatProperties DEF JobTypes
  <2>3. Call("Resolve", j) \in Frame /\ Call("InitEnd", j) \in Frame
    BY CallType DEF JobOps
  <2>4. CallTypes'
    BY <1>4, <2>3 DEF CallTypes
  <2>5. QED
    BY <1>4, <2>2, <2>4 DEF JobTypes, OutTypes, outVars
<1>5. ASSUME work' = [k \in Job |->
                       IF k = j THEN "busy"
                       ELSE IF k \in Range(kids)
                       THEN IF search[IdentOf[k]].ready THEN "then" ELSE "init"
                       ELSE work[k]]
      PROVE  work' \in [Job -> Work]
  BY <1>5 DEF JobTypes, Work
<1>6. JobTypes' /\ OutTypes' /\ CallTypes'
  BY <1>3, <1>4, <1>5 DEF InitThen
<1>7. QED
  BY <1>1, <1>2, <1>6, SearchingType DEF StepTypes

LEMMA TickType ==
  ASSUME TypeInv, Tick
  PROVE  TypeInv' /\ SameFound
<1> USE DEF TypeInv
<1>1. SearchTypes' /\ SameFound
  <2>1. ASSUME NEW id \in Ident
        PROVE  search'[id] \in Search /\ search'[id].found = search[id].found
    <3> DEFINE q == Among(allJobs, {j \in Job : IdentOf[j] = id /\ MayLocate(j)})
               s == search[id]
               t == [s EXCEPT !.seeking = q]
               u == [t EXCEPT !.work = "timer"]
    <3>1. q \in Seq(Job)
      BY AmongType DEF JobTypes
    <3>2. s \in Search
      BY DEF SearchTypes
    <3>3. search'[id] = s \/ search'[id] = u
      BY DEF Tick, NextSearches
    <3> HIDE DEF q, s
    <3>4. t \in Search /\ t.found = s.found
      BY <3>1, <3>2, SearchFields
    <3> HIDE DEF t
    <3>5. u \in Search /\ u.found = s.found
      BY <3>4, SearchFields DEF SearchWork
    <3> HIDE DEF u
    <3>6. search'[id] \in Search /\ search'[id].found = s.found
      BY <3>2, <3>3, <3>5
    <3>7. QED
      BY <3>6 DEF s
  <2>2. QED
    BY <2>1 DEF Tick, NextSearches, SearchTypes, SameFound
<1>2. JobTypes'
  <2>1. work' \in [Job -> Work]
    BY DEF Tick, JobTypes, Work
  <2>2. console' \in [Job -> BOOLEAN]
    BY FlushedType DEF Tick
  <2>3. QED
    BY <2>1, <2>2 DEF Tick, JobTypes
<1>3. QueueTypes'
  BY DEF Tick, QueueTypes
<1>4. OutTypes' /\ CallTypes' /\ FaultTypes' /\ ServerTypeOK'
  BY SameServerType DEF Tick, OutTypes, outVars, CallTypes, FaultTypes
<1>5. FoundExist'
  BY <1>1, KeepsFound DEF Tick, serverVars
<1>6. QED
  BY <1>1, <1>2, <1>3, <1>4, <1>5

LEMMA SummaryStepType ==
  ASSUME TypeInv, SummaryStep
  PROVE  TypeInv'
<1> USE DEF TypeInv
<1>1. JobTypes' /\ CallTypes' /\ UNCHANGED <<serverVars, search>>
  BY DEF SummaryStep, IsPipelineResponse, ReportResponse, Summarize, WriteFile,
         JobTypes, jobVars, CallTypes
<1>2. OutTypes'
  <2>1. UNCHANGED outVars \/ Report("Failed") \/ Report("Succeeded")
    BY DEF SummaryStep, IsPipelineResponse, ReportResponse, Summarize, WriteFile, FinalResult
  <2>2. QED
    BY <2>1, ReportType DEF OutTypes, outVars
<1>3. FaultTypes'
  BY FaultType DEF SummaryStep, IsPipelineResponse, ReportResponse, Summarize, WriteFile,
                   FaultTypes
<1>4. QueueTypes'
  BY DEF SummaryStep, IsPipelineResponse, ReportResponse, Summarize, WriteFile, QueueTypes
<1>5. QED
  BY <1>1, <1>2, <1>3, <1>4, LocalType
-----------------------------------------------------------------------------
(* Jenkins. *)

(* Builds are only added, and stay where they are. *)
LEMMA GrowsFound ==
  ASSUME FoundExist, UNCHANGED search,
         \A id \in Ident : 1..Len(builds[id]) \subseteq 1..Len(builds'[id])
  PROVE  FoundExist'
  BY DEF FoundExist

LEMMA AddBuildType ==
  ASSUME ServerTypeOK, NEW id \in Ident, NEW b \in Build,
         builds' = [builds EXCEPT ![id] = Append(@, b)]
  PROVE  /\ builds' \in [Ident -> Seq(Build)]
         /\ \A d \in Ident : 1..Len(builds[d]) \subseteq 1..Len(builds'[d])
<1>1. builds[id] \in Seq(Build)
  BY DEF ServerTypeOK
<1> DEFINE s == Append(builds[id], b)
<1>2. s \in Seq(Build) /\ Len(s) = Len(builds[id]) + 1 /\ Len(builds[id]) \in Nat
  BY <1>1, AppendProperties, LenProperties
<1>3. builds' = [builds EXCEPT ![id] = s]
  OBVIOUS
<1> HIDE DEF s
<1>4. QED
  BY <1>2, <1>3 DEF ServerTypeOK

LEMMA StartBuildType ==
  ASSUME ServerTypeOK, NEW id \in Ident, StartBuild(id)
  PROVE  /\ ServerTypeOK'
         /\ \A d \in Ident : 1..Len(builds[d]) \subseteq 1..Len(builds'[d])
<1>1. NewBuild(queued[id], "running") \in Build
  BY DEF ServerTypeOK, NewBuild, Build
<1>2. builds' \in [Ident -> Seq(Build)]
      /\ \A d \in Ident : 1..Len(builds[d]) \subseteq 1..Len(builds'[d])
  BY <1>1, AddBuildType DEF StartBuild
<1>3. queued' \in [Ident -> Seq(Cause)]
  BY EmptySeq DEF StartBuild, ServerTypeOK
<1>4. QED
  BY <1>2, <1>3 DEF StartBuild, ServerTypeOK

LEMMA EndResultType == EndResult \in Results
  BY ServerAssumption DEF EndResult

LEMMA ForeignBuildType ==
  ASSUME ServerTypeOK, NEW id \in Ident, ForeignBuild(id)
  PROVE  /\ ServerTypeOK'
         /\ \A d \in Ident : 1..Len(builds[d]) \subseteq 1..Len(builds'[d])
<1>1. NewBuild(<<>>, EndResult) \in Build
  BY EmptySeq, EndResultType DEF NewBuild, Build
<1>2. builds' \in [Ident -> Seq(Build)]
      /\ \A d \in Ident : 1..Len(builds[d]) \subseteq 1..Len(builds'[d])
  BY <1>1, AddBuildType DEF ForeignBuild
<1>3. foreign' \in 0..MaxForeign
  BY ServerAssumption DEF ForeignBuild, ServerTypeOK
<1>4. QED
  BY <1>2, <1>3 DEF ForeignBuild, ServerTypeOK

LEMMA FinishBuildType ==
  ASSUME ServerTypeOK, NEW id \in Ident, NEW n, NEW r \in Results, FinishBuild(id, n, r)
  PROVE  /\ ServerTypeOK'
         /\ \A d \in Ident : 1..Len(builds[d]) \subseteq 1..Len(builds'[d])
<1> DEFINE b == NewBuild(builds[id][n].causes, r)
           s == [builds[id] EXCEPT ![n] = b]
<1>1. builds[id] \in Seq(Build) /\ n \in 1..Len(builds[id])
  BY DEF ServerTypeOK, FinishBuild
<1>2. b \in Build
  <2>1. builds[id][n] \in Build
    BY <1>1, ElementOfSeq
  <2>2. QED
    BY <2>1 DEF NewBuild, Build
<1>3. builds' = [builds EXCEPT ![id] = s]
  BY DEF FinishBuild
<1> HIDE DEF b
<1>4. s \in Seq(Build) /\ Len(s) = Len(builds[id])
  BY <1>1, <1>2, ExceptSeq
<1> HIDE DEF s
<1>5. /\ builds' \in [Ident -> Seq(Build)]
      /\ \A d \in Ident : 1..Len(builds[d]) \subseteq 1..Len(builds'[d])
  BY <1>3, <1>4 DEF ServerTypeOK
<1>6. queued' \in [Ident -> Seq(Cause)]
  <2>1. n \in Nat
    BY <1>1, LenProperties
  <2>2. <<id, n>> \in Cause
    BY <2>1 DEF Cause
  <2>3. ASSUME NEW d \in Ident PROVE Append(queued[d], <<id, n>>) \in Seq(Cause)
    BY <2>2, AppendProperties DEF ServerTypeOK
  <2>4. QED
    BY <2>3 DEF FinishBuild, ServerTypeOK
<1>7. QED
  BY <1>5, <1>6 DEF FinishBuild, ServerTypeOK

LEMMA ServerType ==
  ASSUME TypeInv, Server
  PROVE  TypeInv'
<1>1. UNCHANGED <<jobVars, search, queueVars, outVars, todo, faults>>
  BY DEF Server, ServerProgress, ServerDoes
<1>2. /\ ServerTypeOK'
      /\ \A d \in Ident : 1..Len(builds[d]) \subseteq 1..Len(builds'[d])
  BY StartBuildType, FinishBuildType, ForeignBuildType
     DEF Server, ServerProgress, ServerDoes, EndBuild, TypeInv
<1>3. FoundExist'
  BY <1>1, <1>2, GrowsFound DEF TypeInv
<1>4. JobTypes' /\ SearchTypes' /\ QueueTypes' /\ OutTypes' /\ CallTypes' /\ FaultTypes'
  BY <1>1 DEF TypeInv, jobVars, JobTypes, SearchTypes, queueVars, QueueTypes, outVars,
              OutTypes, CallTypes, FaultTypes
<1>5. QED
  BY <1>2, <1>3, <1>4 DEF TypeInv

-----------------------------------------------------------------------------
(* Type correctness. *)

LEMMA InitTypeOK == Init => TypeOK
<1> SUFFICES ASSUME Init PROVE TypeOK
  OBVIOUS
<1> USE DEF Init, TrackerInit
<1>1. ServerTypeOK
  <2>1. NewBuild(<<>>, EndResult) \in Build /\ NewBuild(<<>>, "running") \in Build
    BY EndResultType DEF NewBuild, Build, Cause
  <2>2. ASSUME NEW id \in Ident PROVE builds[id] \in Seq(Build)
    <3> DEFINE k == History[id] + (IF id = RootIdent THEN 1 ELSE 0)
    <3>1. k \in Nat
      BY ServerAssumption
    <3>2. builds[id] = [n \in 1..k |-> NewBuild(<<>>, IF n <= History[id] THEN EndResult ELSE "running")]
      BY DEF ServerInit
    <3>3. \A n \in 1..k : builds[id][n] \in Build
      BY <2>1, <3>2
    <3> HIDE DEF k
    <3>4. QED
      BY <3>1, <3>2, <3>3, IsASeq
  <2>3. builds \in [Ident -> Seq(Build)]
    BY <2>2 DEF ServerInit
  <2>4. QED
    BY <2>3, ServerAssumption DEF ServerInit, ServerTypeOK
<1>2. allJobs \in Seq(Job)
  BY TreeAssumption
<1>3. number \in [Job -> Nat]
  BY ServerAssumption DEF RootNumber
<1>4. /\ state \in [Job -> JobState]
      /\ joined \in [Job -> Job \cup {NoJob}]
      /\ console \in [Job -> BOOLEAN]
      /\ result \in [Job -> Results \cup {"none"}]
      /\ work \in [Job -> Work]
  BY DEF JobState, Work
<1>5. search \in [Ident -> Search]
  BY DEF Search
<1>6. opts \in [console : BOOLEAN, pipeline : BOOLEAN, shouldFail : BOOLEAN]
  BY OptionAssumption
<1>7. todo \in Seq(JobCall \cup SearchCall) /\ faults \in 0..MaxFaults
  BY OptionAssumption
<1>8. QED
  BY <1>1, <1>2, <1>3, <1>4, <1>5, <1>6, <1>7 DEF TypeOK

LEMMA InitType == Init => TypeInv
<1>1. Init => FoundExist
  BY DEF Init, TrackerInit, FoundExist
<1>2. Init => number[Root] = RootNumber
  BY TreeAssumption DEF Init, TrackerInit
<1>3. Init => CallTypes
  BY EmptySeq DEF Init, TrackerInit, CallTypes
<1>4. QED
  BY <1>1, <1>2, <1>3, InitTypeOK DEF TypeOK, TypeInv, JobTypes, QueueTypes, OutTypes,
                                      SearchTypes, FaultTypes

LEMMA NextType == TypeInv /\ [Next]_vars => TypeInv'
<1>1. ASSUME TypeInv, Continue PROVE TypeInv'
  BY <1>1, ContinueType
<1>2. ASSUME TypeInv, Tick PROVE TypeInv'
  BY <1>2, TickType
<1>3. ASSUME TypeInv, NEW j \in Job, JobStep(j) PROVE TypeInv'
  BY <1>3, InitResponseType, InitThenType, JobTimerType, StreamResponseType,
     FinishResponseType, DownloadResponseType DEF JobStep
<1>4. ASSUME TypeInv, NEW id \in Ident, SearchStep(id) PROVE TypeInv'
  BY <1>4, CtorResponseType, SearchTimerType, LocateResponseType DEF SearchStep
<1>5. ASSUME TypeInv, SummaryStep PROVE TypeInv'
  BY <1>5, SummaryStepType
<1>6. ASSUME TypeInv, Server PROVE TypeInv'
  BY <1>6, ServerType
<1>7. ASSUME TypeInv, UNCHANGED vars PROVE TypeInv'
  BY <1>7 DEF TypeInv, vars, serverVars, jobVars, queueVars, outVars, ServerTypeOK, JobTypes,
              SearchTypes, QueueTypes, OutTypes, CallTypes, FaultTypes, FoundExist
<1>8. QED
  BY <1>1, <1>2, <1>3, <1>4, <1>5, <1>6, <1>7 DEF Next

(* Every variable keeps its type in every behaviour, whatever the pipeline, *)
(* the inputs and the failures: the queue, searches and calls of the task    *)
(* never hold a job, project or build number that does not exist.            *)
THEOREM TypeCorrect == Spec => []TypeOK
<1>1. Spec => []TypeInv
  BY InitType, NextType, PTL DEF Spec
<1>2. TypeInv => TypeOK
  BY TypeInvIsTypeOK
<1>3. QED
  BY <1>1, <1>2, PTL

-----------------------------------------------------------------------------
(* KnowledgeIsKept: what a step may never take back.                        *)

(* finish() reads the result of a job that has none yet. *)
FinishBusy == \A j \in Job : work[j] = "finish" => state[j] # "Done"

(* A job that is still to be resolved has no build, except for the root. *)
Unresolved == {"New", "Locating"}
Unnumbered == \A j \in Job \ {Root} : state[j] \in Unresolved => number[j] = 0

(* The inductive invariant: what KnowledgeIsKept says of a step follows     *)
(* from the state before it.                                                *)
KInv == TypeInv /\ FinishBusy /\ Unnumbered

Kept ==
  /\ \A j \in Job : number[j] # 0 => number'[j] = number[j]
  /\ \A j \in Job : state[j] = "Done" => result'[j] = result[j]
  /\ FoundGrows
Keeps == Kept /\ FinishBusy' /\ Unnumbered'

(* What a step that assigns no number has to show. *)
LEMMA Keeping ==
  ASSUME KInv, FoundGrows, UNCHANGED number,
         \A j \in Job : result'[j] = result[j] \/ state[j] # "Done",
         \A j \in Job : state'[j] \in Unresolved => state[j] \in Unresolved,
         \A j \in Job : work'[j] = "finish" => state'[j] # "Done"
  PROVE  Keeps
  BY DEF KInv, Keeps, Kept, FinishBusy, Unnumbered

LEMMA KeepingJobs ==
  ASSUME KInv, FoundGrows, UNCHANGED <<state, number, result>>,
         \A j \in Job : work'[j] = "finish" => work[j] = "finish" \/ state[j] = "Finishing"
  PROVE  Keeps
  BY Keeping DEF KInv, FinishBusy

LEMMA SameKeeps ==
  ASSUME SameFound \/ UNCHANGED search
  PROVE  FoundGrows
  BY DEF SameFound, FoundGrows

(* A job moves on to a state that is not the end, and stays there. *)
LEMMA MoveKeeps ==
  ASSUME KInv, FoundGrows, NEW j \in Job, NEW s, s \notin Unresolved \cup {"Done"},
         state' = [state EXCEPT ![j] = s], UNCHANGED <<number, result, work>>
  PROVE  Keeps
  BY Keeping DEF KInv, FinishBusy, TypeInv, JobTypes, Unresolved

(* stopWork ends what was outstanding for the job. *)
LEMMA StopWorkKeeps ==
  ASSUME KInv, FoundGrows, NEW j \in Job, NEW s \in JobState, StopWork(j, s),
         s \notin Unresolved,
         \A k \in Job : result'[k] = result[k] \/ state[k] # "Done"
  PROVE  Keeps
<1>1. state' = [state EXCEPT ![j] = s] /\ UNCHANGED number
  BY DEF StopWork, ChangeState
<1>2. work' = [work EXCEPT ![j] = "busy"] \/ work' = [work EXCEPT ![j] = "idle"]
  BY DEF StopWork
<1>3. \A k \in Job : state'[k] \in Unresolved => state[k] \in Unresolved
  BY <1>1 DEF KInv, TypeInv, JobTypes
<1>4. \A k \in Job : work'[k] = "finish" => state'[k] # "Done"
  BY <1>1, <1>2 DEF KInv, TypeInv, JobTypes, FinishBusy
<1>5. QED
  BY <1>1, <1>3, <1>4, Keeping

LEMMA IdleKeeps ==
  ASSUME KInv, UNCHANGED search, NEW j, NEW w, w # "finish" \/ state[j] = "Finishing",
         work' = [work EXCEPT ![j] = w], UNCHANGED <<state, number, result>>
  PROVE  Keeps
  BY SameKeeps, KeepingJobs DEF KInv, TypeInv, JobTypes
-----------------------------------------------------------------------------
(* The calls of a running callback. *)

LEMMA SetStreamingKeeps ==
  ASSUME KInv, FoundGrows, todo # <<>>, SetStreaming(Head(todo))
  PROVE  Keeps
<1> DEFINE f == Head(todo)
           j == f.job
<1>1. j \in Job /\ (j = Root => f.num = RootNumber)
  BY HeadJobCall DEF KInv, TypeInv, SetStreaming, JobOps
<1>2. CASE /\ ~opts.console /\ UNCHANGED number
           /\ state' = [state EXCEPT ![j] = "Streaming"]
  BY <1>1, <1>2, MoveKeeps DEF SetStreaming, Unresolved
<1>3. CASE /\ opts.console /\ state[j] \in Unresolved
           /\ number' = [number EXCEPT ![j] = f.num]
           /\ state' = [state EXCEPT ![j] = "Streaming"]
  <2>1. number[j] # 0 => j = Root
    BY <1>1, <1>3 DEF KInv, Unnumbered
  <2>2. \A k \in Job : number[k] # 0 => number'[k] = number[k]
    BY <1>1, <1>3, <2>1 DEF KInv, TypeInv, JobTypes
  <2>3. Unnumbered'
    BY <1>1, <1>3 DEF KInv, TypeInv, JobTypes, Unnumbered, Unresolved
  <2>4. UNCHANGED <<work, result>>
    BY DEF SetStreaming
  <2>5. FinishBusy'
    BY <1>1, <1>3, <2>4 DEF KInv, TypeInv, JobTypes, FinishBusy
  <2>6. QED
    BY <2>2, <2>3, <2>4, <2>5 DEF Keeps, Kept
<1>4. CASE UNCHANGED <<state, number>>
  BY <1>4, KeepingJobs DEF SetStreaming
<1>5. QED
  BY <1>2, <1>3, <1>4 DEF SetStreaming, ChangeState, Unresolved

LEMMA SetJoinedKeeps ==
  ASSUME KInv, FoundGrows, todo # <<>>, SetJoined(Head(todo))
  PROVE  Keeps
<1> DEFINE j == Head(todo).job
<1>1. j \in Job
  BY HeadJobCall DEF KInv, TypeInv, SetJoined, JobOps
<1>2. UNCHANGED <<number, result, work>>
  BY DEF SetJoined
<1>3. CASE UNCHANGED state
  BY <1>2, <1>3, KeepingJobs
<1>4. CASE state' = [state EXCEPT ![j] = "Joined"]
  BY <1>1, <1>2, <1>4, MoveKeeps DEF Unresolved
<1>5. QED
  BY <1>3, <1>4 DEF SetJoined

LEMMA EndInitializeKeeps ==
  ASSUME KInv, FoundGrows, todo # <<>>, EndInitialize(Head(todo))
  PROVE  Keeps
<1> DEFINE j == Head(todo).job
<1>1. j \in Job
  BY HeadJobCall DEF KInv, TypeInv, EndInitialize, JobOps
<1>2. UNCHANGED <<number, result>> /\ work' = [work EXCEPT ![j] = "idle"]
  BY DEF EndInitialize
<1>3. state' = state \/ (state[j] = "New" /\ state' = [state EXCEPT ![j] = "Locating"])
  BY DEF EndInitialize
<1>4. \A k \in Job : state'[k] \in Unresolved => state[k] \in Unresolved
  BY <1>1, <1>3 DEF KInv, TypeInv, JobTypes, Unresolved
<1>5. \A k \in Job : work'[k] = "finish" => state'[k] # "Done"
  BY <1>1, <1>2, <1>3 DEF KInv, TypeInv, JobTypes, FinishBusy
<1>6. QED
  BY <1>2, <1>4, <1>5, Keeping

LEMMA ContinueKeeps ==
  ASSUME KInv, Continue
  PROVE  Keeps
<1> DEFINE f == Head(todo)
<1>1. FoundGrows
  BY ContinueType, SameKeeps DEF KInv
<1>2. CASE UNCHANGED jobVars
  BY <1>1, <1>2, KeepingJobs DEF jobVars
<1>3. CASE SetFinishing(f) \/ Cut(f)
  <2>1. f.job \in Job
    BY <1>3, HeadJobCall DEF Continue, KInv, TypeInv, SetFinishing, Cut, JobOps
  <2>2. UNCHANGED <<number, result, work>>
    BY <1>3 DEF SetFinishing, Cut
  <2>3. \/ state' = [state EXCEPT ![f.job] = "Finishing"]
        \/ state' = [state EXCEPT ![f.job] = "Cut"]
    BY <1>3 DEF SetFinishing, Cut, ChangeState
  <2>4. QED
    BY <1>1, <2>1, <2>2, <2>3, MoveKeeps DEF Unresolved
<1>4. CASE SetStreaming(f) \/ SetJoined(f) \/ EndInitialize(f)
  BY <1>1, <1>4, SetStreamingKeeps, SetJoinedKeeps, EndInitializeKeeps DEF Continue
<1>5. QED
  BY <1>2, <1>3, <1>4 DEF Continue, Resolve, JoinOthersToMe, Decide, Advance
-----------------------------------------------------------------------------
(* The callbacks. *)

LEMMA JobTimerKeeps ==
  ASSUME KInv, NEW j \in Job, JobTimer(j)
  PROVE  Keeps
<1>1. UNCHANGED search
  BY DEF JobTimer
<1>2. CASE StopWork(j, "Queued") /\ UNCHANGED result
  BY <1>1, <1>2, SameKeeps, StopWorkKeeps DEF JobState, Unresolved
<1>3. ASSUME NEW w, work' = [work EXCEPT ![j] = w], w # "finish" \/ state[j] = "Finishing",
             UNCHANGED <<state, number, result>>
      PROVE  Keeps
  BY <1>1, <1>3, IdleKeeps
<1>4. QED
  BY <1>2, <1>3 DEF JobTimer, StayIdle

LEMMA StreamResponseKeeps ==
  ASSUME KInv, NEW j \in Job, StreamResponse(j)
  PROVE  Keeps
<1>1. UNCHANGED search /\ FoundGrows
  BY SameKeeps DEF StreamResponse
<1>2. CASE StopWork(j, "Finishing") /\ UNCHANGED result
  BY <1>1, <1>2, StopWorkKeeps DEF JobState, Unresolved
<1>3. ASSUME NEW w \in {"idle", "busy"}, work' = [work EXCEPT ![j] = w],
             UNCHANGED <<state, number, result>>
      PROVE  Keeps
  BY <1>1, <1>3, IdleKeeps
<1>4. CASE /\ state' = [state EXCEPT ![j] = "Finishing"]
           /\ work' = [work EXCEPT ![j] = "idle"]
           /\ UNCHANGED <<number, result>>
  <2>1. \A k \in Job : state'[k] \in Unresolved => state[k] \in Unresolved
    BY <1>4 DEF KInv, TypeInv, JobTypes, Unresolved
  <2>2. \A k \in Job : work'[k] = "finish" => state'[k] # "Done"
    BY <1>4 DEF KInv, TypeInv, JobTypes, FinishBusy
  <2>3. QED
    BY <1>1, <1>4, <2>1, <2>2, Keeping
<1>5. QED
  BY <1>2, <1>3, <1>4 DEF StreamResponse, StayIdle, Wait

LEMMA FinishResponseKeeps ==
  ASSUME KInv, NEW j \in Job, FinishResponse(j)
  PROVE  Keeps
<1> DEFINE r == builds[IdentOf[j]][number[j]].result
<1>1. UNCHANGED search /\ FoundGrows
  BY SameKeeps DEF FinishResponse
<1>2. state[j] # "Done"
  BY DEF FinishResponse, KInv, FinishBusy
<1>3. ASSUME NEW s \in {"Downloading", "Done"}, StopWork(j, s),
             result' = [result EXCEPT ![j] = r]
      PROVE  Keeps
  <2>1. \A k \in Job : result'[k] = result[k] \/ state[k] # "Done"
    BY <1>2, <1>3 DEF KInv, TypeInv, JobTypes
  <2>2. s \in JobState /\ s \notin Unresolved
    BY DEF JobState, Unresolved
  <2>3. QED
    BY <1>1, <1>3, <2>1, <2>2, StopWorkKeeps
<1>4. ASSUME NEW w \in {"idle", "busy"}, work' = [work EXCEPT ![j] = w],
             UNCHANGED <<state, number, result>>
      PROVE  Keeps
  BY <1>1, <1>4, IdleKeeps
<1>5. QED
  BY <1>3, <1>4 DEF FinishResponse, StayIdle, Wait

LEMMA DownloadResponseKeeps ==
  ASSUME KInv, NEW j \in Job, DownloadResponse(j)
  PROVE  Keeps
<1>1. UNCHANGED search /\ FoundGrows
  BY SameKeeps DEF DownloadResponse
<1>2. CASE StopWork(j, "Done") /\ UNCHANGED result
  BY <1>1, <1>2, StopWorkKeeps DEF JobState, Unresolved
<1>3. ASSUME NEW w \in {"idle", "busy"}, work' = [work EXCEPT ![j] = w],
             UNCHANGED <<state, number, result>>
      PROVE  Keeps
  BY <1>1, <1>3, IdleKeeps
<1>4. QED
  BY <1>2, <1>3 DEF DownloadResponse, StayIdle, Wait

LEMMA JobStepKeeps ==
  ASSUME KInv, NEW j \in Job, JobStep(j)
  PROVE  Keeps
<1>1. CASE InitResponse(j)
  <2>1. UNCHANGED <<state, number, result>> /\ FoundGrows
    BY <1>1, InitResponseType, SameKeeps DEF InitResponse, KInv
  <2>2. \A k \in Job : work'[k] = "finish" => work[k] = "finish"
    BY <1>1 DEF InitResponse, KInv, TypeInv, JobTypes
  <2>3. QED
    BY <2>1, <2>2, KeepingJobs
<1>2. CASE InitThen(j)
  <2>1. UNCHANGED <<state, number, result>> /\ FoundGrows
    BY <1>2, InitThenType, SameKeeps DEF InitThen, StayIdle, KInv
  <2>2. CASE StayIdle(j)
    BY <2>1, <2>2, KeepingJobs DEF StayIdle, KInv, TypeInv, JobTypes
  <2>3. ASSUME NEW kids, work' = [k \in Job |->
                          IF k = j THEN "busy"
                          ELSE IF k \in kids
                          THEN IF search[IdentOf[k]].ready THEN "then" ELSE "init"
                          ELSE work[k]]
        PROVE  Keeps
    <3>1. \A k \in Job : work'[k] = "finish" => work[k] = "finish"
      BY <2>3
    <3>2. QED
      BY <2>1, <3>1, KeepingJobs
  <2> DEFINE started == Range(IF opts.pipeline THEN Kids[j] ELSE <<>>)
  <2>4. StayIdle(j) \/ work' = [k \in Job |->
                          IF k = j THEN "busy"
                          ELSE IF k \in started
                          THEN IF search[IdentOf[k]].ready THEN "then" ELSE "init"
                          ELSE work[k]]
    BY <1>2 DEF InitThen
  <2> HIDE DEF started
  <2>5. QED
    BY <2>2, <2>3, <2>4
<1>3. QED
  BY <1>1, <1>2, JobTimerKeeps, StreamResponseKeeps, FinishResponseKeeps,
     DownloadResponseKeeps DEF JobStep

LEMMA SearchStepKeeps ==
  ASSUME KInv, NEW id \in Ident, SearchStep(id)
  PROVE  Keeps
<1>1. UNCHANGED jobVars
  BY DEF SearchStep, CtorResponse, SearchTimer, LocateResponse
<1>2. FoundGrows
  BY CtorResponseType, SearchTimerType, LocateResponseType, SameKeeps DEF SearchStep, KInv
<1>3. QED
  BY <1>1, <1>2, KeepingJobs DEF jobVars

LEMMA TickKeeps ==
  ASSUME KInv, Tick
  PROVE  Keeps
<1>1. UNCHANGED <<state, number, result>>
  BY DEF Tick
<1>2. FoundGrows
  BY TickType, SameKeeps DEF KInv
<1>3. \A k \in Job : work'[k] = "finish" => work[k] = "finish"
  BY DEF Tick
<1>4. QED
  BY <1>1, <1>2, <1>3, KeepingJobs

LEMMA OthersKeep ==
  ASSUME KInv, SummaryStep \/ Server \/ UNCHANGED vars
  PROVE  Keeps
<1>1. UNCHANGED <<jobVars, search>>
  BY DEF SummaryStep, IsPipelineResponse, ReportResponse, Summarize, WriteFile,
         Server, ServerProgress, ServerDoes, vars
<1>2. QED
  BY <1>1, SameKeeps, KeepingJobs DEF jobVars
-----------------------------------------------------------------------------
LEMMA KInvInit == Init => KInv
<1> SUFFICES ASSUME Init PROVE KInv
  OBVIOUS
<1>1. FinishBusy /\ Unnumbered
  BY DEF Init, TrackerInit, FinishBusy, Unnumbered
<1>2. QED
  BY <1>1, InitType DEF KInv

LEMMA KInvNext == KInv /\ [Next]_vars => KInv' /\ Kept
<1> SUFFICES ASSUME KInv, [Next]_vars PROVE KInv' /\ Kept
  OBVIOUS
<1>1. TypeInv'
  BY NextType DEF KInv
<1>2. Keeps
  BY ContinueKeeps, TickKeeps, JobStepKeeps, SearchStepKeeps, OthersKeep DEF Next
<1>3. QED
  BY <1>1, <1>2 DEF Keeps, KInv

(* What the task knows of an execution is never taken back, whatever the    *)
(* pipeline, the inputs and the failures: the build a job was resolved to,  *)
(* the result of a job that is done, and the builds whose causes a search   *)
(* has read.  No late answer and no second caller of SetStreaming writes    *)
(* over them.                                                               *)
THEOREM KnowledgeKept == Spec => KnowledgeIsKept
<1>1. Spec => []KInv
  BY KInvInit, KInvNext, PTL DEF Spec
<1>2. KInv /\ [Next]_vars => [Kept]_vars
  BY KInvNext
<1>3. Spec => [][Kept]_vars
  BY <1>1, <1>2, PTL DEF Spec
<1>4. QED
  BY <1>3 DEF KnowledgeIsKept, Kept, FoundGrows
-----------------------------------------------------------------------------
(* The life cycle of a job, and who writes to the console.                  *)

(* The parent of j is in one of these states. *)
Below(j, S) == j # Root /\ state[ParentOf(j)] \in S

(* Calls that join or cut a job are at the top of the stack together; the   *)
(* other calls below the top leave the states of jobs alone.                *)
Joiner == {"JoinUnlessCut", "Cut"}
Late == {"Resolve", "Sought", "InitEnd", "Decide", "Advance"}
Stacked(t) ==
  /\ \A i \in DOMAIN t : i > 1 => t[i].op \in Late \cup Joiner
  /\ \A i, h \in DOMAIN t : h < i /\ t[i].op \in Joiner => t[h].op \in Joiner

(* A call that changes a job finds it in a state in which it may. *)
CallOK(f) ==
  /\ f.op \in JobOps => f.job \in Tracked
  /\ f.op = "Streaming" => IF f.job = Root THEN state[Root] \in Unresolved ELSE Below(f.job, Ran)
  /\ f.op = "Finishing" => state[f.job] = "Streaming" /\ work[f.job] # "stream"
  /\ f.op = "Join" => state[f.job] \in Unresolved /\ Below(f.job, Ran)
  /\ f.op = "JoinUnlessCut" => state[f.job] \in Unresolved \cup {"Joined"} /\ Below(f.job, Ran)
  /\ f.op = "Cut" => Below(f.job, {"Joined", "Cut"})
CallsOK == Stacked(todo) /\ \A f \in Range(todo) : CallOK(f)

(* What the state of a job says of its parent, its number and its work. *)
JobOK(j) ==
  /\ j \notin Tracked => state[j] = "New" /\ ~console[j]
  /\ state[j] # "Downloading" /\ work[j] # "download"
  /\ work[j] = "stream" => state[j] = "Streaming"
  /\ work[j] = "finish" => state[j] = "Finishing"
  /\ j # Root /\ number[j] # 0 => state[j] \in Ran
  /\ state[j] = "Queued" => ~opts.console
  /\ state[j] \in Ran \cup {"Joined"} => j = Root \/ Below(j, Ran)
  /\ state[j] = "Cut" => Below(j, {"Joined", "Cut"})
  /\ j = Root => state[j] \notin {"Joined", "Cut"}
JobsOK == \A j \in Job : JobOK(j)

(* Without console capture there is only the root. *)
Mode == ~opts.console => ~opts.pipeline /\ Tracked = {Root}
Seeking == \A id \in Ident : Range(search[id].seeking) \subseteq Tracked

(* The causes of builds are builds. *)
CausesReal ==
  \A id \in Ident :
    /\ \A n \in 1..Len(builds[id]) : \A c \in Range(builds[id][n].causes) : c[2] # 0
    /\ \A c \in Range(queued[id]) : c[2] # 0

Live == CallsOK /\ JobsOK /\ Mode /\ Seeking
Lawful == CallsOK /\ JobsOK /\ Seeking
LifeInv == TypeInv /\ CausesReal /\ OneConsoleWriter /\ Lawful /\ (exited \/ Mode)

(* The hypothesis of the life cycle.  With the results plug-in it does not  *)
(* hold: a job that is Downloading can be told to join.  A denied request   *)
(* turns console capture off; where the process outlives that, SetStreaming *)
(* starts jobs over that have ended.                                        *)
Plain == ~Plugin /\ (<<"stream", "denied">> \in FaultKinds => ExitOnFailed)
-----------------------------------------------------------------------------
(* The stack of calls. *)

LEMMA RangeIsDomain ==
  ASSUME NEW t, NEW x
  PROVE  x \in Range(t) <=> \E i \in DOMAIN t : t[i] = x
BY DEF Range

LEMMA StackTop ==
  ASSUME NEW S, NEW t \in Seq(S), t # <<>>, Stacked(t)
  PROVE  /\ Head(t) \in Range(t) /\ Range(Tail(t)) \subseteq Range(t)
         /\ Stacked(Tail(t))
         /\ \A f \in Range(Tail(t)) : f.op \in Late \cup Joiner
         /\ Head(t).op \notin Joiner => \A f \in Range(Tail(t)) : f.op \in Late
<1>1. /\ Len(t) \in Nat \ {0} /\ DOMAIN t = 1..Len(t)
  BY EmptySeq, LenProperties
<1>2. /\ Tail(t) \in Seq(S) /\ Len(Tail(t)) = Len(t) - 1
      /\ \A i \in 1..Len(Tail(t)) : Tail(t)[i] = t[i + 1]
  BY HeadTailProperties
<1>3. DOMAIN Tail(t) = 1..(Len(t) - 1)
  BY <1>2, LenProperties
<1>4. Head(t) = t[1] /\ 1 \in DOMAIN t
  BY <1>1
<1> DEFINE r == Tail(t)
<1>5. \A i \in DOMAIN r : i + 1 \in DOMAIN t /\ r[i] = t[i + 1] /\ i \in Nat /\ i >= 1
  BY <1>1, <1>2, <1>3
<1> HIDE DEF r
<1>6. \A f \in Range(r) : \E i \in DOMAIN t : i > 1 /\ t[i] = f
  <2> TAKE f \in Range(r)
  <2>1. PICK i \in DOMAIN r : r[i] = f
    BY RangeIsDomain
  <2> QED BY <1>5, <2>1
<1>7. Head(t) \in Range(t) /\ Range(r) \subseteq Range(t)
  BY <1>4, <1>6, RangeIsDomain
<1>8. \A f \in Range(r) : f.op \in Late \cup Joiner
  BY <1>6 DEF Stacked
<1>9. Stacked(r)
  <2>1. ASSUME NEW i \in DOMAIN r PROVE r[i].op \in Late \cup Joiner
    BY <1>5 DEF Stacked
  <2>2. ASSUME NEW i \in DOMAIN r, NEW h \in DOMAIN r, h < i, r[i].op \in Joiner
        PROVE  r[h].op \in Joiner
    BY <1>5, <2>2 DEF Stacked
  <2> QED BY <2>1, <2>2 DEF Stacked
<1>10. ASSUME Head(t).op \notin Joiner, NEW f \in Range(r) PROVE f.op \in Late
  <2>1. PICK i \in DOMAIN t : i > 1 /\ t[i] = f
    BY <1>6
  <2>2. f.op \notin Joiner
    BY <1>4, <1>10, <2>1 DEF Stacked
  <2> QED BY <1>8, <1>10, <2>2
<1> QED BY <1>7, <1>8, <1>9, <1>10 DEF r

LEMMA StackPush ==
  ASSUME NEW S, NEW c \in Seq(S), NEW r \in Seq(S), Stacked(r),
         \A f \in Range(r) : f.op \in Late \cup Joiner,
         \A f \in Range(c) : f.op \in Joiner
  PROVE  Stacked(c \o r)
<1>1. /\ Len(c) \in Nat /\ Len(r) \in Nat /\ DOMAIN c = 1..Len(c) /\ DOMAIN r = 1..Len(r)
  BY LenProperties
<1>2. /\ c \o r \in Seq(S) /\ Len(c \o r) = Len(c) + Len(r)
      /\ \A i \in 1..Len(c) + Len(r) : (c \o r)[i] = IF i <= Len(c) THEN c[i] ELSE r[i - Len(c)]
  BY ConcatProperties
<1>3. DOMAIN (c \o r) = 1..(Len(c) + Len(r))
  BY <1>2, LenProperties
<1> DEFINE u == c \o r
<1>4. ASSUME NEW i \in DOMAIN u
      PROVE  /\ i \in Nat /\ i >= 1
             /\ i <= Len(c) => u[i].op \in Joiner
             /\ i > Len(c) => i - Len(c) \in DOMAIN r /\ u[i] = r[i - Len(c)]
  <2>1. i \in Nat /\ i >= 1 /\ i <= Len(c) + Len(r)
    BY <1>1, <1>3
  <2>2. ASSUME i <= Len(c) PROVE u[i].op \in Joiner
    <3>1. u[i] = c[i] /\ i \in DOMAIN c
      BY <1>1, <1>2, <2>1, <2>2
    <3> QED BY <3>1, RangeIsDomain
  <2>3. ASSUME i > Len(c) PROVE i - Len(c) \in DOMAIN r /\ u[i] = r[i - Len(c)]
    BY <1>1, <1>2, <2>1, <2>3
  <2> QED BY <2>1, <2>2, <2>3
<1> HIDE DEF u
<1>5. ASSUME NEW i \in DOMAIN u PROVE u[i].op \in Late \cup Joiner
  BY <1>1, <1>4, RangeIsDomain
<1>6. ASSUME NEW i \in DOMAIN u, NEW h \in DOMAIN u, h < i, u[i].op \in Joiner
      PROVE  u[h].op \in Joiner
  <2>1. CASE h <= Len(c)
    BY <1>4, <2>1
  <2>2. CASE h > Len(c)
    <3>1. /\ h - Len(c) \in DOMAIN r /\ i - Len(c) \in DOMAIN r
          /\ u[h] = r[h - Len(c)] /\ u[i] = r[i - Len(c)] /\ h - Len(c) < i - Len(c)
      BY <1>1, <1>4, <1>6, <2>2
    <3> QED BY <1>6, <3>1 DEF Stacked
  <2> QED BY <1>1, <1>4, <2>1, <2>2
<1> QED BY <1>5, <1>6 DEF Stacked, u

LEMMA StackPushOne ==
  ASSUME NEW S, NEW g \in S, NEW r \in Seq(S), Stacked(r),
         \A f \in Range(r) : f.op \in Late
  PROVE  Stacked(<<g>> \o r) /\ Range(<<g>> \o r) = {g} \cup Range(r)
<1>1. /\ Len(r) \in Nat /\ DOMAIN r = 1..Len(r) /\ <<g>> \in Seq(S) /\ Len(<<g>>) = 1
  BY LenProperties
<1> DEFINE u == <<g>> \o r
<1>2. /\ u \in Seq(S) /\ Len(u) = 1 + Len(r)
      /\ \A i \in 1..1 + Len(r) : u[i] = IF i <= 1 THEN <<g>>[i] ELSE r[i - 1]
  BY <1>1, ConcatProperties
<1>3. DOMAIN u = 1..(1 + Len(r))
  BY <1>2, LenProperties
<1>4. ASSUME NEW i \in DOMAIN u
      PROVE  i \in Nat /\ i >= 1 /\ (i > 1 => u[i] \in Range(r)) /\ (i = 1 => u[i] = g)
  <2>1. i > 1 => i - 1 \in DOMAIN r /\ u[i] = r[i - 1]
    BY <1>1, <1>2, <1>3
  <2>2. i = 1 => u[i] = g
    BY <1>1, <1>2
  <2> QED BY <1>1, <1>3, <2>1, <2>2, RangeIsDomain
<1>5. Range(<<g>> \o r) = Range(<<g>>) \cup Range(r)
  BY <1>1, RangeConcatenation
<1>6. Range(<<g>>) = {g}
  BY DEF Range
<1> HIDE DEF u
<1>7. Late \cap Joiner = {}
  BY DEF Late, Joiner
<1>8. Stacked(u)
  BY <1>4, <1>7 DEF Stacked
<1> QED BY <1>5, <1>6, <1>8 DEF u

-----------------------------------------------------------------------------
(* The tree, and the jobs a build was caused for.                           *)

LEMMA ParentOfKid ==
  ASSUME NEW h \in Job, NEW k \in Range(Kids[h])
  PROVE  k \in Job \ {Root} /\ ParentOf(k) = h
<1>1. Kids[h] \in Seq(Job) /\ \A i \in DOMAIN Kids[h] : Kids[h][i] # Root
  BY TreeAssumption
<1>2. k \in Job \ {Root}
  <2>1. PICK i \in DOMAIN Kids[h] : Kids[h][i] = k
    BY RangeIsDomain
  <2>2. Range(Kids[h]) \subseteq Job
    BY <1>1, RangeOfSeq
  <2> QED BY <1>1, <2>1, <2>2
<1>3. \A p \in Job : k \in Range(Kids[p]) => p = h
  BY TreeAssumption
<1> QED BY <1>2, <1>3 DEF ParentOf

LEMMA ParentIsJob ==
  ASSUME NEW k \in Job \ {Root}
  PROVE  ParentOf(k) \in Job /\ k \in Range(Kids[ParentOf(k)])
<1>1. \E p \in Job : k \in Range(Kids[p])
  BY TreeAssumption
<1> QED BY <1>1 DEF ParentOf

LEMMA AmongRange ==
  ASSUME NEW S, NEW s \in Seq(S), NEW Q
  PROVE  Among(s, Q) \in Seq(S) /\ Range(Among(s, Q)) = Range(s) \cap Q
  BY AmongProperties, AmongType

LEMMA FirstOrFacts ==
  ASSUME NEW S, NEW s \in Seq(S), NEW d, FirstOr(s, d) # d
  PROVE  FirstOr(s, d) \in Range(s)
<1>1. s # <<>> /\ FirstOr(s, d) = s[1]
  BY DEF FirstOr
<1>2. 1 \in DOMAIN s
  BY <1>1, EmptySeq, LenProperties
<1> QED BY <1>1, <1>2, RangeIsDomain

LEMMA ChildrenFacts ==
  ASSUME JobTypes, NEW j \in Job, NEW k \in Range(Children(j))
  PROVE  k \in Tracked /\ k \in Job \ {Root} /\ ParentOf(k) = j
<1>1. Kids[j] \in Seq(Job)
  BY TreeAssumption
<1>2. k \in Range(Kids[j]) /\ k \in Tracked
  BY <1>1, AmongRange DEF Children
<1> QED BY <1>2, ParentOfKid

LEMMA FindJobFacts ==
  ASSUME JobTypes, NEW id, NEW n, FindJob(id, n) # NoJob
  PROVE  /\ FindJob(id, n) \in Tracked /\ FindJob(id, n) \in Job
         /\ IdentOf[FindJob(id, n)] = id /\ number[FindJob(id, n)] = n
<1> DEFINE Q == {j \in Job : IdentOf[j] = id /\ number[j] = n}
           s == Among(allJobs, Q)
<1>1. s \in Seq(Job) /\ Range(s) = Tracked \cap Q
  BY AmongRange DEF JobTypes, Tracked
<1> HIDE DEF s
<1>2. FirstOr(s, NoJob) # NoJob
  BY DEF FindJob, s
<1>3. FirstOr(s, NoJob) \in Tracked \cap Q
  BY <1>1, <1>2, FirstOrFacts
<1>4. FindJob(id, n) \in Tracked \cap Q
  BY <1>3 DEF FindJob, s
<1> QED BY <1>4

LEMMA ChildOfFacts ==
  ASSUME JobTypes, NEW p \in Job, NEW id, ChildOf(p, id) # NoJob
  PROVE  /\ ChildOf(p, id) \in Range(Children(p)) /\ IdentOf[ChildOf(p, id)] = id
<1> DEFINE Q == {k \in Job : IdentOf[k] = id}
           s == Among(Children(p), Q)
<1>1. Children(p) \in Seq(Job \ {Root})
  BY ChildrenType
<1>2. s \in Seq(Job \ {Root}) /\ Range(s) = Range(Children(p)) \cap Q
  BY <1>1, AmongRange
<1> HIDE DEF s
<1>3. FirstOr(s, NoJob) # NoJob
  BY DEF ChildOf, s
<1>4. FirstOr(s, NoJob) \in Range(Children(p)) \cap Q
  BY <1>2, <1>3, FirstOrFacts
<1>5. ChildOf(p, id) \in Range(Children(p)) \cap Q
  BY <1>4 DEF ChildOf, s
<1> QED BY <1>5

LEMMA CausesType ==
  ASSUME ServerTypeOK, NEW id \in Ident, NEW n \in 1..Len(builds[id])
  PROVE  builds[id][n].causes \in Seq(Cause)
<1>1. builds[id] \in Seq(Build)
  BY DEF ServerTypeOK
<1>2. builds[id][n] \in Build
  BY <1>1, ElementOfSeq
<1> QED BY <1>2 DEF Build

(* A job the causes of a build give is the child of a job with a build that *)
(* is one of these causes.                                                  *)
LEMMA CausedKidFacts ==
  ASSUME ServerTypeOK, JobTypes, NEW id \in Ident, NEW n \in 1..Len(builds[id]), NEW States,
         NEW k \in Range(CausedKids(id, n, States))
  PROVE  /\ k \in Tracked /\ k \in Job \ {Root} /\ IdentOf[k] = id
         /\ ParentOf(k) \in Tracked /\ ParentOf(k) \in Job
         /\ k \in Range(Children(ParentOf(k)))
         /\ state[ParentOf(k)] \in States
         /\ ParentCause(k) \in Range(builds[id][n].causes)
<1> DEFINE causes == builds[id][n].causes
           kid(c) == LET h == FindJob(c[1], c[2])
                     IN  IF h # NoJob /\ state[h] \in States THEN ChildOf(h, id) ELSE NoJob
           kids == [i \in DOMAIN causes |-> kid(causes[i])]
<1>1. causes \in Seq(Cause) /\ DOMAIN causes = 1..Len(causes) /\ Len(causes) \in Nat
  BY CausesType, LenProperties
<1>2. ASSUME NEW c PROVE kid(c) \in Job \cup {NoJob}
  BY FindJobType, ChildOfType
<1> HIDE DEF causes
<1>3. kids \in Seq(Job \cup {NoJob})
  <2> HIDE DEF kid
  <2>1. kids = [i \in 1..Len(causes) |-> kid(causes[i])]
    BY <1>1
  <2>2. \A i \in 1..Len(causes) : kid(causes[i]) \in Job \cup {NoJob}
    BY <1>2
  <2> QED BY <1>1, <2>1, <2>2, IsASeq
<1>4. k \in Range(kids) /\ k \in Job
  <2>1. CausedKids(id, n, States) = Among(kids, Job)
    BY DEF CausedKids, causes
  <2> HIDE DEF kids
  <2> QED BY <1>3, <2>1, AmongRange
<1>5. PICK i \in DOMAIN causes : kid(causes[i]) = k
  <2>1. PICK i \in DOMAIN kids : kids[i] = k
    BY <1>4, RangeIsDomain
  <2> QED BY <2>1
<1> DEFINE c == causes[i]
           h == FindJob(c[1], c[2])
<1>6. c \in Cause /\ c \in Range(causes)
  BY <1>1, <1>5, ElementOfSeq, RangeIsDomain
<1>7. h # NoJob /\ state[h] \in States /\ ChildOf(h, id) = k /\ k # NoJob
  BY <1>4, <1>5, TreeAssumption
<1> HIDE DEF kid, c
<1>8. h \in Tracked /\ h \in Job /\ IdentOf[h] = c[1] /\ number[h] = c[2]
  BY <1>7, FindJobFacts
<1> HIDE DEF h
<1>9. k \in Range(Children(h)) /\ IdentOf[k] = id
  BY <1>7, <1>8, ChildOfFacts
<1>10. k \in Tracked /\ k \in Job \ {Root} /\ ParentOf(k) = h
  BY <1>8, <1>9, ChildrenFacts
<1>11. c = <<c[1], c[2]>>
  BY <1>6 DEF Cause
<1>12. ParentCause(k) = c
  BY <1>8, <1>10, <1>11 DEF ParentCause
<1> QED BY <1>6, <1>7, <1>8, <1>9, <1>10, <1>12 DEF causes

LEMMA MainJobFacts ==
  ASSUME ServerTypeOK, JobTypes, NEW id \in Ident, NEW n \in 1..Len(builds[id]),
         MainJob(id, n) # NoJob
  PROVE  MainJob(id, n) \in Range(CausedKids(id, n, Ran))
<1> DEFINE caused == CausedKids(id, n, Ran)
<1>1. caused \in Seq(Job)
  <2>1. caused \in Seq(Job \ {Root})
    BY CausedKidsType
  <2> HIDE DEF caused
  <2> QED BY <2>1, SeqMonotonic
<1> HIDE DEF caused
<1>2. /\ Masters(id, n) \in Seq(Job) /\ Range(Masters(id, n)) \subseteq Range(caused)
      /\ Potential(id, n) \in Seq(Job) /\ Range(Potential(id, n)) \subseteq Range(caused)
  BY <1>1, AmongRange DEF Masters, Potential, caused
<1>3. /\ Candidates(id, n) \in Seq(Job)
      /\ Range(Candidates(id, n)) = Range(Masters(id, n)) \cup Range(Potential(id, n))
  BY <1>2, ConcatProperties, RangeConcatenation DEF Candidates
<1>4. MainJob(id, n) \in Range(Candidates(id, n))
  BY <1>3, FirstOrFacts DEF MainJob
<1> QED BY <1>2, <1>3, <1>4 DEF caused

(* No job without a build has caused anything: while jobs that are joined   *)
(* or cut have none, the others of a build are the candidates that are not  *)
(* its main job, and no master is among them.                               *)
LEMMA SecondaryFacts ==
  ASSUME TypeInv, CausesReal, JobsOK, NEW id \in Ident, NEW n \in 1..Len(builds[id]),
         ~Ambiguous(id, n), NEW k \in Range(Secondary(id, n))
  PROVE  k \in Range(CausedKids(id, n, Ran)) /\ k \in Job /\ ~IsMaster(k)
<1> USE DEF TypeInv
<1> DEFINE caused == CausedKids(id, n, Ran)
           M == Masters(id, n)
           P == Potential(id, n)
           lost == CausedKids(id, n, {"Joined", "Cut"})
<1>1. caused \in Seq(Job) /\ lost \in Seq(Job)
  <2>1. caused \in Seq(Job \ {Root}) /\ lost \in Seq(Job \ {Root})
    BY CausedKidsType
  <2> HIDE DEF caused, lost
  <2> QED BY <2>1, SeqMonotonic
<1>2. /\ M \in Seq(Job) /\ P \in Seq(Job)
      /\ Range(P) = Range(caused) \cap {j \in Job : ~IsMaster(j)}
  <2> HIDE DEF caused
  <2> QED BY <1>1, AmongRange DEF Masters, Potential, caused
<1>3. Candidates(id, n) = M \o P /\ Len(M) <= 1 /\ Len(M) \in Nat /\ Len(P) \in Nat
  BY <1>2, LenProperties DEF Candidates, Ambiguous
<1>4. Range(lost) = {}
  <2> SUFFICES ASSUME NEW q \in Range(lost) PROVE FALSE
    OBVIOUS
  <2>1. /\ ParentOf(q) \in Job /\ state[ParentOf(q)] \in {"Joined", "Cut"}
        /\ ParentCause(q) \in Range(builds[id][n].causes)
    BY CausedKidFacts
  <2>2. number[ParentOf(q)] # 0
    BY <2>1 DEF CausesReal, ParentCause
  <2>3. JobOK(ParentOf(q))
    BY <2>1 DEF JobsOK
  <2> QED BY <2>1, <2>2, <2>3 DEF JobOK, Ran, Running
<1>5. Candidates(id, n) # <<>> /\ Secondary(id, n) = Tail(M \o P) \o lost
  <2>1. Range(<<>>) = {}
    BY DEF Range
  <2>2. Secondary(id, n) # <<>>
    BY <2>1
  <2> QED BY <1>3, <2>2 DEF Secondary
<1> HIDE DEF lost, M, P, caused
<1> DEFINE u == M \o P
<1>6. /\ u \in Seq(Job) /\ Len(u) = Len(M) + Len(P)
      /\ \A i \in 1..Len(M) + Len(P) : u[i] = IF i <= Len(M) THEN M[i] ELSE P[i - Len(M)]
  BY <1>2, ConcatProperties
<1>7. u # <<>>
  BY <1>3, <1>5
<1> HIDE DEF u
<1>8. /\ Tail(u) \in Seq(Job) /\ Len(Tail(u)) = Len(u) - 1
      /\ \A i \in 1..Len(Tail(u)) : Tail(u)[i] = u[i + 1]
  BY <1>6, <1>7, HeadTailProperties
<1>9. k \in Range(Tail(u))
  <2>1. Range(Tail(u) \o lost) = Range(Tail(u)) \cup Range(lost)
    BY <1>1, <1>8, RangeConcatenation
  <2> QED BY <1>4, <1>5, <2>1 DEF u
<1>10. PICK i \in 1..Len(Tail(u)) : Tail(u)[i] = k
  BY <1>8, <1>9, LenProperties, RangeIsDomain
<1>11. i + 1 - Len(M) \in 1..Len(P) /\ k = P[i + 1 - Len(M)]
  BY <1>3, <1>6, <1>8, <1>10
<1>12. k \in Range(P)
  BY <1>2, <1>11, LenProperties, RangeIsDomain
<1> QED BY <1>2, <1>12 DEF caused

-----------------------------------------------------------------------------
(* Moves of a job.                                                          *)

Move(j, s) ==
  /\ j \in Tracked /\ Valid(state[j], s)
  /\ s = "Cut" => Below(j, {"Joined", "Cut"})
  /\ state' = [state EXCEPT ![j] = s]
Moves == UNCHANGED state \/ \E j \in Job, s \in JobState : Move(j, s)

LEMMA ValidFacts ==
  ASSUME NEW s \in JobState, NEW t, Valid(s, t)
  PROVE  /\ t \in JobState /\ s \notin {"Done", "Queued", "Joined", "Cut"}
         /\ s \in Ran => t \in Ran
         /\ t \in Active => s \in Active
         /\ t \in Lifecycle!Documented[s]
<1> USE DEF Valid, JobState, Ran, Running, Active, Lifecycle!Documented
<1>1. CASE s = "New"
  BY <1>1
<1>2. CASE s = "Locating"
  BY <1>2
<1>3. CASE s = "Streaming"
  BY <1>3
<1>4. CASE s = "Finishing"
  BY <1>4
<1>5. CASE s = "Downloading"
  BY <1>5
<1>6. CASE s \in {"Done", "Queued", "Joined", "Cut"}
  BY <1>6
<1> QED BY <1>1, <1>2, <1>3, <1>4, <1>5, <1>6

LEMMA MovesImplement ==
  ASSUME JobTypes, Moves
  PROVE  [Lifecycle!Next]_state
<1> SUFFICES ASSUME NEW j \in Job, NEW s \in JobState, Move(j, s) PROVE Lifecycle!Next
  BY DEF Moves
<1>1. state[j] \in JobState
  BY DEF JobTypes
<1>2. s \in Lifecycle!Documented[state[j]]
  BY <1>1, ValidFacts DEF Move
<1>3. s = "Cut" => ParentOf(j) \in Job /\ state[ParentOf(j)] \in {"Joined", "Cut"}
  BY ParentIsJob DEF Move, Below
<1>4. state' = [state EXCEPT ![j] = s]
  BY DEF Move
<1>5. Lifecycle!Move(j)
  BY <1>2, <1>3, <1>4 DEF Lifecycle!Move
<1> QED BY <1>5 DEF Lifecycle!Next

LEMMA MovesActive ==
  ASSUME JobTypes, Moves, NEW k \in Job, state'[k] \in Active
  PROVE  state[k] \in Active
<1>1. CASE UNCHANGED state
  BY <1>1
<1>2. ASSUME NEW j \in Job, NEW s \in JobState, Move(j, s) PROVE state[k] \in Active
  <2>1. state[j] \in JobState /\ Valid(state[j], s) /\ state' = [state EXCEPT ![j] = s]
    BY <1>2 DEF Move, JobTypes
  <2>2. s \in Active => state[j] \in Active
    BY <2>1, ValidFacts
  <2> QED BY <2>1, <2>2 DEF JobTypes
<1> QED BY <1>1, <1>2 DEF Moves

(* A step that only moves a job leaves the console to the same job. *)
LEMMA ConsoleKept ==
  ASSUME JobTypes, Moves, OneConsoleWriter, UNCHANGED <<allJobs, console>>
  PROVE  OneConsoleWriter'
<1>1. SUFFICES ASSUME NEW j \in Tracked, NEW k \in Tracked, state'[j] \in Active, console[j],
                      state'[k] \in Active, console[k]
               PROVE  j = k
  BY DEF OneConsoleWriter, IsActive, Tracked
<1>2. j \in Job /\ k \in Job
  BY RangeOfSeq DEF JobTypes, Tracked
<1>3. state[j] \in Active /\ state[k] \in Active
  BY <1>1, <1>2, MovesActive
<1> QED BY <1>1, <1>3 DEF OneConsoleWriter, IsActive

(* FlushJobConsolesSafely gives the console to the only runner, and only    *)
(* while nobody has it.                                                     *)
LEMMA ConsoleFlushed ==
  ASSUME JobTypes, Moves, OneConsoleWriter, UNCHANGED allJobs, console' = Flushed(state')
  PROVE  /\ OneConsoleWriter'
         /\ \A k \in Job : console'[k] => console[k] \/ k \in Tracked
<1> DEFINE writers == {j \in Tracked : state'[j] \in Active /\ console[j]}
           runners == {j \in Tracked : state'[j] \in {"Streaming", "Finishing"}}
<1>1. \A k \in Job : console'[k] <=>
         \/ console[k]
         \/ /\ writers = {} /\ opts.console /\ k \in Tracked
            /\ state'[k] = "Done" \/ runners = {k}
  BY DEF Flushed
<1> HIDE DEF runners
<1>2. SUFFICES ASSUME NEW j \in Tracked, NEW k \in Tracked, state'[j] \in Active, console'[j],
                      state'[k] \in Active, console'[k]
               PROVE  j = k
  BY <1>1 DEF OneConsoleWriter, IsActive, Tracked
<1>3. j \in Job /\ k \in Job
  BY RangeOfSeq DEF JobTypes, Tracked
<1>4. CASE writers = {}
  <2>1. ~console[j] /\ ~console[k] /\ state'[j] # "Done" /\ state'[k] # "Done"
    BY <1>2, <1>4 DEF Active
  <2>2. runners = {j} /\ runners = {k}
    BY <1>1, <1>2, <1>3, <2>1
  <2> QED BY <2>2
<1>5. CASE writers # {}
  <2>1. console[j] /\ console[k]
    BY <1>1, <1>2, <1>3, <1>5
  <2>2. state[j] \in Active /\ state[k] \in Active
    BY <1>2, <1>3, MovesActive
  <2> QED BY <2>1, <2>2 DEF OneConsoleWriter, IsActive
<1> QED BY <1>4, <1>5

(* What a step has to show: only a denied request turns console capture off. *)
Denial == <<"stream", "denied">> \in FaultKinds /\ opts'.shouldFail /\ (ExitOnFailed => exited')
LifeStep == Moves /\ OneConsoleWriter' /\ Lawful' /\ (Mode' \/ Denial)
SeekSame == \A id \in Ident : search'[id].seeking \in {search[id].seeking, <<>>}

LEMMA SeekKept ==
  ASSUME Seeking, UNCHANGED allJobs, SeekSame
  PROVE  Seeking'
<1>1. Range(<<>>) = {}
  BY DEF Range
<1>2. ASSUME NEW id \in Ident PROVE Range(search'[id].seeking) \subseteq Tracked
  <2>1. search'[id].seeking = search[id].seeking \/ search'[id].seeking = <<>>
    BY DEF SeekSame
  <2> QED BY <1>1, <2>1 DEF Seeking
<1> QED BY <1>2 DEF Seeking, Tracked

(* A step that moves no job. *)
LEMMA JobsRest ==
  ASSUME JobTypes, JobsOK, UNCHANGED <<allJobs, state, number, opts>>,
         \A k \in Job : console'[k] => console[k] \/ k \in Tracked,
         \A k \in Job : \/ work'[k] \in {work[k], "idle", "busy", "timer", "init", "then"}
                        \/ work'[k] = "stream" /\ state[k] = "Streaming"
                        \/ work'[k] = "finish" /\ state[k] = "Finishing"
  PROVE  JobsOK'
<1>1. ASSUME NEW j \in Job PROVE JobOK(j)'
  <2>1. JobOK(j)
    BY DEF JobsOK
  <2> QED BY <2>1 DEF JobOK, Below, Tracked
<1> QED BY <1>1 DEF JobsOK

LEMMA RestStep ==
  ASSUME JobTypes, JobsOK, Mode, Seeking, OneConsoleWriter, CallsOK', SeekSame,
         UNCHANGED <<allJobs, state, number, console, opts>>,
         \A k \in Job : \/ work'[k] \in {work[k], "idle", "busy", "timer", "init", "then"}
                        \/ work'[k] = "stream" /\ state[k] = "Streaming"
                        \/ work'[k] = "finish" /\ state[k] = "Finishing"
  PROVE  LifeStep
<1>1. JobsOK'
  BY JobsRest
<1>2. Moves
  BY DEF Moves
<1>3. OneConsoleWriter'
  BY <1>2, ConsoleKept
<1>4. Mode'
  BY DEF Mode, Tracked
<1>5. Seeking'
  BY SeekKept
<1> QED BY <1>1, <1>2, <1>3, <1>4, <1>5 DEF LifeStep, Lawful

(* A step that moves job j to s. *)
LEMMA JobsMove ==
  ASSUME JobTypes, JobsOK, UNCHANGED allJobs, opts'.console => opts.console,
         NEW j \in Job, NEW s \in JobState, Move(j, s),
         s # "Downloading", s = "Queued" => ~opts.console,
         s \in {"Joined", "Cut"} => j # Root,
         s \in Ran \cup {"Joined"} => j = Root \/ Below(j, Ran),
         \A k \in Job : number'[k] = number[k] \/ (k = j /\ s \in Ran),
         \A k \in Job : k # j => work'[k] = work[k],
         work'[j] \notin {"stream", "finish", "download"},
         \A k \in Job : console'[k] => console[k] \/ k \in Tracked
  PROVE  JobsOK'
<1>1. /\ state' = [state EXCEPT ![j] = s] /\ Valid(state[j], s) /\ j \in Tracked
      /\ s = "Cut" => Below(j, {"Joined", "Cut"})
      /\ state[j] \in JobState /\ state \in [Job -> JobState]
  BY DEF Move, JobTypes
<1>2. /\ state[j] \notin {"Done", "Queued", "Joined", "Cut"}
      /\ state[j] \in Ran => s \in Ran
  BY <1>1, ValidFacts
<1>3. {"Joined", "Cut"} \cap Ran = {} /\ "Joined" # "Cut"
  BY DEF Ran, Running
<1>4. ASSUME NEW k \in Job, k # Root PROVE ParentOf(k) \in Job
  BY <1>4, ParentIsJob
<1>5. ASSUME NEW k \in Job, Below(k, Ran) PROVE Below(k, Ran)'
  <2>1. k # Root /\ state[ParentOf(k)] \in Ran /\ ParentOf(k) \in Job
    BY <1>4, <1>5 DEF Below
  <2>2. state'[ParentOf(k)] \in Ran
    BY <1>1, <1>2, <2>1
  <2> QED BY <2>1, <2>2 DEF Below
<1>6. ASSUME NEW k \in Job, Below(k, {"Joined", "Cut"}) PROVE Below(k, {"Joined", "Cut"})'
  <2>1. k # Root /\ state[ParentOf(k)] \in {"Joined", "Cut"} /\ ParentOf(k) \in Job
    BY <1>4, <1>6 DEF Below
  <2>2. state'[ParentOf(k)] = state[ParentOf(k)]
    BY <1>1, <1>2, <2>1
  <2> QED BY <2>1, <2>2 DEF Below
<1>7. ASSUME NEW k \in Job, k # j PROVE JobOK(k)'
  <2>1. JobOK(k) /\ state'[k] = state[k] /\ work'[k] = work[k] /\ number'[k] = number[k]
    BY <1>1, <1>7 DEF JobsOK
  <2> QED BY <1>5, <1>6, <2>1 DEF JobOK, Tracked
<1>8. JobOK(j)'
  <2>1. JobOK(j) /\ state'[j] = s
    BY <1>1 DEF JobsOK
  <2>2. j # Root /\ number'[j] # 0 => s \in Ran
    BY <1>2, <2>1 DEF JobOK
  <2>3. s = "Cut" => Below(j, {"Joined", "Cut"})'
    BY <1>1, <1>6
  <2>4. s \in Ran \cup {"Joined"} => j = Root \/ Below(j, Ran)'
    BY <1>5
  <2>5. j \in Tracked'
    BY <1>1 DEF Tracked
  <2> QED BY <2>1, <2>2, <2>3, <2>4, <2>5 DEF JobOK
<1> QED BY <1>7, <1>8 DEF JobsOK

LEMMA MoveStep ==
  ASSUME JobTypes, JobsOK, Mode, Seeking, OneConsoleWriter, CallsOK', SeekSame,
         UNCHANGED <<allJobs, console, opts>>,
         NEW j \in Job, NEW s \in JobState, Move(j, s),
         s # "Downloading", s = "Queued" => ~opts.console,
         s \in {"Joined", "Cut"} => j # Root,
         s \in Ran \cup {"Joined"} => j = Root \/ Below(j, Ran),
         \A k \in Job : number'[k] = number[k] \/ (k = j /\ s \in Ran),
         \A k \in Job : k # j => work'[k] = work[k],
         work'[j] \notin {"stream", "finish", "download"}
  PROVE  LifeStep
<1>1. JobsOK'
  BY JobsMove
<1>2. Moves
  BY DEF Moves
<1>3. OneConsoleWriter'
  BY <1>2, ConsoleKept
<1>4. Mode'
  BY DEF Mode, Tracked
<1>5. Seeking'
  BY SeekKept
<1> QED BY <1>1, <1>2, <1>3, <1>4, <1>5 DEF LifeStep, Lawful

LEMMA ValidMoves ==
  /\ \A s \in Unresolved, t \in {"Streaming", "Joined", "Cut"} : Valid(s, t)
  /\ Valid("New", "Locating") /\ Valid("Streaming", "Finishing")
  /\ Valid("Finishing", "Queued") /\ Valid("Finishing", "Done")
<1>1. ASSUME NEW s \in Unresolved, NEW t \in {"Streaming", "Joined", "Cut"} PROVE Valid(s, t)
  <2>1. CASE s = "New"
    BY <2>1 DEF Valid
  <2>2. CASE s = "Locating"
    BY <2>2 DEF Valid
  <2> QED BY <2>1, <2>2 DEF Unresolved
<1>2. Valid("New", "Locating") /\ Valid("Streaming", "Finishing")
  BY DEF Valid
<1>3. Valid("Finishing", "Queued") /\ Valid("Finishing", "Done")
  BY DEF Valid
<1> QED BY <1>1, <1>2, <1>3
-----------------------------------------------------------------------------
(* The calls of a running callback.                                         *)

LEMMA TopCall ==
  ASSUME CallTypes, CallsOK, todo # <<>>
  PROVE  /\ Head(todo) \in Frame /\ CallOK(Head(todo)) /\ Tail(todo) \in Seq(Frame)
         /\ Stacked(Tail(todo))
         /\ \A g \in Range(Tail(todo)) : CallOK(g) /\ g.op \in Late \cup Joiner
         /\ Head(todo).op \notin Joiner => \A g \in Range(Tail(todo)) : g.op \in Late
<1>1. todo \in Seq(Frame) /\ Stacked(todo)
  BY DEF CallTypes, CallsOK
<1>2. \A g \in Range(todo) : CallOK(g)
  BY DEF CallsOK
<1> QED BY <1>1, <1>2, StackTop, HeadTailProperties

LEMMA CallsEnd ==
  ASSUME todo' = <<>>
  PROVE  CallsOK'
<1>1. Range(<<>>) = {} /\ DOMAIN <<>> = {}
  BY DEF Range
<1>2. Stacked(<<>>)
  BY <1>1 DEF Stacked
<1> QED BY <1>1, <1>2 DEF CallsOK

(* Calls that change no state ask only that their job is there. *)
LEMMA LateKept ==
  ASSUME UNCHANGED allJobs, NEW g, g.op \in Late, CallOK(g)
  PROVE  CallOK(g)'
  BY DEF CallOK, Late, Tracked, JobOps

LEMMA CallSame ==
  ASSUME UNCHANGED <<allJobs, state, work>>, NEW g, CallOK(g)
  PROVE  CallOK(g)'
  BY DEF CallOK, Below, Tracked

(* The head of the stack makes way for one call or for calls that join or   *)
(* cut jobs.                                                                *)
LEMMA PopOK ==
  ASSUME CallTypes, CallsOK, todo # <<>>, Proceed(Tail(todo)),
         \A g \in Range(Tail(todo)) : CallOK(g)'
  PROVE  CallsOK'
<1>1. Stacked(Tail(todo))
  BY TopCall
<1> QED BY <1>1 DEF Proceed, CallsOK

LEMMA PushOneOK ==
  ASSUME CallTypes, CallsOK, todo # <<>>, Head(todo).op \notin Joiner,
         NEW g \in Frame, Proceed(<<g>> \o Tail(todo)), CallOK(g)',
         \A h \in Range(Tail(todo)) : CallOK(h)'
  PROVE  CallsOK'
<1>1. /\ Tail(todo) \in Seq(Frame) /\ Stacked(Tail(todo))
      /\ \A h \in Range(Tail(todo)) : h.op \in Late
  BY TopCall
<1>2. Stacked(<<g>> \o Tail(todo)) /\ Range(<<g>> \o Tail(todo)) = {g} \cup Range(Tail(todo))
  BY <1>1, StackPushOne
<1>3. todo' = <<g>> \o Tail(todo)
  BY DEF Proceed
<1> QED BY <1>2, <1>3 DEF CallsOK

LEMMA PushJoinersOK ==
  ASSUME CallTypes, CallsOK, todo # <<>>, NEW c \in Seq(Frame), Proceed(c \o Tail(todo)),
         \A g \in Range(c) : g.op \in Joiner /\ CallOK(g)',
         \A h \in Range(Tail(todo)) : CallOK(h)'
  PROVE  CallsOK'
<1>1. /\ Tail(todo) \in Seq(Frame) /\ Stacked(Tail(todo))
      /\ \A h \in Range(Tail(todo)) : h.op \in Late \cup Joiner
  BY TopCall
<1>2. Stacked(c \o Tail(todo)) /\ Range(c \o Tail(todo)) = Range(c) \cup Range(Tail(todo))
  BY <1>1, StackPush, RangeConcatenation
<1>3. todo' = c \o Tail(todo)
  BY DEF Proceed
<1> QED BY <1>2, <1>3 DEF CallsOK

(* CutAll calls Cut for each child. *)
LEMMA CutAllCalls ==
  ASSUME JobTypes, NEW j \in Job
  PROVE  /\ CutAll(Children(j)) \in Seq(Frame)
         /\ \A g \in Range(CutAll(Children(j))) :
              g.op = "Cut" /\ g.job \in Tracked /\ g.job \in Job \ {Root} /\ ParentOf(g.job) = j
<1>1. Children(j) \in Seq(Job)
  <2>1. Children(j) \in Seq(Job \ {Root})
    BY ChildrenType
  <2> QED BY <2>1, SeqMonotonic
<1>2. CutAll(Children(j)) \in Seq(Frame)
  BY <1>1, CutAllType
<1>3. ASSUME NEW g \in Range(CutAll(Children(j)))
      PROVE  g.op = "Cut" /\ g.job \in Tracked /\ g.job \in Job \ {Root} /\ ParentOf(g.job) = j
  <2>1. PICK i \in DOMAIN CutAll(Children(j)) : CutAll(Children(j))[i] = g
    BY RangeIsDomain
  <2>2. i \in DOMAIN Children(j) /\ g = Call("Cut", Children(j)[i])
    BY <2>1 DEF CutAll
  <2>3. g.op = "Cut" /\ g.job = Children(j)[i]
    BY <2>2 DEF Call
  <2>4. g.job \in Range(Children(j))
    BY <2>2, <2>3, RangeIsDomain
  <2> QED BY <2>3, <2>4, ChildrenFacts
<1> QED BY <1>2, <1>3

LEMMA CutAllOK ==
  ASSUME CallTypes, JobTypes, CallsOK, todo # <<>>, UNCHANGED allJobs, NEW j \in Job,
         Proceed(CutAll(Children(j)) \o Tail(todo)), state'[j] \in {"Joined", "Cut"},
         \A h \in Range(Tail(todo)) : CallOK(h)'
  PROVE  CallsOK'
<1> DEFINE c == CutAll(Children(j))
<1>1. c \in Seq(Frame)
  BY CutAllCalls
<1>2. ASSUME NEW g \in Range(c) PROVE g.op \in Joiner /\ CallOK(g)'
  <2>1. g.op = "Cut" /\ g.job \in Tracked /\ g.job \in Job \ {Root} /\ ParentOf(g.job) = j
    BY CutAllCalls
  <2>2. Below(g.job, {"Joined", "Cut"})'
    BY <2>1 DEF Below
  <2> QED BY <2>1, <2>2 DEF Joiner, CallOK, Tracked
<1> HIDE DEF c
<1>3. Proceed(c \o Tail(todo))
  BY DEF c
<1> QED BY <1>1, <1>2, <1>3, PushJoinersOK

(* Joining or cutting a job, in a state in which it may be, spoils none of  *)
(* the calls below.                                                         *)
LEMMA JoinerKept ==
  ASSUME JobTypes, JobsOK, UNCHANGED <<allJobs, work>>, NEW j \in Job, NEW s \in {"Joined", "Cut"},
         state' = [state EXCEPT ![j] = s], state[j] \in Unresolved \cup {s},
         s = "Cut" => Below(j, {"Joined", "Cut"}),
         NEW g \in Frame, g.op \in Late \cup Joiner, CallOK(g)
  PROVE  CallOK(g)'
<1>1. CASE g.op \in Late
  BY <1>1, LateKept
<1>2. {"Joined", "Cut"} \cap Ran = {} /\ Unresolved \cap Ran = {}
  BY DEF Ran, Running, Unresolved
<1>3. ASSUME g.op \in Joiner PROVE CallOK(g)'
  <2>1. g.job \in Job /\ g.job \in Tracked
    BY <1>3, JobCallFields DEF Joiner, JobOps, CallOK
  <2>2. ParentOf(g.job) \in Job \/ g.job = Root
    BY <2>1, ParentIsJob
  <2>3. state \in [Job -> JobState]
    BY DEF JobTypes
  <2>4. CASE g.op = "JoinUnlessCut"
    <3>1. state[g.job] \in Unresolved \cup {"Joined"} /\ Below(g.job, Ran)
      BY <2>4 DEF CallOK
    <3>2. Below(g.job, Ran)'
      BY <1>2, <2>2, <2>3, <3>1 DEF Below
    <3>3. state'[g.job] \in Unresolved \cup {"Joined"}
      <4>1. g.job = j => s # "Cut"
        BY <1>2, <3>1 DEF Below
      <4> QED BY <2>1, <2>3, <3>1, <4>1
    <3> QED BY <2>1, <2>4, <3>2, <3>3 DEF CallOK, Tracked
  <2>5. CASE g.op = "Cut"
    <3>1. Below(g.job, {"Joined", "Cut"})
      BY <2>5 DEF CallOK
    <3>2. Below(g.job, {"Joined", "Cut"})'
      BY <2>2, <2>3, <3>1 DEF Below
    <3> QED BY <2>1, <2>5, <3>2 DEF CallOK, Tracked
  <2> QED BY <1>3, <2>4, <2>5 DEF Joiner
<1> QED BY <1>1, <1>3

-----------------------------------------------------------------------------
(* The call on top is made.                                                 *)

LEMMA SameSeeking ==
  ASSUME UNCHANGED search
  PROVE  SeekSame
  BY DEF SeekSame

LEMMA SeekingFields ==
  ASSUME NEW s \in Search
  PROVE  /\ \A w : [s EXCEPT !.work = w].seeking = s.seeking
         /\ \A w, q : [s EXCEPT !.work = w, !.seeking = q].seeking = q
         /\ \A c : [s EXCEPT !.ctor = c].seeking = s.seeking
         /\ \A w, q : [s EXCEPT !.seeking = q, !.work = w].seeking = q
         /\ \A w, x : [s EXCEPT !.work = w, !.found = x].seeking = s.seeking
  BY DEF Search

LEMMA SeekSet ==
  ASSUME SearchTypes, NEW id \in Ident, NEW s, search' = [search EXCEPT ![id] = s],
         s.seeking \in {search[id].seeking, <<>>}
  PROVE  SeekSame
  BY DEF SearchTypes, SeekSame

LEMMA SeekSetWork ==
  ASSUME SearchTypes, NEW id \in Ident, NEW w, search' = [search EXCEPT ![id].work = w]
  PROVE  SeekSame
<1> DEFINE s == [search[id] EXCEPT !.work = w]
<1>1. search[id] \in Search
  BY DEF SearchTypes
<1>2. s.seeking = search[id].seeking
  BY <1>1, SeekingFields
<1>3. search' = [search EXCEPT ![id] = s]
  OBVIOUS
<1> HIDE DEF s
<1> QED BY <1>2, <1>3, SeekSet

LEMMA ResolveLife ==
  ASSUME TypeInv, CausesReal, OneConsoleWriter, Live, todo # <<>>, UNCHANGED <<serverVars, opts>>,
         NEW f, f = Head(todo), Resolve(f)
  PROVE  LifeStep
<1> USE DEF TypeInv
<1> DEFINE j == f.job
           id == IdentOf[j]
           rest == Tail(todo)
           hits == {n \in search[id].found :
                      \/ Undetermined(id, n)
                      \/ MainJob(id, n) = j
                      \/ j \in Range(Secondary(id, n))}
           n == Min(hits)
<1>1. /\ f \in Frame /\ CallOK(f) /\ f.op \in JobOps /\ f.op \notin Joiner
      /\ j \in Job /\ id \in Ident /\ j \in Tracked
  <2>1. f \in Frame /\ CallOK(f)
    BY TopCall DEF Live
  <2>2. f.op \in JobOps /\ f.op \notin Joiner
    BY DEF Resolve, JobOps, Joiner
  <2> QED BY <2>1, <2>2, JobCallFields, TreeAssumption DEF CallOK
<1>2. UNCHANGED jobVars
  BY DEF Resolve
<1>3. \A g \in Range(rest) : CallOK(g)'
  <2>1. \A g \in Range(rest) : CallOK(g)
    BY TopCall DEF Live
  <2> QED BY <1>2, <2>1, CallSame DEF jobVars
<1>4. ASSUME Proceed(rest)
      PROVE  CallsOK'
  <2>1. CallsOK'
    BY <1>3, <1>4, PopOK DEF Live
  <2> QED BY <2>1
<1>5. ASSUME NEW g \in Frame, CallOK(g), Proceed(<<g>> \o rest) PROVE CallsOK'
  <2>1. CallOK(g)'
    BY <1>2, <1>5, CallSame DEF jobVars
  <2> QED BY <1>1, <1>3, <1>5, <2>1, PushOneOK DEF Live
<1>6. ASSUME Raise
      PROVE  CallsOK'
  BY <1>6, CallsEnd DEF Raise
<1>7. ASSUME state[j] \in Unresolved, j = Root,
             Proceed(<<CallAt("Streaming", j, number[j])>> \o rest)
      PROVE  CallsOK'
  <2> DEFINE g == CallAt("Streaming", j, number[j])
  <2>1. g \in Frame
    BY <1>1, <1>7, CallType DEF JobTypes, JobOps
  <2>2. CallOK(g)
    BY <1>1, <1>7 DEF CallOK, CallAt
  <2> HIDE DEF g
  <2>3. CallsOK'
    BY <1>5, <1>7, <2>1, <2>2 DEF g
  <2> QED BY <2>3
<1>8. ASSUME j # Root, state[ParentOf(j)] \in {"Joined", "Cut"},
             Proceed(<<Call("Cut", j)>> \o rest)
      PROVE  CallsOK'
  <2> DEFINE g == Call("Cut", j)
  <2>1. g \in Frame
    BY <1>1, CallType DEF JobOps
  <2>2. CallOK(g)
    BY <1>1, <1>8 DEF CallOK, Call, Below
  <2> HIDE DEF g
  <2>3. CallsOK'
    BY <1>5, <1>8, <2>1, <2>2 DEF g
  <2> QED BY <2>3
<1>9. ASSUME hits # {} PROVE n \in 1..Len(builds[id]) /\ n \in Nat /\ n \in hits
  <2>1. hits \subseteq 1..Len(builds[id])
    BY <1>1 DEF FoundExist
  <2>2. Len(builds[id]) \in Nat
    BY <1>1, LenProperties DEF ServerTypeOK
  <2>3. hits \in SUBSET Nat
    BY <2>1, <2>2
  <2> HIDE DEF hits
  <2> QED BY <1>9, <2>1, <2>3, MinType
<1>10. ASSUME state[j] \in Unresolved, j # Root, hits # {}, MainJob(id, n) = j,
              Proceed(<<CallAt("Streaming", j, n)>> \o rest)
      PROVE  CallsOK'
  <2> DEFINE g == CallAt("Streaming", j, n)
  <2>1. g \in Frame
    BY <1>1, <1>9, <1>10, CallType DEF JobOps
  <2>2. n \in 1..Len(builds[id]) /\ MainJob(id, n) = j
    BY <1>9, <1>10
  <2> HIDE DEF n
  <2>3. MainJob(id, n) # NoJob
    BY <1>1, <2>2, TreeAssumption
  <2>4. j \in Range(CausedKids(id, n, Ran))
    BY <1>1, <2>2, <2>3, MainJobFacts
  <2>5. state[ParentOf(j)] \in Ran
    BY <1>1, <2>2, <2>4, CausedKidFacts
  <2>6. CallOK(g)
    BY <1>1, <1>10, <2>5 DEF CallOK, CallAt, Below
  <2> HIDE DEF g
  <2>7. CallsOK'
    BY <1>5, <1>10, <2>1, <2>6 DEF g
  <2> QED BY <2>7
<1>11. ASSUME state[j] \in Unresolved, j # Root, hits # {}, ~Undetermined(id, n),
              MainJob(id, n) # j, Proceed(<<CallWith("Join", j, MainJob(id, n))>> \o rest)
      PROVE  CallsOK'
  <2> DEFINE g == CallWith("Join", j, MainJob(id, n))
  <2>1. n \in 1..Len(builds[id]) /\ j \in Range(Secondary(id, n))
    BY <1>9, <1>11
  <2> HIDE DEF n
  <2>2. Secondary(id, n) # <<>>
    <3>1. Range(<<>>) = {}
      BY DEF Range
    <3> HIDE DEF j, id
    <3> QED BY <2>1, <3>1
  <2>3. MainJob(id, n) \in Job
    BY <1>1, <2>1, <2>2, MainJobTypes
  <2>4. g \in Frame
    BY <1>1, <2>3, CallType DEF JobOps
  <2>5. j \in Range(CausedKids(id, n, Ran))
    BY <1>1, <1>11, <2>1, SecondaryFacts DEF Live, Undetermined
  <2>6. state[ParentOf(j)] \in Ran
    BY <1>1, <2>1, <2>5, CausedKidFacts
  <2>7. CallOK(g)
    BY <1>1, <1>11, <2>6 DEF CallOK, CallWith, Below
  <2> HIDE DEF g
  <2>8. CallsOK'
    BY <1>5, <1>11, <2>4, <2>7 DEF g
  <2> QED BY <2>8
<1>12. CallsOK'
  BY <1>4, <1>6, <1>7, <1>8, <1>10, <1>11 DEF Resolve, Unresolved
<1>13. SeekSame
  <2>1. UNCHANGED search \/ search' = [search EXCEPT ![id].work = "missing"]
    BY DEF Resolve
  <2> QED BY <1>1, <2>1, SameSeeking, SeekSetWork
<1> QED BY <1>2, <1>12, <1>13, RestStep DEF Live, jobVars

LEMMA SetStreamingLife ==
  ASSUME TypeInv, OneConsoleWriter, Live, todo # <<>>, UNCHANGED opts,
         NEW f, f = Head(todo), SetStreaming(f)
  PROVE  LifeStep
<1> USE DEF TypeInv
<1> DEFINE j == f.job
           rest == Tail(todo)
<1>1. /\ f \in Frame /\ CallOK(f) /\ f.op = "Streaming" /\ f.op \in JobOps /\ f.op \notin Joiner
      /\ j \in Job /\ j \in Tracked
  <2>1. f \in Frame /\ CallOK(f)
    BY TopCall DEF Live
  <2>2. f.op = "Streaming" /\ f.op \in JobOps /\ f.op \notin Joiner
    BY DEF SetStreaming, JobOps, Joiner
  <2> QED BY <2>1, <2>2, JobCallFields DEF CallOK
<1>2. UNCHANGED <<allJobs, joined, console, result, work, search>> /\ SeekSame
  BY SameSeeking DEF SetStreaming
<1>3. \A g \in Range(rest) : CallOK(g)'
  <2>1. \A g \in Range(rest) : CallOK(g) /\ g.op \in Late
    BY <1>1, TopCall DEF Live
  <2> QED BY <1>2, <2>1, LateKept
<1>4. /\ "Streaming" \in JobState /\ "Streaming" \in Ran
      /\ \A s \in Unresolved : Valid(s, "Streaming")
  BY ValidMoves DEF JobState, Ran, Running
<1>5. j = Root => state[j] \in Unresolved
  BY <1>1 DEF CallOK
<1>6. j # Root => Below(j, Ran)
  BY <1>1 DEF CallOK
<1>7. ASSUME NEW g \in Frame, CallOK(g)', Proceed(<<g>> \o rest) PROVE CallsOK'
  BY <1>1, <1>3, <1>7, PushOneOK DEF Live
<1>8. ASSUME state[j] \in Unresolved, state' = [state EXCEPT ![j] = "Streaming"],
             number' = number \/ number' = [number EXCEPT ![j] = f.num],
             CallsOK'
      PROVE  LifeStep
  <2>1. Move(j, "Streaming")
    BY <1>1, <1>4, <1>8 DEF Move
  <2>2. \A k \in Job : number'[k] = number[k] \/ k = j
    BY <1>1, <1>8 DEF JobTypes
  <2>3. work'[j] \notin {"stream", "finish", "download"}
    BY <1>1, <1>2, <1>8 DEF Live, JobsOK, JobOK, Unresolved
  <2> HIDE DEF j
  <2> QED BY <1>1, <1>2, <1>4, <1>6, <1>8, <2>1, <2>2, <2>3, MoveStep DEF Live
<1>9. CASE /\ ~opts.console /\ UNCHANGED number
           /\ ChangeState(j, "Streaming", <<Call("Finishing", j)>> \o rest)
  <2>1. j = Root /\ state[j] \in Unresolved
    BY <1>1, <1>5, <1>9 DEF Live, Mode
  <2>2. state' = [state EXCEPT ![j] = "Streaming"] /\ Proceed(<<Call("Finishing", j)>> \o rest)
    BY <1>4, <1>9, <2>1 DEF ChangeState
  <2>3. work[j] # "stream"
    BY <1>1, <2>1 DEF Live, JobsOK, JobOK, Unresolved
  <2>4. PICK g \in Frame : g = Call("Finishing", j)
    BY <1>1, CallType DEF JobOps
  <2>5. g.op = "Finishing" /\ g.job = j
    BY <2>4 DEF Call
  <2>6. CallOK(g)'
    BY <1>1, <1>2, <2>2, <2>3, <2>5 DEF CallOK, Tracked, JobTypes
  <2>7. CallsOK'
    BY <1>7, <2>2, <2>4, <2>6
  <2> QED BY <1>8, <1>9, <2>1, <2>2, <2>7
<1>10. ASSUME Proceed(<<Call("JoinOthers", j)>> \o rest) PROVE CallsOK'
  <2>1. PICK g \in Frame : g = Call("JoinOthers", j)
    BY <1>1, CallType DEF JobOps
  <2>2. g.op = "JoinOthers" /\ g.job = j
    BY <2>1 DEF Call
  <2>3. CallOK(g)'
    BY <1>1, <1>2, <2>2 DEF CallOK, Tracked
  <2> QED BY <1>7, <1>10, <2>1, <2>3
<1>11. CASE /\ opts.console /\ state[j] \in Unresolved
            /\ number' = [number EXCEPT ![j] = f.num]
            /\ ChangeState(j, "Streaming", <<Call("JoinOthers", j)>> \o rest)
  <2>1. state' = [state EXCEPT ![j] = "Streaming"] /\ Proceed(<<Call("JoinOthers", j)>> \o rest)
    BY <1>4, <1>11 DEF ChangeState
  <2> QED BY <1>8, <1>10, <1>11, <2>1
<1>12. CASE CallsOK' /\ UNCHANGED <<state, number>>
  BY <1>2, <1>12, RestStep DEF Live
<1>13. CASE Raise /\ UNCHANGED <<state, number>>
  BY <1>12, <1>13, CallsEnd DEF Raise
<1>14. CASE Proceed(<<Call("JoinOthers", j)>> \o rest) /\ UNCHANGED <<state, number>>
  BY <1>10, <1>12, <1>14
<1> QED BY <1>9, <1>11, <1>13, <1>14 DEF SetStreaming, Unresolved

LEMMA SetFinishingLife ==
  ASSUME TypeInv, OneConsoleWriter, Live, todo # <<>>, UNCHANGED opts,
         NEW f, f = Head(todo), SetFinishing(f)
  PROVE  LifeStep
<1> USE DEF TypeInv
<1> DEFINE j == f.job
<1>1. /\ f \in Frame /\ CallOK(f) /\ f.op = "Finishing" /\ f.op \in JobOps /\ f.op \notin Joiner
      /\ j \in Job /\ j \in Tracked
  <2>1. f \in Frame /\ CallOK(f)
    BY TopCall DEF Live
  <2>2. f.op = "Finishing" /\ f.op \in JobOps /\ f.op \notin Joiner
    BY DEF SetFinishing, JobOps, Joiner
  <2> QED BY <2>1, <2>2, JobCallFields DEF CallOK
<1>2. UNCHANGED <<allJobs, number, joined, console, result, work, search>> /\ SeekSame
  BY SameSeeking DEF SetFinishing
<1>3. \A g \in Range(Tail(todo)) : CallOK(g)'
  <2>1. \A g \in Range(Tail(todo)) : CallOK(g) /\ g.op \in Late
    BY <1>1, TopCall DEF Live
  <2> QED BY <1>2, <2>1, LateKept
<1>4. /\ state[j] = "Streaming" /\ work[j] # "stream" /\ JobOK(j)
      /\ "Finishing" \in JobState /\ "Finishing" \in Ran /\ "Streaming" \in Ran
  BY <1>1 DEF CallOK, Live, JobsOK, JobState, Ran, Running
<1>5. state' = [state EXCEPT ![j] = "Finishing"] /\ Proceed(Tail(todo))
  BY <1>4, ValidMoves DEF SetFinishing, ChangeState
<1>6. Move(j, "Finishing")
  BY <1>1, <1>4, <1>5, ValidMoves DEF Move
<1>7. CallsOK'
  BY <1>3, <1>5, PopOK DEF Live
<1>8. work'[j] \notin {"stream", "finish", "download"} /\ (j = Root \/ Below(j, Ran))
  BY <1>2, <1>4 DEF JobOK
<1> HIDE DEF j
<1> QED BY <1>1, <1>2, <1>4, <1>6, <1>7, <1>8, MoveStep DEF Live

(* Whoever is told to join has not been started. *)
LEMMA JoinOthersLife ==
  ASSUME TypeInv, CausesReal, OneConsoleWriter, Live, todo # <<>>, UNCHANGED opts,
         NEW f, f = Head(todo), JoinOthersToMe(f)
  PROVE  LifeStep
<1> USE DEF TypeInv
<1> DEFINE j == f.job
           id == IdentOf[j]
           n == number[j]
           others == Secondary(id, n)
           c == [i \in DOMAIN others |-> CallWith("JoinUnlessCut", others[i], j)]
<1>1. /\ f \in Frame /\ CallOK(f) /\ f.op \in JobOps /\ f.op \notin Joiner
      /\ j \in Job /\ j \in Tracked /\ id \in Ident
  <2>1. f \in Frame /\ CallOK(f)
    BY TopCall DEF Live
  <2>2. f.op \in JobOps /\ f.op \notin Joiner
    BY DEF JoinOthersToMe, JobOps, Joiner
  <2> QED BY <2>1, <2>2, JobCallFields, TreeAssumption DEF CallOK
<1>2. UNCHANGED <<jobVars, search>> /\ SeekSame
  BY SameSeeking DEF JoinOthersToMe
<1>3. \A g \in Range(Tail(todo)) : CallOK(g)'
  <2>1. \A g \in Range(Tail(todo)) : CallOK(g) /\ g.op \in Late
    BY <1>1, TopCall DEF Live
  <2> QED BY <1>2, <2>1, LateKept DEF jobVars
<1>4. ASSUME n \in search[id].found, ~Undetermined(id, n), Proceed(c \o Tail(todo)) PROVE CallsOK'
  <2>1. n \in 1..Len(builds[id])
    BY <1>1, <1>4 DEF FoundExist
  <2>2. others \in Seq(Job)
    BY <1>1, <2>1, MainJobTypes
  <2> HIDE DEF others
  <2>3. c \in Seq(Frame)
    BY <1>1, <2>2, CallsWithType DEF JobOps
  <2>4. ASSUME NEW k \in Range(others)
        PROVE  /\ k \in Job /\ k \in Tracked /\ Below(k, Ran)
               /\ state[k] \in Unresolved \cup {"Joined"}
    <3>1. k \in Range(CausedKids(id, n, Ran)) /\ k \in Job /\ ~IsMaster(k)
      <4> HIDE DEF n, id
      <4> QED BY <1>1, <1>4, <2>1, <2>4, SecondaryFacts DEF Live, others, Undetermined
    <3>2. k \in Tracked /\ k # Root /\ state[ParentOf(k)] \in Ran
      <4> HIDE DEF n, id
      <4> QED BY <1>1, <2>1, <3>1, CausedKidFacts
    <3>3. JobOK(k) /\ state[k] \in JobState
      BY <3>1 DEF Live, JobsOK, JobTypes
    <3>4. state[k] # "Queued"
      BY <3>2, <3>3 DEF JobOK, Live, Mode
    <3>5. state[k] # "Cut"
      BY <3>2, <3>3 DEF JobOK, Below, Ran, Running
    <3>6. state[k] \in Unresolved \cup {"Joined"}
      BY <3>1, <3>3, <3>4, <3>5 DEF JobOK, IsMaster, JobState, Unresolved
    <3> QED BY <3>1, <3>2, <3>6 DEF Below
  <2>5. ASSUME NEW g \in Range(c) PROVE g.op \in Joiner /\ CallOK(g)'
    <3>1. PICK i \in DOMAIN others : g = CallWith("JoinUnlessCut", others[i], j)
      <4>1. PICK i \in DOMAIN c : c[i] = g
        BY <2>5, RangeIsDomain
      <4> QED BY <4>1
    <3>2. g.op = "JoinUnlessCut" /\ g.job = others[i] /\ g.job \in Range(others)
      BY <3>1, RangeIsDomain DEF CallWith
    <3>3. CallOK(g)
      BY <2>4, <3>2 DEF CallOK
    <3> QED BY <1>2, <3>2, <3>3, CallSame DEF Joiner, jobVars
  <2> HIDE DEF c
  <2> QED BY <1>3, <1>4, <2>3, <2>5, PushJoinersOK DEF Live
<1>5. CallsOK'
  <2>1. CASE Proceed(Tail(todo))
    BY <1>3, <2>1, PopOK DEF Live
  <2>2. CASE Raise
    BY <2>2, CallsEnd DEF Raise
  <2> QED BY <1>4, <2>1, <2>2 DEF JoinOthersToMe
<1> QED BY <1>2, <1>5, RestStep DEF Live, jobVars

LEMMA SetJoinedLife ==
  ASSUME TypeInv, OneConsoleWriter, Live, todo # <<>>, UNCHANGED opts,
         NEW f, f = Head(todo), SetJoined(f)
  PROVE  LifeStep
<1> USE DEF TypeInv
<1> DEFINE j == f.job
<1>1. /\ f \in Frame /\ CallOK(f) /\ f.op \in {"Join", "JoinUnlessCut"} /\ f.op \in JobOps
      /\ j \in Job /\ j \in Tracked
  <2>1. f \in Frame /\ CallOK(f)
    BY TopCall DEF Live
  <2>2. f.op \in {"Join", "JoinUnlessCut"} /\ f.op \in JobOps
    BY DEF SetJoined, JobOps
  <2> QED BY <2>1, <2>2, JobCallFields DEF CallOK
<1>2. UNCHANGED <<allJobs, number, console, result, work, search>> /\ SeekSame
  BY SameSeeking DEF SetJoined
<1>3. state[j] \in Unresolved \cup {"Joined"} /\ Below(j, Ran)
  BY <1>1 DEF CallOK
<1>4. /\ Tail(todo) \in Seq(Frame)
      /\ \A g \in Range(Tail(todo)) : g \in Frame /\ CallOK(g) /\ g.op \in Late \cup Joiner
  BY TopCall, RangeOfSeq DEF Live
<1>5. CASE UNCHANGED state /\ Proceed(Tail(todo))
  <2>1. \A g \in Range(Tail(todo)) : CallOK(g)'
    BY <1>2, <1>4, <1>5, CallSame
  <2>2. CallsOK'
    BY <1>5, <2>1, PopOK DEF Live
  <2> QED BY <1>2, <1>5, <2>2, RestStep DEF Live
<1>6. CASE /\ state' = [state EXCEPT ![j] = "Joined"]
           /\ Raise \/ Proceed(CutAll(Children(j)) \o Tail(todo))
  <2>1. \A g \in Range(Tail(todo)) : CallOK(g)'
    <3> HIDE DEF j
    <3> QED BY <1>1, <1>2, <1>3, <1>4, <1>6, JoinerKept DEF Live
  <2>2. state'[j] = "Joined"
    BY <1>1, <1>6 DEF JobTypes
  <2>3. CallsOK'
    <3>1. CASE Raise
      BY <3>1, CallsEnd DEF Raise
    <3>2. CASE Proceed(CutAll(Children(j)) \o Tail(todo))
      <4> HIDE DEF j
      <4> QED BY <1>1, <1>2, <2>1, <2>2, <3>2, CutAllOK DEF Live
    <3> QED BY <1>6, <3>1, <3>2
  <2>4. CASE state[j] = "Joined"
    <3>1. UNCHANGED state
      BY <1>6, <2>4 DEF JobTypes
    <3> QED BY <1>2, <2>3, <3>1, RestStep DEF Live
  <2>5. CASE state[j] \in Unresolved
    <3>1. Move(j, "Joined")
      BY <1>1, <1>6, <2>5, ValidMoves DEF Move
    <3>2. work'[j] \notin {"stream", "finish", "download"}
      BY <1>1, <1>2, <2>5 DEF Live, JobsOK, JobOK, Unresolved
    <3>3. j # Root /\ "Joined" \in JobState
      BY <1>3 DEF Below, JobState
    <3> HIDE DEF j
    <3> QED BY <1>1, <1>2, <1>3, <2>3, <3>1, <3>2, <3>3, MoveStep DEF Live
  <2> QED BY <1>3, <2>4, <2>5
<1> QED BY <1>5, <1>6 DEF SetJoined

LEMMA CutLife ==
  ASSUME TypeInv, OneConsoleWriter, Live, todo # <<>>, UNCHANGED opts,
         NEW f, f = Head(todo), Cut(f)
  PROVE  LifeStep
<1> USE DEF TypeInv
<1> DEFINE j == f.job
<1>1. /\ f \in Frame /\ CallOK(f) /\ f.op = "Cut" /\ f.op \in JobOps
      /\ j \in Job /\ j \in Tracked
  <2>1. f \in Frame /\ CallOK(f)
    BY TopCall DEF Live
  <2>2. f.op = "Cut" /\ f.op \in JobOps
    BY DEF Cut, JobOps
  <2> QED BY <2>1, <2>2, JobCallFields DEF CallOK
<1>2. UNCHANGED <<allJobs, number, console, result, work, search>> /\ SeekSame
  BY SameSeeking DEF Cut
<1>3. Below(j, {"Joined", "Cut"}) /\ j # Root
  BY <1>1 DEF CallOK, Below
<1>4. state[j] \in Unresolved \cup {"Cut"}
  <2>1. JobOK(j) /\ state[j] \in JobState
    BY <1>1 DEF Live, JobsOK, JobTypes
  <2>2. state[j] \notin Ran \cup {"Joined"}
    BY <1>3, <2>1 DEF JobOK, Below, Ran, Running
  <2> QED BY <2>1, <2>2 DEF JobState, Ran, Running, Unresolved
<1>5. /\ Tail(todo) \in Seq(Frame)
      /\ \A g \in Range(Tail(todo)) : g \in Frame /\ CallOK(g) /\ g.op \in Late \cup Joiner
  BY TopCall, RangeOfSeq DEF Live
<1>6. /\ state' = [state EXCEPT ![j] = "Cut"]
      /\ Proceed(CutAll(Children(j)) \o Tail(todo))
  <2>1. state[j] = "Cut" \/ Valid(state[j], "Cut")
    BY <1>4, ValidMoves
  <2> QED BY <2>1 DEF Cut, ChangeState
<1>7. \A g \in Range(Tail(todo)) : CallOK(g)'
  <2> HIDE DEF j
  <2> QED BY <1>1, <1>2, <1>3, <1>4, <1>5, <1>6, JoinerKept DEF Live
<1>8. state'[j] = "Cut"
  BY <1>1, <1>6 DEF JobTypes
<1>9. CallsOK'
  <2> HIDE DEF j
  <2> QED BY <1>1, <1>2, <1>6, <1>7, <1>8, CutAllOK DEF Live
<1>10. CASE state[j] = "Cut"
  <2>1. UNCHANGED state
    BY <1>6, <1>10 DEF JobTypes
  <2> QED BY <1>2, <1>9, <2>1, RestStep DEF Live
<1>11. CASE state[j] \in Unresolved
  <2>1. Move(j, "Cut")
    BY <1>1, <1>3, <1>6, <1>11, ValidMoves DEF Move
  <2>2. work'[j] \notin {"stream", "finish", "download"}
    BY <1>1, <1>2, <1>11 DEF Live, JobsOK, JobOK, Unresolved
  <2>3. "Cut" \in JobState /\ "Cut" \notin Ran
    BY DEF JobState, Ran, Running
  <2> HIDE DEF j
  <2> QED BY <1>1, <1>2, <1>3, <1>9, <2>1, <2>2, <2>3, MoveStep DEF Live
<1> QED BY <1>4, <1>10, <1>11

LEMMA EndInitializeLife ==
  ASSUME TypeInv, OneConsoleWriter, Live, todo # <<>>, UNCHANGED opts,
         NEW f, f = Head(todo), EndInitialize(f)
  PROVE  LifeStep
<1> USE DEF TypeInv
<1> DEFINE j == f.job
<1>1. /\ f \in Frame /\ CallOK(f) /\ f.op \in JobOps /\ f.op \notin Joiner
      /\ j \in Job /\ j \in Tracked
  <2>1. f \in Frame /\ CallOK(f)
    BY TopCall DEF Live
  <2>2. f.op \in JobOps /\ f.op \notin Joiner
    BY DEF EndInitialize, JobOps, Joiner
  <2> QED BY <2>1, <2>2, JobCallFields DEF CallOK
<1>2. UNCHANGED <<allJobs, number, console, result, search>> /\ SeekSame
  BY SameSeeking DEF EndInitialize
<1>3. CallsOK'
  <2>1. \A g \in Range(Tail(todo)) : CallOK(g) /\ g.op \in Late
    BY <1>1, TopCall DEF Live
  <2>2. \A g \in Range(Tail(todo)) : CallOK(g)'
    BY <1>2, <2>1, LateKept
  <2>3. Proceed(Tail(todo))
    BY DEF EndInitialize
  <2> QED BY <2>2, <2>3, PopOK DEF Live
<1>4. work' = [work EXCEPT ![j] = "idle"]
  BY DEF EndInitialize
<1>5. CASE state[j] = "New" /\ state' = [state EXCEPT ![j] = "Locating"]
  <2>1. Move(j, "Locating")
    BY <1>1, <1>5, ValidMoves DEF Move
  <2>2. work'[j] = "idle" /\ \A k \in Job : k # j => work'[k] = work[k]
    BY <1>1, <1>4 DEF JobTypes
  <2>3. "Locating" \in JobState /\ "Locating" \notin Ran
    BY DEF JobState, Ran, Running
  <2> HIDE DEF j
  <2> QED BY <1>1, <1>2, <1>3, <2>1, <2>2, <2>3, MoveStep DEF Live
<1>6. CASE UNCHANGED state
  <2>1. \A k \in Job : work'[k] \in {work[k], "idle"}
    BY <1>1, <1>4 DEF JobTypes
  <2> QED BY <1>2, <1>3, <1>6, <2>1, RestStep DEF Live
<1> QED BY <1>5, <1>6 DEF EndInitialize

LEMMA SearchCallLife ==
  ASSUME TypeInv, OneConsoleWriter, Live, todo # <<>>, UNCHANGED opts,
         NEW f, f = Head(todo), Decide(f) \/ Advance(f)
  PROVE  LifeStep
<1> USE DEF TypeInv
<1> DEFINE id == f.id
<1>1. id \in Ident /\ f \in Frame /\ f.op \notin Joiner
  BY TopCall, SearchCallFields DEF Decide, Advance, Live, Joiner
<1>2. UNCHANGED jobVars /\ Proceed(Tail(todo))
  BY DEF Decide, Advance
<1>3. CallsOK'
  <2>1. \A g \in Range(Tail(todo)) : CallOK(g)'
    BY <1>2, TopCall, CallSame DEF Live, jobVars
  <2> QED BY <1>2, <2>1, PopOK DEF Live
<1>4. SeekSame
  <2>1. search[id] \in Search
    BY <1>1 DEF SearchTypes
  <2>2. CASE Decide(f)
    <3> DEFINE s == IF search[id].work = "missing"
                    THEN [search[id] EXCEPT !.work = "locate"]
                    ELSE [search[id] EXCEPT !.work = "idle", !.seeking = <<>>]
    <3>1. search' = [search EXCEPT ![id] = s]
      BY <2>2 DEF Decide
    <3>2. s.seeking \in {search[id].seeking, <<>>}
      BY <2>1, SeekingFields
    <3> HIDE DEF s, id
    <3> QED BY <1>1, <3>1, <3>2, SeekSet
  <2>3. CASE Advance(f)
    <3> DEFINE s == [search[id] EXCEPT
                       !.forward = search[id].forward \/ Turns(id),
                       !.next = IF Turns(id) THEN search[id].first + 1
                                ELSE IF search[id].forward THEN search[id].next + 1
                                ELSE search[id].next - 1,
                       !.work = "idle",
                       !.seeking = <<>>]
    <3>1. search' = [search EXCEPT ![id] = s]
      BY <2>3 DEF Advance
    <3>2. s.seeking = <<>>
      BY <2>1 DEF Search
    <3> HIDE DEF s, id
    <3> QED BY <1>1, <3>1, <3>2, SeekSet
  <2> QED BY <2>2, <2>3
<1> QED BY <1>2, <1>3, <1>4, RestStep DEF Live, jobVars

LEMMA ContinueLife ==
  ASSUME TypeInv, CausesReal, OneConsoleWriter, Live, Continue
  PROVE  LifeStep
<1>1. todo # <<>> /\ UNCHANGED <<serverVars, opts>>
  BY DEF Continue, queueVars
<1>2. PICK f : f = Head(todo)
  OBVIOUS
<1>3. \/ Resolve(f) \/ SetStreaming(f) \/ SetFinishing(f)
      \/ JoinOthersToMe(f) \/ SetJoined(f) \/ Cut(f)
      \/ EndInitialize(f) \/ Decide(f) \/ Advance(f)
  BY <1>2 DEF Continue
<1> QED BY <1>1, <1>2, <1>3, ResolveLife, SetStreamingLife, SetFinishingLife, JoinOthersLife,
           SetJoinedLife, CutLife, EndInitializeLife, SearchCallLife

-----------------------------------------------------------------------------
(* The callbacks.                                                           *)

LEMMA RangeTracked ==
  ASSUME JobTypes
  PROVE  Tracked \subseteq Job
  BY RangeOfSeq DEF JobTypes, Tracked

(* A callback that moves no job and leaves no calls. *)
LEMMA QuietStep ==
  ASSUME TypeInv, OneConsoleWriter, Live, todo' = <<>>, SeekSame, NEW j \in Job, NEW w,
         work' = [work EXCEPT ![j] = w],
         \/ w \in {"idle", "busy", "timer", "init", "then"}
         \/ w = "stream" /\ state[j] = "Streaming"
         \/ w = "finish" /\ state[j] = "Finishing",
         UNCHANGED <<allJobs, state, number, console, opts>>
  PROVE  LifeStep
<1>1. CallsOK'
  BY CallsEnd
<1> QED BY <1>1, RestStep DEF Live, TypeInv, JobTypes

LEMMA StopWorkLife ==
  ASSUME TypeInv, OneConsoleWriter, Live, todo = <<>>, UNCHANGED <<opts, search>>,
         NEW j \in Job, j \in Tracked, NEW s \in {"Finishing", "Queued", "Done"},
         Valid(state[j], s), s = "Queued" => ~opts.console, j = Root \/ Below(j, Ran),
         StopWork(j, s)
  PROVE  LifeStep
<1> USE DEF TypeInv
<1>1. /\ state' = [state EXCEPT ![j] = s] /\ todo' = <<>>
      /\ work' = [work EXCEPT ![j] = "idle"] /\ UNCHANGED <<allJobs, number>>
      /\ console' = console \/ console' = Flushed(state')
  BY DEF StopWork, ChangeState, Proceed
<1>2. s \in JobState /\ Move(j, s)
  BY <1>1 DEF Move, JobState
<1>3. Moves
  BY <1>2 DEF Moves
<1>4. OneConsoleWriter' /\ \A k \in Job : console'[k] => console[k] \/ k \in Tracked
  BY <1>1, <1>3, ConsoleKept, ConsoleFlushed
<1>5. work'[j] = "idle" /\ \A k \in Job : k # j => work'[k] = work[k]
  BY <1>1 DEF JobTypes
<1>6. JobsOK'
  BY <1>1, <1>2, <1>4, <1>5, JobsMove DEF Live
<1>7. CallsOK'
  BY <1>1, CallsEnd
<1>8. Mode' /\ Seeking'
  BY <1>1, SameSeeking, SeekKept DEF Live, Mode, Tracked
<1> QED BY <1>3, <1>4, <1>6, <1>7, <1>8 DEF LifeStep, Lawful

(* A job that has been started is tracked, and so has its parent been.      *)
LEMMA RunnerFacts ==
  ASSUME Live, NEW j \in Job, state[j] \in Ran
  PROVE  j \in Tracked /\ (j = Root \/ Below(j, Ran))
  BY DEF Live, JobsOK, JobOK, Ran, Running

LEMMA JobTimerLife ==
  ASSUME TypeInv, OneConsoleWriter, Live, NEW j \in Job, JobTimer(j)
  PROVE  LifeStep
<1>1. UNCHANGED <<opts, search>> /\ todo = <<>> /\ SeekSame
  BY SameSeeking DEF JobTimer, queueVars, Quiet, Idle
<1>2. ASSUME NEW w, work' = [work EXCEPT ![j] = w],
             \/ w \in {"idle", "busy", "timer", "init", "then"}
             \/ w = "stream" /\ state[j] = "Streaming"
             \/ w = "finish" /\ state[j] = "Finishing",
             UNCHANGED <<allJobs, state, number, console, todo>>
      PROVE  LifeStep
  BY <1>1, <1>2, QuietStep
<1>3. ASSUME state[j] = "Finishing", ~opts.console, StopWork(j, "Queued") PROVE LifeStep
  <2>1. j \in Tracked /\ (j = Root \/ Below(j, Ran))
    BY <1>3, RunnerFacts DEF Ran, Running
  <2> QED BY <1>1, <1>3, <2>1, StopWorkLife, ValidMoves
<1>4. state[j] # "Downloading"
  BY DEF Live, JobsOK, JobOK
<1> QED BY <1>2, <1>3, <1>4 DEF JobTimer, StayIdle

LEMMA StreamResponseLife ==
  ASSUME TypeInv, OneConsoleWriter, Live, NEW j \in Job, StreamResponse(j)
  PROVE  LifeStep
<1>1. UNCHANGED search /\ todo = <<>> /\ SeekSame
  BY SameSeeking DEF StreamResponse, Quiet, Idle
<1>2. state[j] = "Streaming"
  BY DEF StreamResponse, Live, JobsOK, JobOK
<1>3. j \in Tracked /\ (j = Root \/ Below(j, Ran))
  BY <1>2, RunnerFacts DEF Ran, Running
<1>4. ASSUME NEW w \in {"idle", "busy"}, work' = [work EXCEPT ![j] = w], todo' = <<>>,
             UNCHANGED <<allJobs, state, number, console, opts>>
      PROVE  LifeStep
  BY <1>1, <1>4, QuietStep
<1>5. CASE StopWork(j, "Finishing") /\ UNCHANGED opts
  BY <1>1, <1>2, <1>3, <1>5, StopWorkLife, ValidMoves
<1>6. CASE /\ <<"stream", "denied">> \in FaultKinds /\ Report("Failed")
           /\ opts' = [console |-> FALSE, pipeline |-> FALSE, shouldFail |-> TRUE]
           /\ state' = [state EXCEPT ![j] = "Finishing"]
           /\ work' = [work EXCEPT ![j] = "idle"]
           /\ UNCHANGED <<allJobs, number, console, todo>>
  <2>1. Denial
    BY <1>6 DEF Report, Denial
  <2>2. Move(j, "Finishing") /\ "Finishing" \in JobState
    BY <1>2, <1>3, <1>6, ValidMoves DEF Move, JobState
  <2>3. Moves
    BY <2>2 DEF Moves
  <2>4. OneConsoleWriter'
    BY <1>6, <2>3, ConsoleKept DEF TypeInv
  <2>5. work'[j] = "idle" /\ (\A k \in Job : k # j => work'[k] = work[k]) /\ ~opts'.console
    BY <1>6 DEF TypeInv, JobTypes
  <2>6. JobsOK'
    BY <1>3, <1>6, <2>2, <2>5, JobsMove DEF TypeInv, Live
  <2>7. CallsOK'
    BY <1>1, <1>6, CallsEnd
  <2>8. Seeking'
    BY <1>1, <1>6, SeekKept DEF Live
  <2> QED BY <2>1, <2>3, <2>4, <2>6, <2>7, <2>8 DEF LifeStep, Lawful
<1> QED BY <1>1, <1>4, <1>5, <1>6 DEF StreamResponse, StayIdle, Wait, Raise, Fault

LEMMA FinishResponseLife ==
  ASSUME TypeInv, OneConsoleWriter, Live, ~Plugin, NEW j \in Job, FinishResponse(j)
  PROVE  LifeStep
<1>1. UNCHANGED <<search, opts>> /\ todo = <<>> /\ SeekSame
  BY SameSeeking DEF FinishResponse, Quiet, Idle, queueVars
<1>2. state[j] = "Finishing"
  BY DEF FinishResponse, Live, JobsOK, JobOK
<1>3. j \in Tracked /\ (j = Root \/ Below(j, Ran))
  BY <1>2, RunnerFacts DEF Ran, Running
<1>4. ASSUME NEW w \in {"idle", "busy"}, work' = [work EXCEPT ![j] = w], todo' = <<>>,
             UNCHANGED <<allJobs, state, number, console>>
      PROVE  LifeStep
  BY <1>1, <1>4, QuietStep
<1>5. CASE StopWork(j, "Done")
  BY <1>1, <1>2, <1>3, <1>5, StopWorkLife, ValidMoves
<1> QED BY <1>1, <1>4, <1>5 DEF FinishResponse, StayIdle, Wait, Raise

LEMMA InitializedSeeking ==
  ASSUME NEW s \in Search, NEW id
  PROVE  Initialized(s, id).seeking = s.seeking
  BY DEF Initialized, Search

LEMMA InitResponseLife ==
  ASSUME TypeInv, OneConsoleWriter, Live, NEW j \in Job, InitResponse(j)
  PROVE  LifeStep
<1> USE DEF TypeInv
<1>1. UNCHANGED <<allJobs, state, number, console, opts, todo>> /\ todo = <<>>
  BY DEF InitResponse, Quiet, Idle, queueVars
<1>2. \E w \in {"then", "busy"} : work' = [work EXCEPT ![j] = w]
  BY DEF InitResponse
<1>3. SeekSame
  <2> DEFINE id == IdentOf[j]
  <2>1. id \in Ident
    BY TreeAssumption
  <2>2. CASE UNCHANGED search
    BY <2>2, SameSeeking
  <2>3. CASE search' = [search EXCEPT ![id] = Initialized(@, id)]
    <3> DEFINE s == Initialized(search[id], id)
    <3>1. s.seeking = search[id].seeking
      BY <2>1, InitializedSeeking DEF SearchTypes
    <3>2. search' = [search EXCEPT ![id] = s]
      BY <2>3
    <3> HIDE DEF s, id
    <3> QED BY <2>1, <3>1, <3>2, SeekSet
  <2> QED BY <2>2, <2>3 DEF InitResponse
<1> QED BY <1>1, <1>2, <1>3, QuietStep

(* The children of a job are added, and their searches.                     *)
LEMMA InitThenLife ==
  ASSUME TypeInv, OneConsoleWriter, Live, NEW j \in Job, InitThen(j)
  PROVE  LifeStep
<1> USE DEF TypeInv
<1>1. UNCHANGED <<opts, state, number, console>> /\ todo = <<>>
  BY DEF InitThen, Idle, queueVars, StayIdle
<1>2. CASE StayIdle(j) /\ UNCHANGED search
  BY <1>1, <1>2, SameSeeking, QuietStep DEF StayIdle
<1> DEFINE kids == IF opts.pipeline THEN Kids[j] ELSE <<>>
           new == {IdentOf[k] : k \in Range(kids)} \ {IdentOf[k] : k \in Tracked}
           started == Range(kids)
<1>3. CASE /\ allJobs' = allJobs \o kids
           /\ work' = [k \in Job |->
                         IF k = j THEN "busy"
                         ELSE IF k \in started
                         THEN IF search[IdentOf[k]].ready THEN "then" ELSE "init"
                         ELSE work[k]]
           /\ search' = [id \in Ident |->
                           IF id \in new THEN [search[id] EXCEPT !.ctor = TRUE]
                           ELSE search[id]]
           /\ todo' = <<Call("Resolve", j), Call("InitEnd", j)>>
  <2>1. kids \in Seq(Job)
    BY TreeAssumption, EmptySeq
  <2>2. Tracked' = Tracked \cup Range(kids)
    <3> HIDE DEF kids
    <3> QED BY <1>3, <2>1, RangeConcatenation DEF Tracked, JobTypes
  <2>3. j \in Tracked
    <3> DEFINE ready == {k \in Job : work[k] = "then"}
               s == Among(allJobs, ready)
    <3>1. s \in Seq(Job) /\ Range(s) = Tracked \cap ready
      BY AmongRange DEF JobTypes, Tracked
    <3>2. j = FirstOr(s, NoJob)
      BY DEF InitThen
    <3> HIDE DEF s
    <3>3. FirstOr(s, NoJob) # NoJob
      BY <3>2, TreeAssumption
    <3> QED BY <3>1, <3>2, <3>3, FirstOrFacts
  <2> HIDE DEF new
  <2>4. Seeking'
    <3>1. ASSUME NEW id \in Ident PROVE search'[id].seeking = search[id].seeking
      BY <1>3, SeekingFields DEF SearchTypes
    <3> HIDE DEF kids
    <3> QED BY <2>2, <3>1 DEF Live, Seeking
  <2>5. Mode'
    <3>1. CASE opts.console
      BY <1>1, <3>1 DEF Mode
    <3>2. CASE ~opts.console
      <4>1. ~opts.pipeline /\ Tracked = {Root}
        BY <3>2 DEF Live, Mode
      <4>2. Range(kids) = {}
        BY <4>1 DEF Range
      <4> HIDE DEF kids
      <4> QED BY <1>1, <2>2, <4>1, <4>2 DEF Mode
    <3> QED BY <3>1, <3>2
  <2>6. CallsOK'
    <3> DEFINE a == Call("Resolve", j)
               b == Call("InitEnd", j)
    <3>1. a.op = "Resolve" /\ a.job = j /\ b.op = "InitEnd" /\ b.job = j
      BY DEF Call
    <3> HIDE DEF a, b
    <3>2. todo' = <<a, b>>
      BY <1>3 DEF a, b
    <3>3. DOMAIN <<a, b>> = {1, 2} /\ <<a, b>>[1] = a /\ <<a, b>>[2] = b
      OBVIOUS
    <3>4. Range(<<a, b>>) = {a, b}
      BY <3>3 DEF Range
    <3>5. Stacked(<<a, b>>)
      BY <3>1, <3>3 DEF Stacked, Late, Joiner
    <3> HIDE DEF kids
    <3>6. j \in Tracked'
      BY <2>2, <2>3
    <3>7. \A f \in {a, b} : f.job = j /\ f.op \in {"Resolve", "InitEnd"}
      BY <3>1
    <3>8. \A f \in {a, b} : CallOK(f)'
      BY <3>6, <3>7 DEF CallOK
    <3> QED BY <3>2, <3>4, <3>5, <3>8 DEF CallsOK
  <2> HIDE DEF kids
  <2>7. JobsOK'
    <3>1. ASSUME NEW k \in Job PROVE JobOK(k)'
      <4>1. JobOK(k)
        BY DEF Live, JobsOK
      <4>2. work'[k] \in {work[k], "busy", "then", "init"}
        BY <1>3
      <4> QED BY <1>1, <2>2, <4>1, <4>2 DEF JobOK, Below
    <3> QED BY <3>1 DEF JobsOK
  <2>8. OneConsoleWriter'
    <3>1. SUFFICES ASSUME NEW k \in Tracked', NEW l \in Tracked', state[k] \in Active, console[k],
                          state[l] \in Active, console[l]
                   PROVE  k = l
      BY <1>1 DEF OneConsoleWriter, IsActive
    <3>2. \A i \in Tracked' : i \in Job /\ (console[i] => i \in Tracked)
      <4>1. Range(kids) \subseteq Job /\ Tracked \subseteq Job
        BY <2>1, RangeOfSeq, RangeTracked
      <4> QED BY <2>2, <4>1 DEF Live, JobsOK, JobOK
    <3>3. k \in Tracked /\ l \in Tracked
      BY <3>1, <3>2
    <3> QED BY <3>1, <3>3 DEF OneConsoleWriter, IsActive
  <2>9. Moves
    BY <1>1 DEF Moves
  <2> QED BY <2>4, <2>5, <2>6, <2>7, <2>8, <2>9 DEF LifeStep, Lawful
<1> HIDE DEF new, started
<1> QED
  <2>1. (allJobs' = allJobs \o kids) \/ (StayIdle(j) /\ UNCHANGED search)
    BY DEF InitThen
  <2>2. \/ StayIdle(j) /\ UNCHANGED search
        \/ /\ allJobs' = allJobs \o kids
           /\ work' = [k \in Job |->
                         IF k = j THEN "busy"
                         ELSE IF k \in started
                         THEN IF search[IdentOf[k]].ready THEN "then" ELSE "init"
                         ELSE work[k]]
           /\ search' = [id \in Ident |->
                           IF id \in new THEN [search[id] EXCEPT !.ctor = TRUE]
                           ELSE search[id]]
           /\ todo' = <<Call("Resolve", j), Call("InitEnd", j)>>
    BY DEF InitThen, new, started
  <2> QED BY <1>2, <1>3, <2>2

LEMMA DownloadResponseLife ==
  ASSUME Live, NEW j \in Job, DownloadResponse(j)
  PROVE  LifeStep
  BY DEF DownloadResponse, Live, JobsOK, JobOK

(* A callback of a search. *)
LEMMA SearchRest ==
  ASSUME TypeInv, OneConsoleWriter, Live, CallsOK', SeekSame, UNCHANGED <<jobVars, opts>>
  PROVE  LifeStep
<1>1. UNCHANGED <<allJobs, state, number, console, work>>
  BY DEF jobVars
<1> QED BY <1>1, RestStep DEF Live, TypeInv

LEMMA CtorResponseLife ==
  ASSUME TypeInv, OneConsoleWriter, Live, NEW id \in Ident, CtorResponse(id)
  PROVE  LifeStep
<1> USE DEF TypeInv
<1>1. UNCHANGED <<jobVars, opts>> /\ todo' = <<>>
  BY DEF CtorResponse, Quiet, Idle, queueVars
<1>2. search[id] \in Search
  BY DEF SearchTypes
<1>3. SeekSame
  <2>1. CASE search' = [search EXCEPT ![id] = Initialized(@, id)]
    <3> DEFINE s == Initialized(search[id], id)
    <3>1. s.seeking = search[id].seeking
      BY <1>2, InitializedSeeking
    <3>2. search' = [search EXCEPT ![id] = s]
      BY <2>1
    <3> HIDE DEF s
    <3> QED BY <3>1, <3>2, SeekSet
  <2>2. CASE search' = [search EXCEPT ![id].ctor = FALSE]
    <3> DEFINE s == [search[id] EXCEPT !.ctor = FALSE]
    <3>1. s.seeking = search[id].seeking
      BY <1>2, SeekingFields
    <3>2. search' = [search EXCEPT ![id] = s]
      BY <2>2
    <3> HIDE DEF s
    <3> QED BY <3>1, <3>2, SeekSet
  <2> QED BY <2>1, <2>2 DEF CtorResponse
<1>4. CallsOK'
  BY <1>1, CallsEnd
<1> QED BY <1>1, <1>3, <1>4, SearchRest

(* locateExecution looks for every job the search is for, then goes on.     *)
LEMMA SearchTimerLife ==
  ASSUME TypeInv, OneConsoleWriter, Live, NEW id \in Ident, SearchTimer(id)
  PROVE  LifeStep
<1> USE DEF TypeInv
<1> DEFINE s == search[id].seeking
           sought == [i \in DOMAIN s |-> Call("Sought", s[i])]
           d == SearchDo("Decide", id)
<1>1. UNCHANGED <<jobVars, opts>> /\ search' = [search EXCEPT ![id].work = "busy"]
  BY DEF SearchTimer, queueVars
<1>2. SeekSame
  BY <1>1, SeekSetWork
<1>3. todo' = sought \o <<d>>
  BY DEF SearchTimer
<1>4. s \in Seq(Job) /\ Range(s) \subseteq Tracked
  BY DEF SearchTypes, Search, Live, Seeking
<1>5. ASSUME NEW i \in DOMAIN sought
      PROVE  sought[i].op = "Sought" /\ sought[i].job \in Range(s)
  <2>1. i \in DOMAIN s /\ sought[i] = Call("Sought", s[i])
    OBVIOUS
  <2> HIDE DEF sought, s
  <2>2. s[i] \in Range(s)
    BY <2>1, RangeIsDomain
  <2> QED BY <2>1, <2>2 DEF Call
<1> HIDE DEF s
<1>6. sought \in Seq(Frame)
  BY <1>4, CallsType DEF JobOps
<1>7. d \in Frame /\ d.op = "Decide"
  BY SearchDoType DEF SearchDo
<1> HIDE DEF sought, d
<1>8. <<d>> \in Seq(Frame) /\ Range(<<d>>) = {d}
  BY <1>7, EmptySeq DEF Range
<1>9. Range(todo') = Range(sought) \cup {d} /\ todo' \in Seq(Frame)
  <2>1. Range(sought \o <<d>>) = Range(sought) \cup Range(<<d>>)
    BY <1>6, <1>8, RangeConcatenation
  <2>2. sought \o <<d>> \in Seq(Frame)
    BY <1>6, <1>8, ConcatProperties
  <2>3. /\ Range(todo') = Range(sought \o <<d>>)
        /\ todo' \in Seq(Frame)
    BY <1>3, <2>2
  <2> QED BY <1>8, <2>1, <2>3
<1>10. \A f \in Range(todo') : f.op \in Late /\ (f.op \in JobOps => f.job \in Tracked)
  <2>1. \A f \in Range(sought) : f.op \in Late /\ f.job \in Tracked
    <3> TAKE f \in Range(sought)
    <3>1. PICK i \in DOMAIN sought : sought[i] = f
      BY RangeIsDomain
    <3> QED BY <1>4, <1>5, <3>1 DEF Late
  <2>2. d.op \in Late /\ d.op \notin JobOps
    BY <1>7 DEF Late, JobOps
  <2> QED BY <1>9, <2>1, <2>2
<1>11. Tracked' = Tracked
  BY <1>1 DEF jobVars, Tracked
<1>12. \A f \in Range(todo') : CallOK(f)'
  BY <1>10, <1>11 DEF CallOK, Late
<1>13. \A i \in DOMAIN todo' : todo'[i].op \in Late
  BY <1>10, RangeIsDomain
<1>14. Stacked(todo')
  <2>1. Late \cap Joiner = {}
    BY DEF Late, Joiner
  <2> QED BY <1>13, <2>1 DEF Stacked
<1>15. CallsOK'
  BY <1>12, <1>14 DEF CallsOK
<1> QED BY <1>1, <1>2, <1>15, SearchRest

(* A build that is found sets its main job streaming, whose parent has run. *)
LEMMA LocateResponseLife ==
  ASSUME TypeInv, OneConsoleWriter, Live, NEW id \in Ident, LocateResponse(id)
  PROVE  LifeStep
<1> USE DEF TypeInv
<1> DEFINE n == search[id].next
           m == MainJob(id, n)
<1>1. UNCHANGED <<jobVars, opts>> /\ todo = <<>>
  BY DEF LocateResponse, Quiet, Idle, queueVars
<1>2. search[id] \in Search
  BY DEF SearchTypes
<1>3. SeekSame
  <2>1. CASE search' = [search EXCEPT ![id] = Learned(@)]
    <3> DEFINE s == Learned(search[id])
    <3>1. s.seeking = search[id].seeking
      BY <1>2, SeekingFields DEF Learned
    <3>2. search' = [search EXCEPT ![id] = s]
      BY <2>1
    <3> HIDE DEF s
    <3> QED BY <3>1, <3>2, SeekSet
  <2>2. CASE search' = [search EXCEPT ![id].work = "idle", ![id].seeking = <<>>]
    <3>1. search' = [search EXCEPT ![id] = [@ EXCEPT !.work = "idle", !.seeking = <<>>]]
      BY <1>2, <2>2 DEF SearchTypes
    <3> DEFINE s == [search[id] EXCEPT !.work = "idle", !.seeking = <<>>]
    <3>2. s.seeking = <<>>
      BY <1>2, SeekingFields
    <3>3. search' = [search EXCEPT ![id] = s]
      BY <3>1
    <3> HIDE DEF s
    <3> QED BY <3>2, <3>3, SeekSet
  <2>3. CASE search' = [search EXCEPT ![id].work = "busy"]
    BY <2>3, SeekSetWork
  <2> QED BY <2>1, <2>2, <2>3 DEF LocateResponse
<1> DEFINE d == SearchDo("Advance", id)
           g == CallAt("Streaming", m, n)
<1>4. d \in Frame /\ d.op = "Advance" /\ d.op \notin JobOps /\ d.op \in Late
  BY SearchDoType DEF SearchDo, JobOps, Late
<1>5. CallOK(d)'
  <2> HIDE DEF d
  <2> QED BY <1>4 DEF CallOK, JobOps
<1>6. ASSUME todo' = <<d>> PROVE CallsOK'
  <2> HIDE DEF d
  <2>1. Range(<<d>>) = {d} /\ DOMAIN <<d>> = {1}
    BY DEF Range
  <2>2. Stacked(<<d>>)
    BY <1>4, <2>1 DEF Stacked
  <2> QED BY <1>5, <1>6, <2>1, <2>2 DEF CallsOK
<1>7. ASSUME Visible(id, n), m # NoJob, todo' = <<g, d>> PROVE CallsOK'
  <2>1. n \in 1..Len(builds[id])
    BY <1>7, VisibleExists
  <2>2. m \in Range(CausedKids(id, n, Ran))
    BY <1>7, <2>1, MainJobFacts
  <2>3. m \in Tracked /\ m # Root /\ Below(m, Ran)
    BY <2>1, <2>2, CausedKidFacts DEF Below
  <2>4. g.op = "Streaming" /\ g.job = m
    BY DEF CallAt
  <2>5. PICK h : h = g
    OBVIOUS
  <2> HIDE DEF d, g, m
  <2>6. CallOK(h)
    BY <2>3, <2>4, <2>5 DEF CallOK
  <2>7. CallOK(h)'
    BY <1>1, <2>6, CallSame DEF jobVars
  <2>8. Range(<<h, d>>) = {h, d} /\ DOMAIN <<h, d>> = {1, 2} /\ <<h, d>>[2] = d
    BY DEF Range
  <2>9. "Streaming" \notin Joiner /\ Late \cap Joiner = {}
    BY DEF Joiner, Late
  <2>10. Stacked(<<h, d>>)
    BY <1>4, <2>4, <2>5, <2>8, <2>9 DEF Stacked
  <2>11. todo' = <<h, d>>
    BY <1>7, <2>5
  <2> QED BY <1>5, <2>7, <2>8, <2>10, <2>11 DEF CallsOK
<1>8. CallsOK'
  <2>1. \/ todo' = <<>> \/ todo' = <<d>>
        \/ Visible(id, n) /\ m # NoJob /\ todo' = <<g, d>>
    BY <1>1 DEF LocateResponse, Raise, Proceed
  <2> QED BY <1>6, <1>7, <2>1, CallsEnd
<1> QED BY <1>1, <1>3, <1>8, SearchRest

LEMMA TickLife ==
  ASSUME TypeInv, OneConsoleWriter, Live, Tick
  PROVE  LifeStep
<1> USE DEF TypeInv
<1>1. /\ UNCHANGED <<allJobs, state, number, opts>> /\ todo' = <<>>
      /\ console' = Flushed(state') /\ search' = NextSearches
  BY DEF Tick, Quiet, Idle
<1>2. Moves
  BY <1>1 DEF Moves
<1>3. OneConsoleWriter' /\ \A k \in Job : console'[k] => console[k] \/ k \in Tracked
  BY <1>1, <1>2, ConsoleFlushed
<1>4. \A k \in Job : work'[k] \in {work[k], "timer"}
  BY DEF Tick
<1>5. JobsOK'
  BY <1>1, <1>3, <1>4, JobsRest DEF Live
<1>6. CallsOK' /\ Mode'
  BY <1>1, CallsEnd DEF Live, Mode, Tracked
<1>7. ASSUME NEW id \in Ident PROVE Range(search'[id].seeking) \subseteq Tracked
  <2> DEFINE s == Among(allJobs, {j \in Job : IdentOf[j] = id /\ MayLocate(j)})
  <2>1. Range(s) \subseteq Tracked
    BY AmongRange DEF JobTypes, Tracked
  <2>2. search[id] \in Search
    BY DEF SearchTypes
  <2>3. search'[id] = IF search[id].work = "idle" /\ s # <<>>
                      THEN [search[id] EXCEPT !.seeking = s, !.work = "timer"]
                      ELSE search[id]
    BY <1>1 DEF NextSearches
  <2> HIDE DEF s
  <2>4. search'[id].seeking \in {s, search[id].seeking}
    BY <2>2, <2>3, SeekingFields
  <2> QED BY <2>1, <2>4 DEF Live, Seeking
<1>8. Seeking'
  BY <1>1, <1>7 DEF Seeking, Tracked
<1> QED BY <1>2, <1>3, <1>5, <1>6, <1>8 DEF LifeStep, Lawful

(* The summary, the server, and steps that change nothing.                  *)
LEMMA OthersLife ==
  ASSUME TypeInv, OneConsoleWriter, Live, SummaryStep \/ Server \/ UNCHANGED vars
  PROVE  LifeStep
<1> USE DEF TypeInv
<1>1. UNCHANGED <<jobVars, search, opts, todo>>
  BY DEF SummaryStep, IsPipelineResponse, ReportResponse, Summarize, WriteFile,
         Server, ServerProgress, ServerDoes, vars, queueVars
<1>2. ASSUME NEW f, CallOK(f) PROVE CallOK(f)'
  BY <1>1, <1>2, CallSame DEF jobVars
<1>3. CallsOK'
  BY <1>1, <1>2 DEF Live, CallsOK
<1> QED BY <1>1, <1>3, SearchRest, SameSeeking

LEMMA CausesRealNext ==
  ASSUME ServerTypeOK, CausesReal, [Next]_vars
  PROVE  CausesReal'
<1>1. CASE UNCHANGED serverVars
  BY <1>1 DEF CausesReal, serverVars
<1>2. ASSUME NEW id \in Ident, StartBuild(id) PROVE CausesReal'
  <2> DEFINE b == NewBuild(queued[id], "running")
  <2>1. /\ builds' = [builds EXCEPT ![id] = Append(@, b)]
        /\ queued' = [queued EXCEPT ![id] = <<>>]
    BY <1>2 DEF StartBuild
  <2>2. builds[id] \in Seq(Build) /\ builds \in [Ident -> Seq(Build)]
        /\ queued \in [Ident -> Seq(Cause)]
    BY DEF ServerTypeOK
  <2>3. b.causes = queued[id]
    BY DEF NewBuild
  <2> HIDE DEF b
  <2>4. /\ Len(builds'[id]) = Len(builds[id]) + 1 /\ Len(builds[id]) \in Nat
        /\ \A n \in 1..Len(builds[id]) : builds'[id][n] = builds[id][n]
        /\ builds'[id][Len(builds[id]) + 1] = b
    BY <2>1, <2>2, LenProperties
  <2>5. \A n \in 1..Len(builds'[id]) : n \in 1..Len(builds[id]) \/ builds'[id][n] = b
    BY <2>4
  <2>6. \A n \in 1..Len(builds'[id]) : \A c \in Range(builds'[id][n].causes) : c[2] # 0
    BY <2>3, <2>4, <2>5 DEF CausesReal
  <2>7. Range(<<>>) = {}
    BY DEF Range
  <2>8. \A i \in Ident : i # id => builds'[i] = builds[i] /\ queued'[i] = queued[i]
    BY <2>1, <2>2
  <2>9. queued'[id] = <<>>
    BY <2>1, <2>2
  <2> QED BY <2>6, <2>7, <2>8, <2>9 DEF CausesReal
<1>3. ASSUME NEW id \in Ident, ForeignBuild(id) PROVE CausesReal'
  <2> DEFINE b == NewBuild(<<>>, EndResult)
  <2>1. builds' = [builds EXCEPT ![id] = Append(@, b)] /\ UNCHANGED queued
    BY <1>3 DEF ForeignBuild
  <2>2. builds[id] \in Seq(Build) /\ builds \in [Ident -> Seq(Build)]
    BY DEF ServerTypeOK
  <2>3. b.causes = <<>> /\ Range(<<>>) = {}
    BY DEF NewBuild, Range
  <2> HIDE DEF b
  <2>4. /\ Len(builds'[id]) = Len(builds[id]) + 1 /\ Len(builds[id]) \in Nat
        /\ \A n \in 1..Len(builds[id]) : builds'[id][n] = builds[id][n]
        /\ builds'[id][Len(builds[id]) + 1] = b
    BY <2>1, <2>2, LenProperties
  <2>5. \A n \in 1..Len(builds'[id]) : n \in 1..Len(builds[id]) \/ builds'[id][n] = b
    BY <2>4
  <2>6. \A n \in 1..Len(builds'[id]) : \A c \in Range(builds'[id][n].causes) : c[2] # 0
    BY <2>3, <2>4, <2>5 DEF CausesReal
  <2>7. \A i \in Ident : i # id => builds'[i] = builds[i]
    BY <2>1, <2>2
  <2> QED BY <2>1, <2>6, <2>7 DEF CausesReal
<1>4. ASSUME NEW id \in Ident, NEW n \in 1..Len(builds[id]), NEW r \in Results,
             FinishBuild(id, n, r)
      PROVE  CausesReal'
  <2> DEFINE b == NewBuild(builds[id][n].causes, r)
             c == <<id, n>>
  <2>1. /\ builds' = [builds EXCEPT ![id][n] = b]
        /\ \A d \in Ident : queued'[d] \in {Append(queued[d], c), queued[d]}
    BY <1>4 DEF FinishBuild
  <2>2. builds[id] \in Seq(Build) /\ builds \in [Ident -> Seq(Build)]
        /\ queued \in [Ident -> Seq(Cause)]
    BY DEF ServerTypeOK
  <2>3. b.causes = builds[id][n].causes
    BY DEF NewBuild
  <2> HIDE DEF b
  <2>4. Len(builds'[id]) = Len(builds[id])
        /\ \A i \in 1..Len(builds[id]) : builds'[id][i] = IF i = n THEN b ELSE builds[id][i]
    BY <2>1, <2>2, LenProperties
  <2>5. \A i \in Ident : i # id => builds'[i] = builds[i]
    BY <2>1, <2>2
  <2>6. \A i \in Ident : \A k \in 1..Len(builds'[i]) :
          \A x \in Range(builds'[i][k].causes) : x[2] # 0
    BY <2>3, <2>4, <2>5 DEF CausesReal
  <2>7. c[2] # 0
    BY <2>2, LenProperties
  <2> HIDE DEF c
  <2>8. ASSUME NEW d \in Ident PROVE \A x \in Range(queued'[d]) : x[2] # 0
    <3>1. queued[d] \in Seq(Cause)
      BY <2>2
    <3>2. Range(Append(queued[d], c)) = Range(queued[d]) \cup {c}
      <4>1. Append(queued[d], c) = queued[d] \o <<c>> /\ <<c>> \in Seq({c})
        BY <3>1
      <4>2. queued[d] \in Seq(Cause \cup {c}) /\ <<c>> \in Seq(Cause \cup {c})
        BY <3>1, <4>1, SeqMonotonic
      <4>3. Range(<<c>>) = {c}
        BY DEF Range
      <4>4. Range(queued[d] \o <<c>>) = Range(queued[d]) \cup Range(<<c>>)
        BY <4>2, RangeConcatenation
      <4> QED BY <4>1, <4>3, <4>4
    <3> QED BY <2>1, <2>7, <3>2 DEF CausesReal
  <2> QED BY <2>6, <2>8 DEF CausesReal
<1>5. \/ UNCHANGED serverVars
      \/ \E id \in Ident : \/ StartBuild(id) \/ ForeignBuild(id)
                           \/ \E n \in 1..Len(builds[id]), r \in Results : FinishBuild(id, n, r)
  BY DEF Next, vars, Continue, Tick, JobStep, InitResponse, InitThen, JobTimer, StreamResponse,
         FinishResponse, DownloadResponse, SearchStep, CtorResponse, SearchTimer, LocateResponse,
         SummaryStep, IsPipelineResponse, ReportResponse, Summarize, WriteFile, Server,
         ServerProgress, ServerDoes, EndBuild
<1> QED BY <1>1, <1>2, <1>3, <1>4, <1>5

-----------------------------------------------------------------------------
LEMMA LifeInit == Init => LifeInv
<1> SUFFICES ASSUME Init PROVE LifeInv
  OBVIOUS
<1>1. TypeInv
  BY InitType
<1>2. Range(<<>>) = {} /\ DOMAIN <<>> = {}
  BY DEF Range
<1>3. CausesReal
  <2>1. ASSUME NEW id \in Ident, NEW n \in 1..Len(builds[id]) PROVE builds[id][n].causes = <<>>
    <3> DEFINE b(k) == NewBuild(<<>>, IF k <= History[id] THEN EndResult ELSE "running")
               l == History[id] + (IF id = RootIdent THEN 1 ELSE 0)
    <3>1. builds[id] = [k \in 1..l |-> b(k)] /\ l \in Nat
      BY ServerAssumption DEF Init, ServerInit
    <3>2. n \in 1..l
      <4> HIDE DEF b, l
      <4> QED BY <3>1
    <3>3. \A k : b(k).causes = <<>>
      BY DEF NewBuild
    <3> HIDE DEF b, l
    <3> QED BY <3>1, <3>2, <3>3
  <2>2. \A id \in Ident : queued[id] = <<>>
    BY DEF Init, ServerInit
  <2> QED BY <1>2, <2>1, <2>2 DEF CausesReal
<1>4. Tracked = {Root}
  BY DEF Tracked, Range, Init, TrackerInit
<1>5. /\ state = [j \in Job |-> "New"] /\ console = [j \in Job |-> FALSE]
      /\ number = [j \in Job |-> IF j = Root THEN RootNumber ELSE 0]
      /\ work = [j \in Job |-> IF j = Root THEN "init" ELSE "idle"]
      /\ todo = <<>>
  BY DEF Init, TrackerInit
<1>6. OneConsoleWriter
  BY <1>4 DEF OneConsoleWriter
<1>7. CallsOK
  BY <1>2, <1>5 DEF CallsOK, Stacked
<1>8. JobsOK
  <2>1. ASSUME NEW j \in Job PROVE JobOK(j)
    <3>1. /\ state[j] = "New" /\ ~console[j] /\ work[j] \in {"init", "idle"}
          /\ j # Root => number[j] = 0
      BY <1>5
    <3>2. "New" \notin Ran \cup {"Joined", "Cut"}
      BY DEF Ran, Running
    <3> QED BY <3>1, <3>2 DEF JobOK
  <2> QED BY <2>1 DEF JobsOK
<1>9. Mode
  <2>1. \A in \in Inputs : in.pipeline => in.console
    BY OptionAssumption
  <2>2. PICK in \in Inputs :
          opts = [console |-> in.console, pipeline |-> in.pipeline, shouldFail |-> FALSE]
    BY DEF Init, TrackerInit
  <2>3. opts.console = in.console /\ opts.pipeline = in.pipeline
    BY <2>2
  <2> QED BY <1>4, <2>1, <2>3 DEF Mode
<1>10. Seeking
  <2>1. \A id \in Ident : search[id].seeking = <<>>
    BY DEF Init, TrackerInit
  <2> QED BY <1>2, <2>1 DEF Seeking
<1> QED BY <1>1, <1>3, <1>6, <1>7, <1>8, <1>9, <1>10 DEF LifeInv, Lawful

(* After the exit nothing happens. *)
LEMMA ExitIsLast ==
  ASSUME exited, [Next]_vars
  PROVE  UNCHANGED vars
<1>1. ~Next
  BY DEF Next, Continue, Tick, JobStep, InitResponse, InitThen, JobTimer, StreamResponse,
         FinishResponse, DownloadResponse, SearchStep, CtorResponse, SearchTimer, LocateResponse,
         SummaryStep, IsPipelineResponse, ReportResponse, Summarize, WriteFile, Server,
         ServerProgress, ServerDoes, Quiet, Idle
<1> QED BY <1>1

LEMMA NextLife ==
  ASSUME ~Plugin, TypeInv, CausesReal, OneConsoleWriter, Live, [Next]_vars
  PROVE  LifeStep
<1>1. ASSUME NEW j \in Job, JobStep(j) PROVE LifeStep
  BY <1>1, InitResponseLife, InitThenLife, JobTimerLife, StreamResponseLife,
     FinishResponseLife, DownloadResponseLife DEF JobStep
<1>2. ASSUME NEW id \in Ident, SearchStep(id) PROVE LifeStep
  BY <1>2, CtorResponseLife, SearchTimerLife, LocateResponseLife DEF SearchStep
<1> QED BY <1>1, <1>2, ContinueLife, TickLife, OthersLife DEF Next

(* Only a denied request makes the queue go on without console capture.     *)
LEMMA LifeGoes ==
  ASSUME ~Plugin, LifeInv, [Next]_vars
  PROVE  Moves /\ (LifeInv' \/ (TypeInv' /\ CausesReal' /\ OneConsoleWriter' /\ Lawful' /\ Denial))
<1>1. TypeInv' /\ CausesReal'
  BY NextType, CausesRealNext DEF LifeInv, TypeInv
<1>2. TypeInv /\ CausesReal /\ OneConsoleWriter /\ Lawful
  BY DEF LifeInv
<1>3. CASE exited
  <2>1. UNCHANGED vars
    BY <1>3, ExitIsLast
  <2>2. UNCHANGED <<allJobs, state, number, console, work, opts, search, todo, exited>>
    BY <2>1 DEF vars, jobVars, queueVars, outVars
  <2>3. OneConsoleWriter'
    BY <1>2, <2>2 DEF OneConsoleWriter, IsActive, Tracked
  <2>4. CallsOK' /\ Seeking'
    <3>1. \A f : CallOK(f) => CallOK(f)'
      BY <2>2, CallSame
    <3> QED BY <1>2, <2>2, <3>1 DEF Lawful, CallsOK, Seeking, Tracked
  <2>5. JobsOK'
    BY <1>2, <2>2, JobsRest DEF Lawful, TypeInv
  <2> QED BY <1>1, <1>3, <2>2, <2>3, <2>4, <2>5 DEF LifeInv, Lawful, Moves
<1>4. CASE ~exited
  <2>1. Live
    BY <1>2, <1>4 DEF LifeInv, Lawful, Live
  <2>2. LifeStep
    BY <1>2, <2>1, NextLife
  <2> QED BY <1>1, <2>2 DEF LifeInv, LifeStep
<1> QED BY <1>3, <1>4

LEMMA LifeNext ==
  ASSUME Plain, LifeInv, [Next]_vars
  PROVE  LifeInv' /\ Moves
  BY LifeGoes DEF Plain, Denial, LifeInv

(* Two running jobs never write to the console at the same time: whichever  *)
(* of the tick and of the jobs that end gives the console away, and however *)
(* the callbacks between them interleave, the job that gets it is the only  *)
(* one that is active with it.  Plain says what the code relies on.         *)
THEOREM OneConsole == ASSUME Plain PROVE Spec => []OneConsoleWriter
<1>1. LifeInv /\ [Next]_vars => LifeInv'
  BY LifeNext
<1>2. Spec => []LifeInv
  BY <1>1, LifeInit, PTL DEF Spec
<1>3. LifeInv => OneConsoleWriter
  BY DEF LifeInv
<1> QED BY <1>2, <1>3, PTL

(* The tracker implements the life cycle its header promises: every step of *)
(* a job is a listed transition, and only the children of jobs that were    *)
(* joined or cut are cut, whatever the pipeline and the order of answers.   *)
(* Plain excludes the configurations in which the code departs from it.     *)
THEOREM LifecycleImplemented == ASSUME Plain PROVE Spec => LifecycleSpec
<1>1. Init => Lifecycle!Init
  BY DEF Init, TrackerInit, Lifecycle!Init
<1>2. LifeInv /\ [Next]_vars => LifeInv' /\ [Lifecycle!Next]_state
  BY LifeNext, MovesImplement DEF LifeInv, TypeInv
<1>3. Spec => Lifecycle!Init /\ [][Lifecycle!Next]_state
  BY <1>1, <1>2, LifeInit, PTL DEF Spec
<1> QED BY <1>3 DEF LifecycleSpec, Lifecycle!Spec
=============================================================================
