--------------------------- MODULE JenkinsQueueJob ---------------------------
(***************************************************************************)
(* The tracker of the JenkinsQueueJobV2 task: JobQueue (jobqueue.ts), Job  *)
(* (job.ts) and JobSearch (jobsearch.ts), from the moment the root job has *)
(* been created to the task's verdict.                                     *)
(*                                                                         *)
(* The program is one JavaScript event loop.  An action is the start of a  *)
(* callback: the 100 ms tick, a timer, the answer to a request, a promise  *)
(* continuation.  A callback that changes several jobs goes on in steps of *)
(* its own, one per call of the code: todo is the rest of the callback     *)
(* that runs, its head the next call, and no other callback starts before  *)
(* it is empty.  An exception empties it.                                  *)
(*                                                                         *)
(* A job or a search is "working" in the code from the moment a timer or a *)
(* request is started for it to stopWork(); here work says what is         *)
(* outstanding, and "busy" that the callback runs, or ended without a      *)
(* stopWork(): a job that stays "busy" is never worked on again.           *)
(***************************************************************************)
EXTENDS JenkinsServer, Subsequences, SequencesExt

CONSTANTS
  Job,             \* the nodes the pipeline can have, unfolded to a tree
  Root,            \* the submitted job
  NoJob,
  IdentOf,         \* [Job -> Ident]
  Kids,            \* [Job -> Seq(Job)], children in the order of downstreamProjects
  Inputs,          \* the task's inputs captureConsole and capturePipeline
  Plugin,          \* teamBuildPluginAvailable, set by submitJob
  ExitOnFailed,    \* tl.setResult(Failed) ends the process
  FaultKinds,      \* which request can fail how, besides what Jenkins answers
  MaxFaults        \* bound on failing requests

JobState == {"New", "Locating", "Streaming", "Finishing", "Done",
             "Joined", "Queued", "Cut", "Downloading"}

(* A request to Jenkins is named for what it serves: the initialisation of a *)
(* job's search or the one its constructor sends, a console, a result, the   *)
(* plug-in's results, a build to look at, the two of the summary.  It fails  *)
(* by ECONNRESET, by another error, or by the answer 404, 401 or another     *)
(* that is not 200.                                                          *)
Request == {"init", "ctor", "stream", "finish", "download", "locate", "probe", "report"}
Failure == {"reset", "error", "missing", "denied", "status"}

ASSUME TreeAssumption ==
  /\ Root \in Job /\ NoJob \notin Job
  /\ IdentOf \in [Job -> Ident] /\ IdentOf[Root] = RootIdent
  /\ Kids \in [Job -> Seq(Job)]
  /\ \A j \in Job : Len(Kids[j]) = Len(Downstream[IdentOf[j]])
  /\ \A j \in Job : \A i \in DOMAIN Kids[j] :
       /\ Kids[j][i] # Root
       /\ IdentOf[Kids[j][i]] = Downstream[IdentOf[j]][i]
  /\ \A j \in Job \ {Root} : \E p \in Job : j \in Range(Kids[p])
  /\ \A p, q \in Job : p # q => Range(Kids[p]) \cap Range(Kids[q]) = {}

ASSUME OptionAssumption ==
  /\ Inputs \subseteq [console : BOOLEAN, pipeline : BOOLEAN]
  /\ \A in \in Inputs : in.pipeline => in.console
  /\ Plugin \in BOOLEAN /\ ExitOnFailed \in BOOLEAN
  /\ FaultKinds \subseteq Request \X Failure
  /\ MaxFaults \in Nat

VARIABLES
  allJobs,     \* the jobs created, in order
  state,       \* state[j]; "New" for a job not yet created
  number,      \* ExecutableNumber, 0 for the -1 of the code
  joined,      \* the main job a job was joined to
  console,     \* jobConsoleEnabled
  result,      \* ParsedExecutionResult.result, "none" if undefined
  work,        \* what is outstanding for the job
  search,      \* search[id], the JobSearch of the project
  opts,        \* captureConsole, capturePipeline, shouldFail
  interval,    \* the 100 ms interval is set
  complete,    \* the argument of stop()
  summary,     \* progress of writeFinalMarkdown
  verdicts,    \* the results reported through tl.setResult
  exited,      \* the process has exited
  todo,        \* the calls left of the running callback
  faults       \* number of failed requests so far

jobVars   == <<allJobs, state, number, joined, console, result, work>>
queueVars == <<opts, interval, complete, summary>>
outVars   == <<verdicts, exited>>
vars == <<serverVars, jobVars, search, queueVars, outVars, todo, faults>>

Work == {"idle", "timer", "init", "then", "stream", "finish", "download", "busy"}
Search == [ready : BOOLEAN,          \* Initialized
           ctor : BOOLEAN,           \* the constructor's request is outstanding
                                     \* and can still initialise the search
           first : Nat,              \* initialSearchBuildNumber
           next : Nat,               \* nextSearchBuildNumber
           forward : BOOLEAN,        \* searchDirection > 0
           found : SUBSET Nat,       \* the numbers foundCauses has
           seeking : Seq(Job),       \* searchingFor
           work : {"idle", "timer", "busy", "missing", "locate"}]
JobCall == [op : {"Resolve", "Sought", "InitEnd", "Streaming", "Finishing",
                  "JoinOthers", "Join", "JoinUnlessCut", "Cut"},
            job : Job, main : Job, num : Nat]
SearchCall == [op : {"Decide", "Advance"}, id : Ident]

Call(op, j) == [op |-> op, job |-> j, main |-> j, num |-> 0]
CallWith(op, j, m) == [op |-> op, job |-> j, main |-> m, num |-> 0]
CallAt(op, j, n) == [op |-> op, job |-> j, main |-> j, num |-> n]
SearchDo(op, id) == [op |-> op, id |-> id]

TypeOK ==
  /\ ServerTypeOK
  /\ allJobs \in Seq(Job)
  /\ state \in [Job -> JobState]
  /\ number \in [Job -> Nat]
  /\ joined \in [Job -> Job \cup {NoJob}]
  /\ console \in [Job -> BOOLEAN]
  /\ result \in [Job -> Results \cup {"none"}]
  /\ work \in [Job -> Work]
  /\ search \in [Ident -> Search]
  /\ opts \in [console : BOOLEAN, pipeline : BOOLEAN, shouldFail : BOOLEAN]
  /\ interval \in BOOLEAN
  /\ complete \in BOOLEAN
  /\ summary \in {"none", "probe", "report", "write", "done", "lost", "refused"}
  /\ verdicts \in SUBSET {"Succeeded", "Failed"}
  /\ exited \in BOOLEAN
  /\ todo \in Seq(JobCall \cup SearchCall)
  /\ faults \in 0..MaxFaults
-----------------------------------------------------------------------------
(* The tree of jobs and the queries of JobQueue. *)

Tracked == Range(allJobs)
ParentOf(j) == IF j = Root THEN NoJob ELSE CHOOSE p \in Job : j \in Range(Kids[p])
Children(j) == Among(Kids[j], Tracked)

\* Mutants: IsActive forgets the jobs still to be located, or keeps queued ones.
ActiveMinusLocating == {"New", "Streaming", "Downloading", "Finishing"}
ActiveWithQueued == {"New", "Locating", "Streaming", "Downloading", "Finishing", "Queued"}
Active == {"New", "Locating", "Streaming", "Downloading", "Finishing"}
Running == {"Streaming", "Downloading", "Finishing"}
Ran == Running \cup {"Queued", "Done"}
Good == {"SUCCESS", "UNSTABLE"}

IsActive(j) == state[j] \in Active
HasFailed(j) == state[j] = "Done" /\ result[j] \notin Good

(* FindJob: the first job created that tracks this build. *)
FindJob(id, n) ==
  FirstOr(Among(allJobs, {j \in Job : IdentOf[j] = id /\ number[j] = n}), NoJob)

\* Mutant: FlushJobConsolesSafely without its FindActiveConsoleJob() test.
FlushedAlways(st) ==
  LET runners == {j \in Tracked : st[j] \in {"Streaming", "Finishing"}}
  IN  [j \in Job |-> console[j] \/ (j \in Tracked /\ (st[j] = "Done" \/ j \in runners))]

(* FlushJobConsolesSafely, for the given states: while no active job writes *)
(* to the console, print what is done, then let the only runner write.      *)
Flushed(st) ==
  LET writers == {j \in Tracked : st[j] \in Active /\ console[j]}
      runners == {j \in Tracked : st[j] \in {"Streaming", "Finishing"}}
  IN  [j \in Job |->
         \/ console[j]
         \/ /\ writers = {} /\ opts.console /\ j \in Tracked
            /\ st[j] = "Done" \/ runners = {j}]
-----------------------------------------------------------------------------
(* tl.setResult, and exceptions. *)

Report(v) ==
  /\ verdicts' = verdicts \cup {v}
  /\ exited' = (exited \/ (v = "Failed" /\ ExitOnFailed))

(* The exception leaves the callback.  In a promise continuation Q turns it *)
(* into a rejection, and the throw of the last handler goes nowhere; from   *)
(* any other callback it reaches the task library, which fails the task.    *)
Raise ==
  /\ todo' = <<>>
  /\ IF todo # <<>> /\ Last(todo).op = "InitEnd"
     THEN UNCHANGED outVars
     ELSE Report("Failed")

Proceed(calls) == todo' = calls /\ UNCHANGED outVars

Valid(s, t) ==
  CASE s = "New"         -> t \in {"Locating", "Streaming", "Joined", "Cut"}
    [] s = "Locating"    -> t \in {"Streaming", "Joined", "Cut"}
    [] s = "Streaming"   -> t = "Finishing"
    [] s = "Finishing"   -> t \in {"Downloading", "Queued", "Done"}
    [] s = "Downloading" -> t = "Done"
    [] OTHER             -> FALSE

(* changeState: the new state is set, then the transition is checked. *)
ChangeState(j, s, calls) ==
  /\ state' = [state EXCEPT ![j] = s]
  /\ IF s = state[j] \/ Valid(state[j], s) THEN Proceed(calls) ELSE Raise

(* stopWork of a job, the last call of its callbacks. *)
StopWork(j, s) ==
  /\ ChangeState(j, s, <<>>)
  /\ IF s # state[j] /\ ~Valid(state[j], s)
     THEN work' = [work EXCEPT ![j] = "busy"] /\ UNCHANGED console
     ELSE /\ work' = [work EXCEPT ![j] = "idle"]
          /\ console' = IF s # state[j] /\ s \notin Active THEN Flushed(state') ELSE console
  /\ UNCHANGED <<allJobs, number, joined>>

StayIdle(j) ==
  /\ work' = [work EXCEPT ![j] = "idle"]
  /\ UNCHANGED <<allJobs, state, number, joined, console, result, todo, outVars>>

Wait(j) ==
  /\ work' = [work EXCEPT ![j] = "busy"]
  /\ UNCHANGED <<allJobs, state, number, joined, console, result>>
-----------------------------------------------------------------------------
(* DetermineMainJob, for build n of project id: found are the numbers whose *)
(* causes are known.                                                        *)

ChildOf(p, id) == FirstOr(Among(Children(p), {k \in Job : IdentOf[k] = id}), NoJob)

(* The children of project id of the known causes of the build whose state  *)
(* is in States.                                                            *)
CausedKids(id, n, States) ==
  LET causes == builds[id][n].causes
      kid(c) == LET h == FindJob(c[1], c[2])
                IN  IF h # NoJob /\ state[h] \in States THEN ChildOf(h, id) ELSE NoJob
  IN  Among([i \in DOMAIN causes |-> kid(causes[i])], Job)

\* Mutants: a master that is done is not seen, or any child is a master.
IsMasterUntilDone(j) == state[j] \in {"Streaming", "Finishing"}
IsMasterAlways(j) == state[j] # "Joined"
IsMaster(j) == state[j] \in {"Streaming", "Finishing", "Done"}

Masters(id, n) == Among(CausedKids(id, n, Ran), {j \in Job : IsMaster(j)})
Potential(id, n) == Among(CausedKids(id, n, Ran), {j \in Job : ~IsMaster(j)})

Ambiguous(id, n) == Len(Masters(id, n)) > 1

(* The assertions of DetermineMainJob: it fails for a build without causes, *)
(* and for one with two masters.                                            *)
Undetermined(id, n) == ~HasCauses(id, n) \/ Ambiguous(id, n)

(* The master, or else the first of the others. *)
Candidates(id, n) == Masters(id, n) \o Potential(id, n)
MainJob(id, n) == FirstOr(Candidates(id, n), NoJob)

\* Mutant: every unresolved job of the project joins, whatever caused it.
SecondaryOfAnyCause(id, n) ==
  Among(allJobs, {k \in Job : /\ Candidates(id, n) # <<>> /\ k # MainJob(id, n)
                              /\ IdentOf[k] = id /\ state[k] \in {"New", "Locating"}})
Secondary(id, n) ==
  IF Candidates(id, n) = <<>> THEN <<>>
  ELSE Tail(Candidates(id, n)) \o CausedKids(id, n, {"Joined", "Cut"})
-----------------------------------------------------------------------------
(* The calls of a running callback, each a step. *)

(* ResolveIfKnown; "Sought" is its use in the loop of locateExecution, which *)
(* remembers a job that was not found.                                       *)
Resolve(f) ==
  LET j  == f.job
      id == IdentOf[j]
      p  == ParentOf(j)
      hits == {n \in search[id].found :
                 \/ Undetermined(id, n)
                 \/ MainJob(id, n) = j
                 \/ j \in Range(Secondary(id, n))}
      n  == Min(hits)
      rest == Tail(todo)
  IN  /\ f.op \in {"Resolve", "Sought"}
      /\ \/ /\ state[j] \notin {"New", "Locating"}
            /\ Proceed(rest) /\ UNCHANGED search
         \/ /\ state[j] \in {"New", "Locating"} /\ j = Root
            /\ Proceed(<<CallAt("Streaming", j, number[j])>> \o rest)
            /\ UNCHANGED search
         \/ /\ state[j] \in {"New", "Locating"} /\ j # Root
            /\ state[p] \in {"Joined", "Cut"}
            /\ Proceed(<<Call("Cut", j)>> \o rest)
            /\ UNCHANGED search
         \/ /\ state[j] \in {"New", "Locating"} /\ j # Root
            /\ state[p] \notin {"Joined", "Cut"}
            /\ hits = {}
            /\ Proceed(rest)
            /\ search' = IF f.op = "Sought"
                         THEN [search EXCEPT ![id].work = "missing"] ELSE search
         \/ /\ state[j] \in {"New", "Locating"} /\ j # Root
            /\ state[p] \notin {"Joined", "Cut"}
            /\ hits # {}
            /\ IF Undetermined(id, n) THEN Raise
               ELSE IF MainJob(id, n) = j
               THEN Proceed(<<CallAt("Streaming", j, n)>> \o rest)
               ELSE Proceed(<<CallWith("Join", j, MainJob(id, n))>> \o rest)
            /\ UNCHANGED search
      /\ UNCHANGED jobVars

(* SetStreaming.  Without console capture the job goes straight on to       *)
(* Finishing, in the same callback.                                         *)
SetStreaming(f) ==
  LET j == f.job
      rest == Tail(todo)
  IN  /\ f.op = "Streaming"
      /\ \/ /\ ~opts.console
            /\ ChangeState(j, "Streaming", <<Call("Finishing", j)>> \o rest)
            /\ UNCHANGED number
         \/ /\ opts.console /\ state[j] \in {"New", "Locating"}
            /\ number' = [number EXCEPT ![j] = f.num]
            /\ ChangeState(j, "Streaming", <<Call("JoinOthers", j)>> \o rest)
         \/ /\ opts.console /\ state[j] \in {"Joined", "Cut"}
            /\ Raise /\ UNCHANGED <<state, number>>
         \/ /\ opts.console /\ state[j] \in Ran
            /\ Proceed(<<Call("JoinOthers", j)>> \o rest)
            /\ UNCHANGED <<state, number>>
      /\ UNCHANGED <<allJobs, joined, console, result, work, search>>

SetFinishing(f) ==
  /\ f.op = "Finishing"
  /\ ChangeState(f.job, "Finishing", Tail(todo))
  /\ UNCHANGED <<allJobs, number, joined, console, result, work, search>>

(* joinOthersToMe: every other job the same build was started for joins. *)
JoinOthersToMe(f) ==
  LET j  == f.job
      id == IdentOf[j]
      n  == number[j]
      others == Secondary(id, n)
  IN  /\ f.op = "JoinOthers"
      /\ IF j = Root THEN Proceed(Tail(todo))
         ELSE IF n \notin search[id].found \/ Undetermined(id, n) THEN Raise
         ELSE IF MainJob(id, n) # j THEN Raise
         ELSE Proceed([i \in DOMAIN others |-> CallWith("JoinUnlessCut", others[i], j)]
                      \o Tail(todo))
      /\ UNCHANGED <<jobVars, search>>

\* Mutant: a joined job leaves its children alone.
CutNone(kids) == <<>>
CutAll(kids) == [i \in DOMAIN kids |-> Call("Cut", kids[i])]

(* SetJoined *)
SetJoined(f) ==
  LET j == f.job
      m == f.main
      skip == f.op = "JoinUnlessCut" /\ state[j] = "Cut"
  IN  /\ f.op \in {"Join", "JoinUnlessCut"}
      /\ \/ /\ skip
            /\ Proceed(Tail(todo)) /\ UNCHANGED <<state, joined>>
         \/ /\ ~skip
            /\ joined' = [joined EXCEPT ![j] = m]
            /\ state' = [state EXCEPT ![j] = "Joined"]
            /\ IF (state[j] # "Joined" /\ ~Valid(state[j], "Joined"))
                  \/ state'[m] \in {"Joined", "Cut"}
               THEN Raise
               ELSE Proceed(CutAll(Children(j)) \o Tail(todo))
      /\ UNCHANGED <<allJobs, number, console, result, work, search>>

Cut(f) ==
  /\ f.op = "Cut"
  /\ ChangeState(f.job, "Cut", CutAll(Children(f.job)) \o Tail(todo))
  /\ UNCHANGED <<allJobs, number, joined, console, result, work, search>>

(* The end of initialize: a job nothing has resolved is to be located. *)
EndInitialize(f) ==
  LET j == f.job
  IN  /\ f.op = "InitEnd"
      /\ state' = IF state[j] = "New" THEN [state EXCEPT ![j] = "Locating"] ELSE state
      /\ work' = [work EXCEPT ![j] = "idle"]
      /\ Proceed(Tail(todo))
      /\ UNCHANGED <<allJobs, number, joined, console, result, search>>

(* The end of locateExecution's loop: ask for the next build unless every   *)
(* job searched for is resolved.                                            *)
Decide(f) ==
  LET id == f.id
  IN  /\ f.op = "Decide"
      /\ search' = [search EXCEPT ![id] =
                      IF @.work = "missing" THEN [@ EXCEPT !.work = "locate"]
                      ELSE [@ EXCEPT !.work = "idle", !.seeking = <<>>]]
      /\ Proceed(Tail(todo))
      /\ UNCHANGED jobVars

\* Mutant: the search never turns forwards.
TurnsNever(id) == FALSE
Turns(id) == /\ ~search[id].forward
             /\ search[id].next <= 1 \/ BeforeRoot(id, search[id].next)

(* The next build to look at: backwards down to the first build, or to one  *)
(* older than the root's, then forwards from where the search began.        *)
Advance(f) ==
  LET id == f.id
      s == search[id]
  IN  /\ f.op = "Advance"
      /\ search' = [search EXCEPT ![id] =
           [@ EXCEPT !.forward = s.forward \/ Turns(id),
                     !.next = IF Turns(id) THEN s.first + 1
                              ELSE IF s.forward THEN s.next + 1 ELSE s.next - 1,
                     !.work = "idle",
                     !.seeking = <<>>]]
      /\ Proceed(Tail(todo))
      /\ UNCHANGED jobVars

Continue ==
  /\ todo # <<>> /\ ~exited
  /\ LET f == Head(todo)
     IN  \/ Resolve(f)      \/ SetStreaming(f) \/ SetFinishing(f)
         \/ JoinOthersToMe(f) \/ SetJoined(f)  \/ Cut(f)
         \/ EndInitialize(f) \/ Decide(f)      \/ Advance(f)
  /\ UNCHANGED <<serverVars, queueVars, faults>>
-----------------------------------------------------------------------------
(* Callbacks.  A promise continuation runs before any other callback.       *)

Idle == todo = <<>> /\ ~exited
Quiet == Idle /\ \A j \in Job : work[j] # "then"

(* A request fails in one of the assumed ways. *)
Fault(request, failure) ==
  /\ <<request, failure>> \in FaultKinds
  /\ faults < MaxFaults
  /\ faults' = faults + 1

(* The connection fails, or the answer is not 200. *)
Broken(request) == Fault(request, "reset") \/ Fault(request, "error")
Refused(request) ==
  Fault(request, "missing") \/ Fault(request, "denied") \/ Fault(request, "status")

(* The server has the job's build, or answers 404. *)
Answers(j) == Visible(IdentOf[j], number[j])
Missing(request, j) ==
  Fault(request, "missing") \/ (~Answers(j) /\ UNCHANGED faults)

(* The continuation of Search.Initialize() in Job.initialize. *)
InitThen(j) ==
  LET s == search[IdentOf[j]]
      kids == IF opts.pipeline THEN Kids[j] ELSE <<>>
      new == {IdentOf[k] : k \in Range(kids)} \ {IdentOf[k] : k \in Tracked}
  IN  /\ Idle
      /\ j = FirstOr(Among(allJobs, {k \in Job : work[k] = "then"}), NoJob)
      /\ \/ /\ s.ready
            /\ allJobs' = allJobs \o kids
            /\ work' = [k \in Job |->
                          IF k = j THEN "busy"
                          ELSE IF k \in Range(kids)
                          THEN IF search[IdentOf[k]].ready THEN "then" ELSE "init"
                          ELSE work[k]]
            /\ search' = [id \in Ident |->
                            IF id \in new THEN [search[id] EXCEPT !.ctor = TRUE]
                            ELSE search[id]]
            /\ todo' = <<Call("Resolve", j), Call("InitEnd", j)>>
            /\ UNCHANGED <<state, number, joined, console, result, outVars>>
         \/ /\ ~s.ready
            /\ StayIdle(j) /\ UNCHANGED search
      /\ UNCHANGED <<serverVars, queueVars, faults>>

(* The answer to GET <project>/api/json, as Search.Initialize handles it:   *)
(* the first good answer initialises the search, later ones change nothing. *)
Initialized(s, id) ==
  IF s.ready THEN s
  ELSE [s EXCEPT !.ready = TRUE, !.ctor = FALSE, !.first = LastBuild(id),
                 !.next = LastBuild(id), !.forward = FALSE]

(* ... to the request of Job.initialize.  A connection reset resolves the   *)
(* promise; any other failure rejects it, unless the search is initialised. *)
InitResponse(j) ==
  LET id == IdentOf[j]
      settle(w) == work' = [work EXCEPT ![j] = w]
  IN  /\ Quiet
      /\ work[j] = "init"
      /\ \/ /\ search' = [search EXCEPT ![id] = Initialized(@, id)]
            /\ settle("then") /\ UNCHANGED faults
         \/ /\ Fault("init", "reset")
            /\ settle("then") /\ UNCHANGED search
         \/ /\ Fault("init", "error") \/ Refused("init")
            /\ settle(IF search[id].ready THEN "then" ELSE "busy")
            /\ UNCHANGED search
      /\ UNCHANGED <<serverVars, allJobs, state, number, joined, console, result,
                     queueVars, outVars, todo>>

(* ... to the request of the JobSearch constructor, which nobody awaits. *)
CtorResponse(id) ==
  /\ Quiet
  /\ search[id].ctor
  /\ \/ /\ search' = [search EXCEPT ![id] = Initialized(@, id)]
        /\ UNCHANGED faults
     \/ /\ Broken("ctor") \/ Refused("ctor")
        /\ search' = [search EXCEPT ![id].ctor = FALSE]
  /\ UNCHANGED <<serverVars, jobVars, queueVars, outVars, todo>>

(* The timer of Job.DoWork: what is done depends on the state by now. *)
JobTimer(j) ==
  /\ Quiet
  /\ work[j] = "timer"
  /\ LET start(w) == /\ work' = [work EXCEPT ![j] = w]
                     /\ UNCHANGED <<allJobs, state, number, joined, console, result,
                                    todo, outVars>>
     IN  \/ state[j] = "New" /\ start(IF search[IdentOf[j]].ready THEN "then" ELSE "init")
         \/ state[j] = "Streaming" /\ start("stream")
         \/ state[j] = "Downloading" /\ start("download")
         \/ state[j] = "Finishing" /\ opts.console /\ start("finish")
         \/ state[j] = "Finishing" /\ ~opts.console
            /\ StopWork(j, "Queued") /\ UNCHANGED result
         \/ state[j] \notin Running \cup {"New"} /\ StayIdle(j)
  /\ UNCHANGED <<serverVars, search, queueVars, faults>>

\* Mutant: finish() takes the job for ended before Jenkins has the result.
HasResultAlways(b) == TRUE
HasResult(b) == b.result # "running"

(* streamConsole's answer.  Jenkins has more text while the build runs; the *)
(* text can be complete before the build has its result.  A connection      *)
(* reset leaves the job to be asked for again, like a refusal, but then the *)
(* second listener of 'error' throws it.                                    *)
StreamResponse(j) ==
  LET b == builds[IdentOf[j]][number[j]]
  IN  /\ Quiet
      /\ work[j] = "stream"
      /\ \/ /\ Answers(j) /\ b.result = "running"
            /\ StayIdle(j) /\ UNCHANGED <<opts, faults>>
         \/ /\ Answers(j)
            /\ StopWork(j, "Finishing") /\ UNCHANGED <<opts, faults, result>>
         \/ /\ Missing("stream", j)
            /\ StayIdle(j) /\ UNCHANGED opts
         \/ /\ Fault("stream", "error")
            /\ Raise /\ Wait(j) /\ UNCHANGED opts
         \/ /\ Fault("stream", "reset") \/ Fault("stream", "status")
            /\ Report("Failed")
            /\ work' = [work EXCEPT ![j] = "idle"]
            /\ UNCHANGED <<allJobs, state, number, joined, console, result, todo, opts>>
         \/ /\ Fault("stream", "denied")
            /\ Report("Failed")
            /\ opts' = [console |-> FALSE, pipeline |-> FALSE, shouldFail |-> TRUE]
            /\ state' = [state EXCEPT ![j] = "Finishing"]
            /\ work' = [work EXCEPT ![j] = "idle"]
            /\ UNCHANGED <<allJobs, number, joined, console, result, todo>>
      /\ UNCHANGED <<serverVars, search, interval, complete, summary>>

(* finish()'s answer.  Jenkins may not have the result yet. *)
FinishResponse(j) ==
  LET b == builds[IdentOf[j]][number[j]]
  IN  /\ Quiet
      /\ work[j] = "finish"
      /\ \/ /\ Answers(j) /\ ~HasResult(b)
            /\ StayIdle(j) /\ UNCHANGED faults
         \/ /\ Answers(j) /\ HasResult(b)
            /\ result' = [result EXCEPT ![j] = b.result]
            /\ StopWork(j, IF Plugin THEN "Downloading" ELSE "Done")
            /\ UNCHANGED faults
         \/ /\ Fault("finish", "reset")
            /\ StayIdle(j)
         \/ /\ Fault("finish", "error")
            /\ Raise /\ Wait(j)
         \/ /\ Missing("finish", j) \/ Fault("finish", "denied") \/ Fault("finish", "status")
            /\ Report("Failed") /\ Wait(j) /\ UNCHANGED todo
      /\ UNCHANGED <<serverVars, search, queueVars>>

(* downloadResults: whatever the server has, the job is then done. *)
DownloadResponse(j) ==
  /\ Quiet
  /\ work[j] = "download"
  /\ \/ /\ StopWork(j, "Done") /\ UNCHANGED <<faults, result>>
     \/ /\ Refused("download")
        /\ StopWork(j, "Done") /\ UNCHANGED result
     \/ /\ Fault("download", "reset")
        /\ StayIdle(j)
     \/ /\ Fault("download", "error")
        /\ Raise /\ Wait(j)
  /\ UNCHANGED <<serverVars, search, queueVars>>

(* The timer of JobSearch.DoWork: locateExecution. *)
SearchTimer(id) ==
  LET s == search[id].seeking
  IN  /\ Quiet
      /\ search[id].work = "timer"
      /\ search' = [search EXCEPT ![id].work = "busy"]
      /\ todo' = [i \in DOMAIN s |-> Call("Sought", s[i])] \o <<SearchDo("Decide", id)>>
      /\ UNCHANGED <<serverVars, jobVars, queueVars, outVars, faults>>

\* Mutant: only the causes of the last build found are kept.
LearnedLast(s) == [s EXCEPT !.work = "busy", !.found = {s.next}]
Learned(s) == [s EXCEPT !.work = "busy", !.found = @ \cup {s.next}]

(* locateExecution's answer for build next: its causes are recorded, and    *)
(* the main job they give is set streaming.                                 *)
LocateResponse(id) ==
  LET n == search[id].next
      idle == search' = [search EXCEPT ![id].work = "idle", ![id].seeking = <<>>]
  IN  /\ Quiet
      /\ search[id].work = "locate"
      /\ \/ /\ Visible(id, n)
            /\ search' = [search EXCEPT ![id] = Learned(@)]
            /\ IF Undetermined(id, n) THEN Raise
               ELSE IF MainJob(id, n) # NoJob
               THEN Proceed(<<CallAt("Streaming", MainJob(id, n), n), SearchDo("Advance", id)>>)
               ELSE Proceed(<<SearchDo("Advance", id)>>)
            /\ UNCHANGED faults
         \/ /\ ~Visible(id, n)
            /\ idle /\ UNCHANGED <<todo, outVars, faults>>
         \/ /\ Fault("locate", "reset") \/ Fault("locate", "missing")
            /\ idle /\ UNCHANGED <<todo, outVars>>
         \/ /\ Fault("locate", "error")
            /\ Raise /\ search' = [search EXCEPT ![id].work = "busy"]
         \/ /\ Fault("locate", "denied") \/ Fault("locate", "status")
            /\ Report("Failed") /\ search' = [search EXCEPT ![id].work = "busy"]
            /\ UNCHANGED todo
      /\ UNCHANGED <<serverVars, jobVars, queueVars>>
-----------------------------------------------------------------------------
(* JobQueue.Start's interval, stop() and writeFinalMarkdown. *)

MayLocate(j) ==
  /\ state[j] = "Locating"
  /\ j = Root \/ state[ParentOf(j)] = "Done"

(* findNextJobSearches: one search per project for all the jobs it may find. *)
NextSearches ==
  [id \in Ident |->
     LET s == Among(allJobs, {j \in Job : IdentOf[j] = id /\ MayLocate(j)})
     IN  IF search[id].work = "idle" /\ s # <<>>
         THEN [search[id] EXCEPT !.seeking = s, !.work = "timer"]
         ELSE search[id]]

Tick ==
  /\ Quiet /\ interval
  /\ search' = NextSearches
  /\ work' = [j \in Job |->
                IF j \in Tracked /\ state[j] \in Running /\ work[j] = "idle"
                THEN "timer" ELSE work[j]]
  /\ console' = Flushed(state)
  /\ LET failed == \E j \in Tracked : HasFailed(j)
         stop == failed \/ \A j \in Tracked : ~IsActive(j)
     IN  /\ interval' = ~stop
         /\ complete' = (stop /\ ~failed)
         /\ summary' = IF stop THEN "probe" ELSE summary
  /\ UNCHANGED <<serverVars, allJobs, state, number, joined, result, opts, outVars,
                 todo, faults>>

(* writeFinalMarkdown: is the root a pipeline job, and if so its report.    *)
(* Both read response.statusCode without looking at the error, so that a    *)
(* broken connection throws.  Whatever else is not 200 means no pipeline to *)
(* the first; to the second it rejects a promise that has no handler, and   *)
(* nothing follows.                                                         *)
Summarize(request, next, refused) ==
  /\ Quiet
  /\ summary = request
  /\ \/ /\ summary' \in next /\ UNCHANGED <<outVars, faults>>
     \/ /\ Refused(request)
        /\ summary' = refused /\ UNCHANGED outVars
     \/ /\ Broken(request)
        /\ summary' = "lost" /\ Report("Failed")
  /\ UNCHANGED <<serverVars, jobVars, search, opts, interval, complete, todo>>

IsPipelineResponse == Summarize("probe", {"report", "write"}, "write")
ReportResponse == Summarize("report", {"write"}, "refused")

\* Mutant: the argument of stop() is ignored.
FinalResultIgnoringStop == IF opts.shouldFail THEN "Failed" ELSE "Succeeded"
FinalResult == IF complete /\ ~opts.shouldFail THEN "Succeeded" ELSE "Failed"

WriteFile ==
  /\ Quiet
  /\ summary = "write"
  /\ summary' = "done"
  /\ Report(FinalResult)
  /\ UNCHANGED <<serverVars, jobVars, search, opts, interval, complete, todo, faults>>
-----------------------------------------------------------------------------
TrackerInit ==
  /\ allJobs = <<Root>>
  /\ state = [j \in Job |-> "New"]
  /\ number = [j \in Job |-> IF j = Root THEN RootNumber ELSE 0]
  /\ joined = [j \in Job |-> NoJob]
  /\ console = [j \in Job |-> FALSE]
  /\ result = [j \in Job |-> "none"]
  /\ work = [j \in Job |-> IF j = Root THEN "init" ELSE "idle"]
  /\ search = [id \in Ident |->
                 [ready |-> FALSE, ctor |-> id = RootIdent, first |-> 0, next |-> 0,
                  forward |-> FALSE, found |-> {}, seeking |-> <<>>, work |-> "idle"]]
  /\ \E in \in Inputs :
       opts = [console |-> in.console, pipeline |-> in.pipeline, shouldFail |-> FALSE]
  /\ interval = TRUE
  /\ complete = FALSE
  /\ summary = "none"
  /\ verdicts = {}
  /\ exited = FALSE
  /\ todo = <<>>
  /\ faults = 0

Init == ServerInit /\ TrackerInit

JobStep(j) ==
  \/ InitResponse(j) \/ InitThen(j) \/ JobTimer(j)
  \/ StreamResponse(j) \/ FinishResponse(j) \/ DownloadResponse(j)

SearchStep(id) == CtorResponse(id) \/ SearchTimer(id) \/ LocateResponse(id)

SummaryStep == IsPipelineResponse \/ ReportResponse \/ WriteFile

(* The server goes on by itself; what it does during a callback can as well *)
(* be seen after it.                                                        *)
ServerDoes(A) ==
  /\ Idle
  /\ A
  /\ UNCHANGED <<jobVars, search, queueVars, outVars, todo, faults>>

ServerProgress == ServerDoes(\E id \in Ident : StartBuild(id) \/ EndBuild(id))
Server == ServerProgress \/ ServerDoes(\E id \in Ident : ForeignBuild(id))

Next ==
  \/ Continue
  \/ Tick
  \/ \E j \in Job : JobStep(j)
  \/ \E id \in Ident : SearchStep(id)
  \/ SummaryStep
  \/ Server

Spec == Init /\ [][Next]_vars

(* The event loop runs every callback that is ready, and answers arrive.    *)
(* The fairness is strong because each callback waits for the running one.   *)
Fairness ==
  /\ WF_vars(Continue)
  /\ SF_vars(Tick)
  /\ \A j \in Job : SF_vars(JobStep(j))
  /\ \A id \in Ident : SF_vars(SearchStep(id))
  /\ SF_vars(SummaryStep)

FairSpec == Spec /\ Fairness

(* Jenkins starts what waits in its queue, and its builds end. *)
JenkinsProgresses == SF_vars(ServerProgress)
-----------------------------------------------------------------------------
(* Properties. *)

ParentCause(j) == <<IdentOf[ParentOf(j)], number[ParentOf(j)]>>
Causes(id, n) == IF n \in 1..Len(builds[id]) THEN Range(builds[id][n].causes) ELSE {}
Ended == summary \in {"done", "lost"} \/ exited

(* Every step of a job is one the header of job.ts lists, and only the       *)
(* children of joined or cut jobs are cut.                                   *)
Lifecycle == INSTANCE JobLifecycle WITH Parent <- [j \in Job |-> ParentOf(j)]
LifecycleSpec == Lifecycle!Spec

(* FlushJobConsolesSafely: two running jobs never write to the console at   *)
(* the same time, whichever callbacks enable consoles.                       *)
OneConsoleWriter ==
  \A j, k \in Tracked :
    IsActive(j) /\ console[j] /\ IsActive(k) /\ console[k] => j = k

(* FindJob has one answer: no build is tracked by two jobs of the tree, even *)
(* when several upstream builds caused it.                                   *)
OneTrackerPerBuild ==
  \A j, k \in Tracked :
    IdentOf[j] = IdentOf[k] /\ number[j] = number[k] /\ number[j] # 0 => j = k

(* Two assertions of DetermineMainJob and joinOthersToMe cannot fail: the    *)
(* causes of a build never have two masters among their children, and a job  *)
(* that takes a build is the main job of that build.  The third, that a      *)
(* build shows its causes, is for Jenkins to keep.                           *)
OneMainJob ==
  /\ \A id \in Ident : \A n \in search[id].found : ~Ambiguous(id, n)
  /\ \A i \in DOMAIN todo :
       todo[i].op = "JoinOthers" /\ todo[i].job # Root =>
         LET j == todo[i].job IN
         /\ number[j] \in search[IdentOf[j]].found
         /\ MainJob(IdentOf[j], number[j]) = j

(* findWorkingJob: where the joins of a job lead. The recursion of the code  *)
(* is cut off after as many steps as there are jobs in the queue.            *)
WorkingJob(j) ==
  LET follow[i \in 0..Len(allJobs)] ==
        IF i = 0 THEN j
        ELSE LET k == follow[i - 1]
             IN  IF k \in Tracked /\ state[k] = "Joined" THEN joined[k] ELSE k
  IN  follow[Len(allJobs)]

(* The joins of a job end, at a job of the same name that is neither joined  *)
(* nor cut, and the build that job follows was caused by the build of the    *)
(* first one's own parent. A main job may itself be joined later.            *)
FollowsItsCause ==
  \A j \in Tracked \ {Root} :
    LET m == WorkingJob(j)
    IN  /\ state[j] = "Joined" =>
             /\ m \in Tracked \ {j}
             /\ IdentOf[m] = IdentOf[j]
             /\ state[m] \notin {"Joined", "Cut"}
        /\ m \in Tracked /\ number[m] # 0 =>
             ParentCause(j) \in Causes(IdentOf[m], number[m])

(* Between callbacks nothing below a joined or cut job is still sought: its  *)
(* children are cut, or new and about to be.                                 *)
NoOrphans ==
  todo = <<>> =>
    \A j \in Tracked \ {Root} :
      state[ParentOf(j)] \in {"Joined", "Cut"} => state[j] \in {"New", "Cut"}

(* The task succeeds only when every build the pipeline caused has ended     *)
(* well and was followed to its end.                                         *)
SuccessCoversPipeline ==
  "Succeeded" \in verdicts /\ opts.pipeline =>
    /\ \A id \in Ident : queued[id] = <<>>
    /\ \A id \in Ident : \A n \in 1..Len(builds[id]) :
         builds[id][n].causes # <<>> \/ <<id, n>> = <<RootIdent, RootNumber>> =>
           \E j \in Tracked :
             /\ IdentOf[j] = id /\ number[j] = n /\ state[j] = "Done"
             /\ result[j] = builds[id][n].result /\ result[j] \in Good

(* A job that failed makes the task fail, once it has ended.  The one end   *)
(* that is not covered is a pipeline report the server refuses: the task    *)
(* then says nothing (jobqueue.ts:271-279).                                 *)
FailureIsReported ==
  Ended /\ (\E j \in Tracked : state[j] = "Done" /\ result[j] \notin Good)
    => "Failed" \in verdicts

(* What is known of an execution is never taken back. *)
KnowledgeIsKept ==
  [][/\ \A j \in Job : number[j] # 0 => number'[j] = number[j]
     /\ \A j \in Job : state[j] = "Done" => result'[j] = result[j]
     /\ \A id \in Ident : search[id].found \subseteq search'[id].found]_vars

(* The task ends with a verdict, if Jenkins goes on.  The requests that can  *)
(* keep it from that, init and a refused report, fail only in QueueReset.    *)
EventuallyVerdict == JenkinsProgresses => <>(verdicts # {})

(* Without console capture the task does not wait for Jenkins: it succeeds   *)
(* even if the build is never run, unless the connection breaks while it     *)
(* writes its summary.                                                       *)
SucceedsOnceQueued ==
  ~opts.console => <>(verdicts = {"Succeeded"} \/ summary = "lost")
=============================================================================
