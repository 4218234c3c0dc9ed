---------------------------- MODULE JenkinsServer ----------------------------
(***************************************************************************)
(* The Jenkins server, as the JenkinsQueueJob task observes it through its *)
(* REST API.  It is external code: what is written here is what the task   *)
(* relies on when it parses downstreamProjects, lastBuild, actions.causes, *)
(* timestamp and result.                                                   *)
(*                                                                         *)
(* A project that finishes with a triggering result puts every downstream  *)
(* project in the queue; a trigger that arrives while the project already  *)
(* waits there is folded into the waiting item, whose build then has       *)
(* several causes (jobsearch.ts, the comment in locateExecution).          *)
(***************************************************************************)
EXTENDS Naturals, Sequences, Functions

CONSTANTS
  Ident,       \* projects
  RootIdent,   \* the project the task submits
  Downstream,  \* [Ident -> Seq(Ident)], the enabled downstream projects
  History,     \* [Ident -> Nat], builds that ended before the task began
  Discarded,   \* [Ident -> Nat], how many of those the server has discarded
  Results,     \* the values of result a build can end with
  TriggerOn,   \* the results on which downstream projects are triggered
  Uncaused,    \* the builds that show no causes if no project triggers them
  MaxForeign   \* bound on builds that somebody else starts meanwhile

ASSUME ServerAssumption ==
  /\ RootIdent \in Ident
  /\ Downstream \in [Ident -> Seq(Ident)]
  /\ History \in [Ident -> Nat]
  /\ Discarded \in [Ident -> Nat]
  /\ \A id \in Ident : Discarded[id] <= History[id]
  /\ Results # {} /\ "running" \notin Results
  /\ TriggerOn \subseteq Results
  /\ Uncaused \subseteq Ident \X Nat
  /\ MaxForeign \in Nat

VARIABLES
  builds,      \* builds[id][n] is build n of project id
  queued,      \* queued[id] is the causes of the waiting item, <<>> if none
  foreign      \* number of foreign builds so far

serverVars == <<builds, queued, foreign>>

Cause == Ident \X Nat                       \* upstreamUrl, upstreamBuild
Build == [causes : Seq(Cause), result : Results \cup {"running"}]

NewBuild(causes, result) == [causes |-> causes, result |-> result]

(* The result of builds the task never tracks; no step depends on it. *)
EndResult == CHOOSE r \in Results : TRUE

RootNumber == History[RootIdent] + 1

ServerTypeOK ==
  /\ builds \in [Ident -> Seq(Build)]
  /\ queued \in [Ident -> Seq(Cause)]
  /\ foreign \in 0..MaxForeign

ServerInit ==
  /\ builds = [id \in Ident |->
                 [n \in 1..(History[id] + (IF id = RootIdent THEN 1 ELSE 0)) |->
                    NewBuild(<<>>, IF n <= History[id] THEN EndResult ELSE "running")]]
  /\ queued = [id \in Ident |-> <<>>]
  /\ foreign = 0

(* The waiting item of a project leaves the queue and gets the next number. *)
StartBuild(id) ==
  /\ queued[id] # <<>>
  /\ builds' = [builds EXCEPT ![id] = Append(@, NewBuild(queued[id], "running"))]
  /\ queued' = [queued EXCEPT ![id] = <<>>]
  /\ UNCHANGED foreign

(* A build ends; a triggering result queues the downstream projects. *)
FinishBuild(id, n, r) ==
  /\ n \in 1..Len(builds[id])
  /\ builds[id][n].result = "running"
  /\ builds' = [builds EXCEPT ![id][n] = NewBuild(builds[id][n].causes, r)]
  /\ queued' = [d \in Ident |->
                  IF r \in TriggerOn /\ d \in Range(Downstream[id])
                  THEN Append(queued[d], <<id, n>>)
                  ELSE queued[d]]
  /\ UNCHANGED foreign

(* Somebody else starts a build of the same project: no upstream cause. *)
ForeignBuild(id) ==
  /\ foreign < MaxForeign
  /\ foreign' = foreign + 1
  /\ builds' = [builds EXCEPT ![id] = Append(@, NewBuild(<<>>, EndResult))]
  /\ UNCHANGED queued

EndBuild(id) == \E n \in 1..Len(builds[id]), r \in Results : FinishBuild(id, n, r)

(* GET <project>/<n>/api/json answers 200: the build exists and is kept. *)
Visible(id, n) == n \in (Discarded[id] + 1)..Len(builds[id])

(* Some action of the build's JSON has causes.  A user who starts a build is *)
(* a cause too, so that only few builds lack them.                           *)
HasCauses(id, n) == builds[id][n].causes # <<>> \/ <<id, n>> \notin Uncaused

(* lastBuild.number in the project's JSON, or 1 when it has no lastBuild. *)
LastBuild(id) == IF Len(builds[id]) > Discarded[id] THEN Len(builds[id]) ELSE 1

(* The build's timestamp is earlier than the root build's. *)
BeforeRoot(id, n) == n <= History[id]
=============================================================================
