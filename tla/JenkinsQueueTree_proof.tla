----------------------- MODULE JenkinsQueueTree_proof -----------------------
(***************************************************************************)
(* The tree of jobs and the history of the server, for every pipeline,     *)
(* every task input and every number of failing requests: an execution has *)
(* one tracker, jobs that share one have one main job, nothing is sought   *)
(* below a job that was joined or cut, a joined job leads to one that      *)
(* follows the right execution, a failure is reported, and a success       *)
(* covers the pipeline.                                                    *)
(*                                                                         *)
(* First what the server guarantees of causes (History0), then what is     *)
(* true of the jobs between callbacks and while calls wait (TreeInv), step *)
(* by step, and from both what the task says at its end (EndInv, Pursued,  *)
(* Covered).                                                               *)
(***************************************************************************)
EXTENDS JenkinsQueueJob_proof

-----------------------------------------------------------------------------
(* What caused what.                                                        *)

Over(c) ==
  /\ c[1] \in Ident /\ c[2] \in 1..Len(builds[c[1]])
  /\ builds[c[1]][c[2]].result # "running"

(* A build of the pipeline, whether or not a job follows it. *)
Wanted(id, n) == builds[id][n].causes # <<>> \/ <<id, n>> = <<RootIdent, RootNumber>>

Triggers(c, id) == Over(c) /\ Wanted(c[1], c[2]) /\ id \in Range(Downstream[c[1]])

(* A cause is a build of the pipeline that has ended, of a project with     *)
(* this one downstream.                                                     *)
CausesOver ==
  \A id \in Ident :
    /\ \A n \in 1..Len(builds[id]) : \A c \in Range(builds[id][n].causes) : Triggers(c, id)
    /\ \A c \in Range(queued[id]) : Triggers(c, id)

(* A build causes at most one build of a project, and is one of its causes. *)
Single(q) == \A x, y \in DOMAIN q : q[x] = q[y] => x = y
Apart(q, p) == \A x \in DOMAIN q, y \in DOMAIN p : q[x] # p[y]
OnceAt(id) ==
  /\ \A n, m \in 1..Len(builds[id]) :
       n # m => Apart(builds[id][n].causes, builds[id][m].causes)
  /\ \A n \in 1..Len(builds[id]) : Single(builds[id][n].causes)
  /\ Single(queued[id])
  /\ \A n \in 1..Len(builds[id]) : Apart(builds[id][n].causes, queued[id])
CausesOnce == \A id \in Ident : OnceAt(id)

RootCaused ==
  /\ RootNumber \in 1..Len(builds[RootIdent])
  /\ builds[RootIdent][RootNumber].causes = <<>>

RunningWanted ==
  \A id \in Ident : \A n \in 1..Len(builds[id]) :
    builds[id][n].result = "running" => Wanted(id, n)

(* Builds can be ordered so that causes come first. *)
RanksTo(rank, b) ==
  /\ \A id \in Ident : \A n \in 1..Len(builds[id]) : rank[<<id, n>>] < b
  /\ \A id \in Ident : \A n \in 1..Len(builds[id]) :
       \A c \in Range(builds[id][n].causes) : rank[c] < rank[<<id, n>>]
Ranked == \E b \in Nat : \E rank \in [Ident \X Nat -> Nat] : RanksTo(rank, b)

History0 == CausesOver /\ CausesOnce /\ RootCaused /\ RunningWanted /\ Ranked

(* How the history of the server goes on: a build begins, with what waits   *)
(* in the queue or without a cause, or one ends and may trigger others.     *)
Begins(id, b) ==
  /\ Len(builds'[id]) = Len(builds[id]) + 1
  /\ \A n \in 1..Len(builds[id]) : builds'[id][n] = builds[id][n]
  /\ builds'[id][Len(builds[id]) + 1] = b
  /\ \A i \in Ident \ {id} : builds'[i] = builds[i] /\ queued'[i] = queued[i]
  /\ \/ /\ queued[id] # <<>> /\ queued'[id] = <<>>
        /\ b.causes = queued[id] /\ b.result = "running"
     \/ queued'[id] = queued[id] /\ b.causes = <<>> /\ b.result # "running"

Ends(id, n, r) ==
  /\ builds[id][n].result = "running" /\ r # "running"
  /\ \A i \in Ident : Len(builds'[i]) = Len(builds[i])
  /\ \A i \in Ident : \A k \in 1..Len(builds[i]) :
       /\ builds'[i][k].causes = builds[i][k].causes
       /\ builds'[i][k].result = IF i = id /\ k = n THEN r ELSE builds[i][k].result
  /\ \A d \in Ident : \/ queued'[d] = queued[d]
                      \/ /\ queued'[d] = Append(queued[d], <<id, n>>)
                         /\ d \in Range(Downstream[id])

LEMMA ServerMoves ==
  ASSUME ServerTypeOK, [Next]_vars
  PROVE  \/ UNCHANGED <<builds, queued>>
         \/ \E id \in Ident, b \in Build : Begins(id, b)
         \/ \E id \in Ident : \E n \in 1..Len(builds[id]), r \in Results : Ends(id, n, r)
<1>1. /\ builds \in [Ident -> Seq(Build)] /\ queued \in [Ident -> Seq(Cause)]
      /\ "running" \notin Results /\ EndResult \in Results
  BY ServerAssumption, EndResultType DEF ServerTypeOK
<1>2. ASSUME NEW id \in Ident PROVE builds[id] \in Seq(Build) /\ Len(builds[id]) \in Nat
  BY <1>1, LenProperties
<1>3. ASSUME NEW id \in Ident, StartBuild(id) PROVE \E b \in Build : Begins(id, b)
  <2> DEFINE b == NewBuild(queued[id], "running")
  <2>1. /\ builds' = [builds EXCEPT ![id] = Append(@, b)]
        /\ queued' = [queued EXCEPT ![id] = <<>>] /\ queued[id] # <<>>
    BY <1>3 DEF StartBuild
  <2>2. b \in Build /\ b.causes = queued[id] /\ b.result = "running"
    BY <1>1 DEF NewBuild, Build
  <2> HIDE DEF b
  <2>3. /\ Len(builds'[id]) = Len(builds[id]) + 1
        /\ \A n \in 1..Len(builds[id]) : builds'[id][n] = builds[id][n]
        /\ builds'[id][Len(builds[id]) + 1] = b
    BY <1>1, <1>2, <2>1
  <2>4. /\ \A i \in Ident \ {id} : builds'[i] = builds[i] /\ queued'[i] = queued[i]
        /\ queued'[id] = <<>>
    BY <1>1, <2>1
  <2> QED BY <2>1, <2>2, <2>3, <2>4 DEF Begins
<1>4. ASSUME NEW id \in Ident, ForeignBuild(id) PROVE \E b \in Build : Begins(id, b)
  <2> DEFINE b == NewBuild(<<>>, EndResult)
  <2>1. builds' = [builds EXCEPT ![id] = Append(@, b)] /\ UNCHANGED queued
    BY <1>4 DEF ForeignBuild
  <2>2. b \in Build /\ b.causes = <<>> /\ b.result # "running"
    BY <1>1, EmptySeq DEF NewBuild, Build
  <2> HIDE DEF b
  <2>3. /\ Len(builds'[id]) = Len(builds[id]) + 1
        /\ \A n \in 1..Len(builds[id]) : builds'[id][n] = builds[id][n]
        /\ builds'[id][Len(builds[id]) + 1] = b
    BY <1>1, <1>2, <2>1
  <2>4. \A i \in Ident \ {id} : builds'[i] = builds[i] /\ queued'[i] = queued[i]
    BY <1>1, <2>1
  <2> QED BY <2>1, <2>2, <2>3, <2>4 DEF Begins
<1>5. ASSUME NEW id \in Ident, NEW n \in 1..Len(builds[id]), NEW r \in Results,
             FinishBuild(id, n, r)
      PROVE  Ends(id, n, r)
  <2> DEFINE b == NewBuild(builds[id][n].causes, r)
  <2>1. /\ builds' = [builds EXCEPT ![id][n] = b] /\ builds[id][n].result = "running"
        /\ \A d \in Ident : \/ queued'[d] = queued[d]
                            \/ /\ queued'[d] = Append(queued[d], <<id, n>>)
                               /\ d \in Range(Downstream[id])
    BY <1>5 DEF FinishBuild
  <2>2. b.causes = builds[id][n].causes /\ b.result = r
    BY DEF NewBuild
  <2> HIDE DEF b
  <2>3. /\ \A i \in Ident : Len(builds'[i]) = Len(builds[i])
        /\ \A i \in Ident : \A k \in 1..Len(builds[i]) :
             builds'[i][k] = IF i = id /\ k = n THEN b ELSE builds[i][k]
    BY <1>1, <1>2, <2>1, LenProperties
  <2> QED BY <1>1, <2>1, <2>2, <2>3 DEF Ends
<1>6. \/ UNCHANGED serverVars
      \/ \E id \in Ident : \/ StartBuild(id) \/ ForeignBuild(id)
                           \/ \E n \in 1..Len(builds[id]), r \in Results : FinishBuild(id, n, r)
  BY DEF Next, vars, Continue, Tick, JobStep, InitResponse, InitThen, JobTimer, StreamResponse,
         FinishResponse, DownloadResponse, SearchStep, CtorResponse, SearchTimer, LocateResponse,
         SummaryStep, IsPipelineResponse, ReportResponse, Summarize, WriteFile, Server,
         ServerProgress, ServerDoes, EndBuild
<1> QED BY <1>3, <1>4, <1>5, <1>6 DEF serverVars

(* Builds and their causes stay, and so does the result of a build.         *)
ExtendsAt(id) ==
  /\ Len(builds[id]) \in Nat /\ Len(builds'[id]) \in Nat /\ Len(builds[id]) <= Len(builds'[id])
  /\ \A n \in 1..Len(builds[id]) :
       /\ n \in 1..Len(builds'[id])
       /\ builds'[id][n].causes = builds[id][n].causes
       /\ builds[id][n].result # "running" => builds'[id][n].result = builds[id][n].result
Extends == \A id \in Ident : ExtendsAt(id)

LEMMA ServerExtends ==
  ASSUME ServerTypeOK, [Next]_vars
  PROVE  Extends
<1>1. ASSUME NEW id \in Ident PROVE Len(builds[id]) \in Nat
  BY LenProperties DEF ServerTypeOK
<1>2. CASE UNCHANGED <<builds, queued>>
  BY <1>1, <1>2 DEF Extends, ExtendsAt
<1>3. ASSUME NEW id \in Ident, NEW b \in Build, Begins(id, b) PROVE Extends
  <2> SUFFICES ASSUME NEW i \in Ident PROVE ExtendsAt(i)
    BY DEF Extends
  <2>1. CASE i = id
    <3>1. Len(builds'[id]) = Len(builds[id]) + 1
      BY <1>3 DEF Begins
    <3> QED BY <1>1, <1>3, <2>1, <3>1 DEF Begins, ExtendsAt
  <2>2. CASE i # id
    BY <1>1, <1>3, <2>2 DEF Begins, ExtendsAt
  <2> QED BY <2>1, <2>2
<1>4. ASSUME NEW id \in Ident, NEW n \in 1..Len(builds[id]), NEW r \in Results, Ends(id, n, r)
      PROVE  Extends
  <2> SUFFICES ASSUME NEW i \in Ident PROVE ExtendsAt(i)
    BY DEF Extends
  <2>1. Len(builds[i]) \in Nat /\ Len(builds'[i]) = Len(builds[i])
    BY <1>1, <1>4 DEF Ends
  <2>2. ASSUME NEW k \in 1..Len(builds[i])
        PROVE  /\ builds'[i][k].causes = builds[i][k].causes
               /\ builds[i][k].result # "running" => builds'[i][k].result = builds[i][k].result
    BY <1>4 DEF Ends
  <2> QED BY <2>1, <2>2 DEF ExtendsAt
<1> QED BY <1>2, <1>3, <1>4, ServerMoves

(* Which is what most of the history asks for. *)
LEMMA TriggersKept ==
  ASSUME Extends, NEW c, NEW id, Triggers(c, id)
  PROVE  Triggers(c, id)'
  BY DEF Extends, ExtendsAt, Triggers, Over, Wanted

LEMMA AppendRange ==
  ASSUME NEW S, NEW s \in Seq(S), NEW x \in S
  PROVE  /\ Append(s, x) \in Seq(S) /\ Range(Append(s, x)) = Range(s) \cup {x}
         /\ DOMAIN Append(s, x) = 1..Len(s) + 1 /\ DOMAIN s = 1..Len(s) /\ Len(s) \in Nat
         /\ \A i \in 1..Len(s) : Append(s, x)[i] = s[i]
         /\ Append(s, x)[Len(s) + 1] = x
<1>1. /\ Append(s, x) \in Seq(S) /\ Len(Append(s, x)) = Len(s) + 1
      /\ \A i \in 1..Len(s) : Append(s, x)[i] = s[i]
      /\ Append(s, x)[Len(s) + 1] = x
  BY AppendProperties
<1>2. DOMAIN Append(s, x) = 1..Len(s) + 1 /\ DOMAIN s = 1..Len(s) /\ Len(s) \in Nat
  BY <1>1, LenProperties
<1> DEFINE t == Append(s, x)
<1> HIDE DEF t
<1>3. \A y : y \in Range(t) <=> y \in Range(s) \cup {x}
  <2> TAKE y
  <2>1. ASSUME y \in Range(t) PROVE y \in Range(s) \cup {x}
    <3>1. PICK i \in DOMAIN t : t[i] = y
      BY <2>1, RangeIsDomain
    <3>2. i = Len(s) + 1 \/ i \in DOMAIN s
      BY <1>2 DEF t
    <3>3. i \in DOMAIN s => t[i] = s[i]
      BY <1>1, <1>2 DEF t
    <3>4. t[Len(s) + 1] = x
      BY <1>1 DEF t
    <3> QED BY <3>1, <3>2, <3>3, <3>4, RangeIsDomain
  <2>2. ASSUME y \in Range(s) PROVE y \in Range(t)
    <3>1. PICK i \in DOMAIN s : s[i] = y
      BY <2>2, RangeIsDomain
    <3>2. i \in DOMAIN t /\ t[i] = y
      BY <1>1, <1>2, <3>1 DEF t
    <3> QED BY <3>2, RangeIsDomain
  <2>3. x \in Range(t)
    <3>1. Len(s) + 1 \in DOMAIN t /\ t[Len(s) + 1] = x
      BY <1>1, <1>2 DEF t
    <3> QED BY <3>1, RangeIsDomain
  <2> QED BY <2>1, <2>2, <2>3
<1> QED BY <1>1, <1>2, <1>3 DEF t

LEMMA CausesOverNext ==
  ASSUME ServerTypeOK, CausesOver, RunningWanted, [Next]_vars
  PROVE  CausesOver'
<1>1. Extends
  BY ServerExtends
<1>2. /\ builds \in [Ident -> Seq(Build)] /\ queued \in [Ident -> Seq(Cause)]
      /\ Range(<<>>) = {}
  BY DEF ServerTypeOK, Range
<1>3. \A i \in Ident : \A n \in 1..Len(builds[i]) : \A c \in Range(builds'[i][n].causes) :
        Triggers(c, i)'
  BY <1>1, TriggersKept DEF CausesOver, Extends, ExtendsAt
<1>4. \A i \in Ident : \A c \in Range(queued[i]) : Triggers(c, i)'
  BY <1>1, TriggersKept DEF CausesOver
<1>5. CASE UNCHANGED <<builds, queued>>
  <2>1. \A i \in Ident : builds'[i] = builds[i] /\ queued'[i] = queued[i]
    BY <1>5
  <2> QED BY <1>3, <1>4, <2>1 DEF CausesOver
<1>6. ASSUME NEW id \in Ident, NEW b \in Build, Begins(id, b) PROVE CausesOver'
  <2>1. Len(builds[id]) \in Nat
    BY <1>2, LenProperties
  <2>2. ASSUME NEW i \in Ident, NEW n \in 1..Len(builds'[i]), NEW c \in Range(builds'[i][n].causes)
        PROVE  Triggers(c, i)'
    <3>1. CASE n \in 1..Len(builds[i])
      BY <1>3, <2>2, <3>1
    <3>2. CASE n \notin 1..Len(builds[i])
      <4>1. i = id /\ n = Len(builds[id]) + 1
        BY <1>6, <2>1, <3>2 DEF Begins
      <4>2. c \in Range(b.causes)
        BY <1>6, <2>2, <4>1 DEF Begins
      <4> QED BY <1>2, <1>4, <1>6, <4>1, <4>2 DEF Begins
    <3> QED BY <3>1, <3>2
  <2>3. \A i \in Ident : queued'[i] \in {queued[i], <<>>}
    BY <1>6 DEF Begins
  <2>4. \A i \in Ident : \A c \in Range(queued'[i]) : Triggers(c, i)'
    BY <1>2, <1>4, <2>3
  <2> QED BY <2>2, <2>4 DEF CausesOver
<1>7. ASSUME NEW id \in Ident, NEW n \in 1..Len(builds[id]), NEW r \in Results, Ends(id, n, r)
      PROVE  CausesOver'
  <2> DEFINE c == <<id, n>>
  <2>1. n \in Nat /\ c \in Cause /\ c[1] = id /\ c[2] = n
    BY <1>2, LenProperties DEF Cause
  <2>2. ASSUME NEW d \in Range(Downstream[id]), NEW i \in Ident, i = d PROVE Triggers(c, d)'
    <3>1. Wanted(id, n)
      BY <1>7 DEF Ends, RunningWanted
    <3>2. Wanted(id, n)' /\ Over(c)'
      BY <1>7, <2>1, <3>1 DEF Ends, Wanted, Over
    <3> QED BY <2>1, <2>2, <3>2 DEF Triggers
  <2> HIDE DEF c
  <2>3. ASSUME NEW i \in Ident, NEW x \in Range(queued'[i]) PROVE Triggers(x, i)'
    <3>1. CASE queued'[i] = queued[i]
      BY <1>4, <2>3, <3>1
    <3>2. CASE queued'[i] = Append(queued[i], c) /\ i \in Range(Downstream[id])
      <4>1. x \in Range(queued[i]) \cup {c}
        BY <1>2, <2>1, <2>3, <3>2, AppendRange
      <4> QED BY <1>4, <2>2, <3>2, <4>1
    <3> QED BY <1>7, <3>1, <3>2 DEF Ends, c
  <2>4. \A i \in Ident : Len(builds'[i]) = Len(builds[i])
    BY <1>7 DEF Ends
  <2> QED BY <1>3, <2>3, <2>4 DEF CausesOver
<1> QED BY <1>5, <1>6, <1>7, ServerMoves

LEMMA CausesOnceNext ==
  ASSUME ServerTypeOK, CausesOver, CausesOnce, [Next]_vars
  PROVE  CausesOnce'
<1>1. Extends
  BY ServerExtends
<1>2. /\ builds \in [Ident -> Seq(Build)] /\ queued \in [Ident -> Seq(Cause)]
      /\ Range(<<>>) = {} /\ DOMAIN <<>> = {}
  BY DEF ServerTypeOK, Range
<1> DEFINE Cs(i, n) == builds[i][n].causes
<1> SUFFICES ASSUME NEW i \in Ident, OnceAt(i) PROVE OnceAt(i)'
  BY DEF CausesOnce
<1>5. \A n \in 1..Len(builds[i]) : builds'[i][n].causes = Cs(i, n)
  BY <1>1 DEF Extends, ExtendsAt
<1>6. CASE Len(builds'[i]) = Len(builds[i]) /\ queued'[i] = queued[i]
  <2> QED BY <1>5, <1>6 DEF OnceAt
<1>7. ASSUME NEW b \in Build, Begins(i, b), queued'[i] # queued[i] PROVE OnceAt(i)'
  <2>1. /\ Len(builds[i]) \in Nat /\ Len(builds'[i]) = Len(builds[i]) + 1
        /\ builds'[i][Len(builds[i]) + 1].causes = queued[i] /\ queued'[i] = <<>>
    BY <1>2, <1>7, LenProperties DEF Begins
  <2>2. \A n \in 1..Len(builds'[i]) : n \in 1..Len(builds[i]) \/ n = Len(builds[i]) + 1
    BY <2>1
  <2>3. \A q : Apart(q, <<>>) /\ Single(<<>>)
    BY <1>2 DEF Apart, Single
  <2>4. \A q, p : Apart(q, p) => Apart(p, q)
    BY DEF Apart
  <2>5. \A n, m \in 1..Len(builds'[i]) : n # m => Apart(builds'[i][n].causes, builds'[i][m].causes)
    BY <1>5, <2>1, <2>2, <2>4 DEF OnceAt
  <2>6. \A n \in 1..Len(builds'[i]) : Single(builds'[i][n].causes)
    BY <1>5, <2>1, <2>2 DEF OnceAt
  <2> QED BY <2>1, <2>3, <2>5, <2>6 DEF OnceAt
<1>8. ASSUME NEW b \in Build, Begins(i, b), queued'[i] = queued[i], b.causes = <<>> PROVE OnceAt(i)'
  <2>1. /\ Len(builds[i]) \in Nat /\ Len(builds'[i]) = Len(builds[i]) + 1
        /\ builds'[i][Len(builds[i]) + 1].causes = <<>>
    BY <1>2, <1>8, LenProperties DEF Begins
  <2>2. \A n \in 1..Len(builds'[i]) : n \in 1..Len(builds[i]) \/ n = Len(builds[i]) + 1
    BY <2>1
  <2>3. \A q : Apart(q, <<>>) /\ Apart(<<>>, q) /\ Single(<<>>)
    BY <1>2 DEF Apart, Single
  <2>5. \A n, m \in 1..Len(builds'[i]) : n # m => Apart(builds'[i][n].causes, builds'[i][m].causes)
    BY <1>5, <2>1, <2>2, <2>3 DEF OnceAt
  <2>6. \A n \in 1..Len(builds'[i]) : Single(builds'[i][n].causes)
    BY <1>5, <2>1, <2>2, <2>3 DEF OnceAt
  <2>7. \A n \in 1..Len(builds'[i]) : Apart(builds'[i][n].causes, queued'[i])
    BY <1>5, <1>8, <2>1, <2>2, <2>3 DEF OnceAt
  <2> QED BY <1>8, <2>5, <2>6, <2>7 DEF OnceAt
<1>9. ASSUME NEW id \in Ident, NEW n \in 1..Len(builds[id]), NEW r \in Results, Ends(id, n, r),
             queued'[i] = Append(queued[i], <<id, n>>)
      PROVE  OnceAt(i)'
  <2> DEFINE c == <<id, n>>
  <2>1. n \in Nat /\ c \in Cause /\ ~Over(c)
    BY <1>2, <1>9, LenProperties DEF Cause, Over, Ends
  <2> HIDE DEF c
  <2>2. Len(builds'[i]) = Len(builds[i])
    BY <1>9 DEF Ends
  <2>3. \A k \in 1..Len(builds[i]) : \A x \in DOMAIN Cs(i, k) : Cs(i, k)[x] # c
    BY <2>1, RangeIsDomain DEF CausesOver, Triggers
  <2>4. \A x \in DOMAIN queued[i] : queued[i][x] # c
    BY <2>1, RangeIsDomain DEF CausesOver, Triggers
  <2> DEFINE q == queued[i]
             t == Append(queued[i], c)
  <2>5. /\ DOMAIN t = 1..Len(q) + 1 /\ DOMAIN q = 1..Len(q) /\ Len(q) \in Nat
        /\ \A x \in 1..Len(q) : t[x] = q[x]
        /\ t[Len(q) + 1] = c
    BY <1>2, <2>1, AppendRange
  <2> HIDE DEF t, q
  <2>6. \A x \in DOMAIN t : (x \in DOMAIN q /\ t[x] = q[x]) \/ (x = Len(q) + 1 /\ t[x] = c)
    BY <2>5
  <2>7. Single(t)
    BY <2>4, <2>6 DEF q, Single, OnceAt
  <2>8. \A k \in 1..Len(builds[i]) : Apart(Cs(i, k), t)
    BY <2>3, <2>6 DEF q, Apart, OnceAt
  <2>9. queued'[i] = t
    BY <1>9 DEF t, c
  <2> QED BY <1>5, <2>2, <2>7, <2>8, <2>9 DEF OnceAt
<1>10. \/ Len(builds'[i]) = Len(builds[i]) /\ queued'[i] = queued[i]
       \/ \E b \in Build : Begins(i, b) /\ (queued'[i] # queued[i] \/ b.causes = <<>>)
       \/ \E id \in Ident : \E n \in 1..Len(builds[id]), r \in Results :
            Ends(id, n, r) /\ queued'[i] = Append(queued[i], <<id, n>>)
  <2>1. CASE UNCHANGED <<builds, queued>>
    BY <2>1
  <2>2. ASSUME NEW id \in Ident, NEW b \in Build, Begins(id, b)
        PROVE  \/ Len(builds'[i]) = Len(builds[i]) /\ queued'[i] = queued[i]
               \/ Begins(i, b) /\ (queued'[i] # queued[i] \/ b.causes = <<>>)
    <3>1. CASE i = id
      BY <2>2, <3>1 DEF Begins
    <3>2. CASE i # id
      BY <2>2, <3>2 DEF Begins
    <3> QED BY <3>1, <3>2
  <2>3. ASSUME NEW id \in Ident, NEW n \in 1..Len(builds[id]), NEW r \in Results, Ends(id, n, r)
        PROVE  \/ Len(builds'[i]) = Len(builds[i]) /\ queued'[i] = queued[i]
               \/ queued'[i] = Append(queued[i], <<id, n>>)
    BY <2>3 DEF Ends
  <2> QED BY <2>1, <2>2, <2>3, ServerMoves
<1> QED BY <1>6, <1>7, <1>8, <1>9, <1>10

LEMMA RootCausedNext ==
  ASSUME ServerTypeOK, RootCaused, [Next]_vars
  PROVE  RootCaused'
  BY ServerExtends, ServerAssumption DEF RootCaused, Extends, ExtendsAt

LEMMA RunningWantedNext ==
  ASSUME ServerTypeOK, RunningWanted, [Next]_vars
  PROVE  RunningWanted'
<1>1. Extends /\ builds \in [Ident -> Seq(Build)]
  BY ServerExtends DEF ServerTypeOK
<1>2. \A id \in Ident : \A n \in 1..Len(builds[id]) : Wanted(id, n) => Wanted(id, n)'
  BY <1>1 DEF Extends, ExtendsAt, Wanted
<1>3. CASE UNCHANGED <<builds, queued>>
  BY <1>3 DEF RunningWanted, Wanted
<1>4. ASSUME NEW id \in Ident, NEW b \in Build, Begins(id, b) PROVE RunningWanted'
  <2>1. SUFFICES ASSUME NEW i \in Ident, NEW n \in 1..Len(builds'[i]), builds'[i][n].result = "running"
                 PROVE  Wanted(i, n)'
    BY DEF RunningWanted
  <2>2. CASE n \in 1..Len(builds[i])
    <3>1. builds'[i][n] = builds[i][n]
      BY <1>4, <2>2 DEF Begins
    <3> QED BY <1>2, <2>1, <2>2, <3>1 DEF RunningWanted
  <2>3. CASE n \notin 1..Len(builds[i])
    <3>1. Len(builds[id]) \in Nat
      BY <1>1, LenProperties
    <3>2. i = id /\ n = Len(builds[id]) + 1
      BY <1>4, <2>3, <3>1 DEF Begins
    <3>3. builds'[i][n] = b /\ b.causes # <<>>
      BY <1>4, <2>1, <3>2 DEF Begins
    <3> QED BY <3>3 DEF Wanted
  <2> QED BY <2>2, <2>3
<1>5. ASSUME NEW id \in Ident, NEW n \in 1..Len(builds[id]), NEW r \in Results, Ends(id, n, r)
      PROVE  RunningWanted'
  <2>1. \A i \in Ident : Len(builds'[i]) = Len(builds[i])
    BY <1>5 DEF Ends
  <2>2. \A i \in Ident : \A k \in 1..Len(builds[i]) :
          builds'[i][k].result = "running" => builds[i][k].result = "running"
    BY <1>5 DEF Ends
  <2> QED BY <1>2, <2>1, <2>2 DEF RunningWanted
<1> QED BY <1>3, <1>4, <1>5, ServerMoves

LEMMA RankedNext ==
  ASSUME ServerTypeOK, CausesOver, Ranked, [Next]_vars
  PROVE  Ranked'
<1>1. PICK b \in Nat : \E rank \in [Ident \X Nat -> Nat] : RanksTo(rank, b)
  BY DEF Ranked
<1>2. PICK rank \in [Ident \X Nat -> Nat] : RanksTo(rank, b)
  BY <1>1
<1>3. /\ builds \in [Ident -> Seq(Build)] /\ queued \in [Ident -> Seq(Cause)]
      /\ Range(<<>>) = {}
  BY DEF ServerTypeOK, Range
<1>4. \A i \in Ident : Len(builds[i]) \in Nat
  BY <1>3, LenProperties
<1>5. CASE \A i \in Ident : /\ Len(builds'[i]) = Len(builds[i])
                            /\ \A n \in 1..Len(builds[i]) : builds'[i][n].causes = builds[i][n].causes
  <2>1. RanksTo(rank, b)'
    BY <1>2, <1>5 DEF RanksTo
  <2> QED BY <2>1 DEF Ranked
<1>6. ASSUME NEW id \in Ident, NEW new \in Build, Begins(id, new) PROVE Ranked'
  <2> DEFINE l == Len(builds[id]) + 1
  <2>0. PICK to : to = [rank EXCEPT ![<<id, l>>] = b]
    OBVIOUS
  <2>1. l \in Nat /\ <<id, l>> \in Ident \X Nat
    BY <1>4
  <2>2. to \in [Ident \X Nat -> Nat] /\ to[<<id, l>>] = b
    BY <2>0, <2>1
  <2>3. \A i \in Ident, n \in Nat : <<i, n>> # <<id, l>> => to[<<i, n>>] = rank[<<i, n>>]
    BY <2>0
  <2>4. ASSUME NEW i \in Ident, NEW n \in 1..Len(builds[i])
        PROVE  /\ n \in Nat /\ to[<<i, n>>] = rank[<<i, n>>] /\ rank[<<i, n>>] \in Nat
               /\ rank[<<i, n>>] < b /\ builds'[i][n] = builds[i][n]
    <3>1. n \in Nat /\ <<i, n>> \in Ident \X Nat
      BY <1>4
    <3>2. <<i, n>> # <<id, l>>
      BY <1>4
    <3>3. builds'[i][n] = builds[i][n]
      BY <1>6 DEF Begins
    <3> QED BY <1>2, <2>3, <3>1, <3>2, <3>3 DEF RanksTo
  <2>5. ASSUME NEW i \in Ident, NEW c, Triggers(c, i), c \in Cause
        PROVE  to[c] = rank[c] /\ rank[c] < b /\ rank[c] \in Nat
    <3>1. c = <<c[1], c[2]>> /\ c[1] \in Ident /\ c[2] \in 1..Len(builds[c[1]])
      BY <2>5 DEF Triggers, Over, Cause
    <3> QED BY <2>4, <3>1
  <2>6. ASSUME NEW i \in Ident, NEW n \in 1..Len(builds[i]), NEW c \in Range(builds[i][n].causes)
        PROVE  Triggers(c, i) /\ c \in Cause
    <3>1. builds[i][n].causes \in Seq(Cause)
      BY CausesType
    <3>2. c \in Cause
      BY <3>1, RangeOfSeq
    <3> QED BY <3>2 DEF CausesOver
  <2>7. ASSUME NEW c \in Range(queued[id]) PROVE Triggers(c, id) /\ c \in Cause
    <3>1. c \in Cause
      BY <1>3, RangeOfSeq
    <3> QED BY <3>1 DEF CausesOver
  <2>8. ASSUME NEW i \in Ident, NEW n \in 1..Len(builds'[i]), n \notin 1..Len(builds[i])
        PROVE  i = id /\ n = l /\ builds'[i][n] = new
    BY <1>4, <1>6, <2>8 DEF Begins
  <2>9. Range(new.causes) \subseteq Range(queued[id])
    BY <1>3, <1>6 DEF Begins
  <2> HIDE DEF l
  <2>10. ASSUME NEW i \in Ident, NEW n \in 1..Len(builds'[i])
         PROVE  /\ to[<<i, n>>] < b + 1
                /\ \A c \in Range(builds'[i][n].causes) : to[c] < to[<<i, n>>]
    <3>1. CASE n \in 1..Len(builds[i])
      <4>1. /\ to[<<i, n>>] = rank[<<i, n>>] /\ rank[<<i, n>>] < b /\ rank[<<i, n>>] \in Nat
            /\ builds'[i][n] = builds[i][n]
        BY <2>4, <3>1
      <4>2. ASSUME NEW c \in Range(builds[i][n].causes) PROVE to[c] < to[<<i, n>>]
        <5>1. rank[c] < rank[<<i, n>>]
          BY <1>2, <3>1 DEF RanksTo
        <5>2. to[c] = rank[c]
          BY <2>5, <2>6, <3>1
        <5> QED BY <4>1, <5>1, <5>2
      <4>3. Range(builds'[i][n].causes) = Range(builds[i][n].causes)
        BY <4>1
      <4>4. b \in Nat /\ to[<<i, n>>] < b + 1
        BY <4>1
      <4> QED BY <4>2, <4>3, <4>4
    <3>2. CASE n \notin 1..Len(builds[i])
      <4>1. i = id /\ n = l /\ builds'[i][n] = new
        BY <2>8, <3>2
      <4>2. ASSUME NEW c \in Range(new.causes) PROVE to[c] < b
        <5>1. c \in Range(queued[id])
          BY <2>9
        <5> QED BY <2>5, <2>7, <5>1
      <4>3. to[<<i, n>>] = b /\ b \in Nat /\ b < b + 1
        BY <2>2, <4>1
      <4>4. Range(builds'[i][n].causes) = Range(new.causes)
        BY <4>1
      <4> QED BY <4>2, <4>3, <4>4
    <3> QED BY <3>1, <3>2
  <2>11. RanksTo(to, b + 1)'
    BY <2>10 DEF RanksTo
  <2>12. b + 1 \in Nat
    OBVIOUS
  <2> QED BY <2>2, <2>11, <2>12 DEF Ranked
<1>7. \/ \A i \in Ident : /\ Len(builds'[i]) = Len(builds[i])
                           /\ \A n \in 1..Len(builds[i]) : builds'[i][n].causes = builds[i][n].causes
      \/ \E id \in Ident, new \in Build : Begins(id, new)
  <2>1. CASE UNCHANGED <<builds, queued>>
    BY <2>1
  <2>2. ASSUME NEW id \in Ident, NEW n \in 1..Len(builds[id]), NEW r \in Results, Ends(id, n, r)
        PROVE  \A i \in Ident : /\ Len(builds'[i]) = Len(builds[i])
                                /\ \A k \in 1..Len(builds[i]) : builds'[i][k].causes = builds[i][k].causes
    BY <2>2 DEF Ends
  <2> QED BY <2>1, <2>2, ServerMoves
<1> QED BY <1>5, <1>6, <1>7

LEMMA HistoryInit == Init => History0
<1> SUFFICES ASSUME Init PROVE History0
  OBVIOUS
<1>1. Range(<<>>) = {} /\ DOMAIN <<>> = {}
  BY DEF Range
<1>2. ASSUME NEW id \in Ident
      PROVE  /\ \A n \in 1..Len(builds[id]) :
                   /\ builds[id][n].causes = <<>>
                   /\ builds[id][n].result = "running" => id = RootIdent /\ n = RootNumber
             /\ id = RootIdent => RootNumber \in 1..Len(builds[id])
             /\ queued[id] = <<>>
  <2> DEFINE b(k) == NewBuild(<<>>, IF k <= History[id] THEN EndResult ELSE "running")
             l == History[id] + (IF id = RootIdent THEN 1 ELSE 0)
  <2>1. builds[id] = [k \in 1..l |-> b(k)] /\ queued[id] = <<>> /\ l \in Nat /\ History[id] \in Nat
    BY ServerAssumption DEF Init, ServerInit
  <2>2. EndResult # "running"
    BY EndResultType, ServerAssumption
  <2>3. \A k : b(k).causes = <<>> /\ (b(k).result = "running" => ~(k <= History[id]))
    BY <2>2 DEF NewBuild
  <2> HIDE DEF b
  <2>4. Len(builds[id]) = l
    BY <2>1
  <2>5. ASSUME NEW n \in 1..Len(builds[id])
        PROVE  /\ builds[id][n].causes = <<>>
               /\ builds[id][n].result = "running" => id = RootIdent /\ n = RootNumber
    <3>1. builds[id][n] = b(n) /\ n \in 1..l
      BY <2>1, <2>4
    <3> QED BY <2>1, <2>3, <3>1 DEF RootNumber
  <2> QED BY <2>1, <2>4, <2>5 DEF RootNumber
<1>3. CausesOver /\ CausesOnce
  BY <1>1, <1>2 DEF CausesOver, CausesOnce, OnceAt, Apart, Single
<1>4. RootCaused
  BY <1>2, ServerAssumption DEF RootCaused
<1>5. RunningWanted
  BY <1>2 DEF RunningWanted, Wanted
<1>6. Ranked
  <2> DEFINE rank == [c \in Ident \X Nat |-> 0]
  <2>1. \A id \in Ident : Len(builds[id]) \in Nat
    BY InitType, LenProperties DEF TypeInv, ServerTypeOK
  <2>2. \A id \in Ident : \A n \in 1..Len(builds[id]) : rank[<<id, n>>] < 1
    BY <2>1
  <2>3. rank \in [Ident \X Nat -> Nat]
    OBVIOUS
  <2> HIDE DEF rank
  <2>4. RanksTo(rank, 1)
    BY <1>1, <1>2, <2>2 DEF RanksTo
  <2> QED BY <2>3, <2>4 DEF Ranked
<1> QED BY <1>3, <1>4, <1>5, <1>6 DEF History0

LEMMA HistoryNext ==
  ASSUME TypeInv, History0, [Next]_vars
  PROVE  History0' /\ Extends
<1>1. ServerTypeOK
  BY DEF TypeInv
<1> QED BY <1>1, CausesOverNext, CausesOnceNext, RootCausedNext, RunningWantedNext, RankedNext,
           ServerExtends DEF History0

-----------------------------------------------------------------------------
(* Who shares a build: the child of the job that follows one of its causes. *)
Lost == {"Joined", "Cut"}

Shares(k, id, n) ==
  /\ k \in Job \ {Root} /\ k \in Tracked /\ IdentOf[k] = id
  /\ ParentOf(k) \in Tracked /\ state[ParentOf(k)] \in Ran
  /\ ChildOf(ParentOf(k), id) = k
  /\ n \in 1..Len(builds[id]) /\ ParentCause(k) \in Range(builds[id][n].causes)

Earlier(id, n, q, p) ==
  \E x, y \in DOMAIN builds[id][n].causes :
    /\ x < y
    /\ builds[id][n].causes[x] = ParentCause(q) /\ builds[id][n].causes[y] = ParentCause(p)

(* Of two jobs that share a build, the one that follows it comes first, or  *)
(* else the one whose cause does.                                           *)
Ahead(q, p, n) ==
  /\ q # p /\ Shares(q, IdentOf[p], n) /\ Shares(p, IdentOf[p], n)
  /\ number[q] = n \/ Earlier(IdentOf[p], n, q, p)

Numbered ==
  \A j \in Job \ {Root} :
    /\ number[j] # 0 => number[j] \in search[IdentOf[j]].found /\ Shares(j, IdentOf[j], number[j])
    /\ state[j] \in Ran => number[j] # 0

OneTracker ==
  \A j, k \in Job : IdentOf[j] = IdentOf[k] /\ number[j] = number[k] /\ number[j] # 0 => j = k

JoinedAhead ==
  \A p \in Job : state[p] = "Joined" =>
    joined[p] \in Job /\ \E n \in 1..Len(builds[IdentOf[p]]) : Ahead(joined[p], p, n)

(* Only the root, without console capture, is left to itself when queued.   *)
NeverQueued == \A j \in Job \ {Root} : state[j] # "Queued"

(* What the choice of a main job rests on.                                  *)
InOrder == Numbered /\ OneTracker /\ JoinedAhead /\ NeverQueued
Sound == TypeInv /\ CausesReal /\ JobsOK /\ CausesOnce /\ RootCaused

CauseKid(c, id) ==
  LET h == FindJob(c[1], c[2])
  IN  IF h # NoJob /\ state[h] \in Ran THEN ChildOf(h, id) ELSE NoJob
CauseKids(id, n) ==
  [i \in DOMAIN builds[id][n].causes |-> CauseKid(builds[id][n].causes[i], id)]

LEMMA CauseKidType ==
  ASSUME JobTypes, NEW c, NEW id
  PROVE  CauseKid(c, id) \in (Job \ {Root}) \cup {NoJob}
  BY FindJobType, ChildOfType DEF CauseKid

LEMMA CauseKidsType ==
  ASSUME ServerTypeOK, JobTypes, NEW id \in Ident, NEW n \in 1..Len(builds[id])
  PROVE  /\ CauseKids(id, n) \in Seq((Job \ {Root}) \cup {NoJob})
         /\ DOMAIN CauseKids(id, n) = DOMAIN builds[id][n].causes
         /\ \A i \in DOMAIN builds[id][n].causes :
              CauseKids(id, n)[i] = CauseKid(builds[id][n].causes[i], id)
         /\ builds[id][n].causes \in Seq(Cause)
         /\ \A i \in DOMAIN builds[id][n].causes : builds[id][n].causes[i] \in Cause
<1> DEFINE causes == builds[id][n].causes
<1>1. causes \in Seq(Cause) /\ DOMAIN causes = 1..Len(causes) /\ Len(causes) \in Nat
  BY CausesType, LenProperties
<1> HIDE DEF causes
<1>2. \A i \in 1..Len(causes) : CauseKid(causes[i], id) \in (Job \ {Root}) \cup {NoJob}
  BY CauseKidType
<1>3. CauseKids(id, n) = [i \in 1..Len(causes) |-> CauseKid(causes[i], id)]
  BY <1>1 DEF CauseKids, causes
<1>4. CauseKids(id, n) \in Seq((Job \ {Root}) \cup {NoJob})
  BY <1>1, <1>2, <1>3, IsASeq
<1>5. \A i \in DOMAIN causes : causes[i] \in Cause
  BY <1>1, ElementOfSeq
<1> QED BY <1>1, <1>3, <1>4, <1>5 DEF causes

LEMMA CausedKidsPick ==
  ASSUME ServerTypeOK, JobTypes, NEW id \in Ident, NEW n \in 1..Len(builds[id])
  PROVE  /\ Picks(CausedKids(id, n, Ran), CauseKids(id, n), Job)
         /\ Range(CausedKids(id, n, Ran)) = Range(CauseKids(id, n)) \cap Job
<1>1. CausedKids(id, n, Ran) = Among(CauseKids(id, n), Job)
  BY DEF CausedKids, CauseKids, CauseKid
<1> QED BY <1>1, CauseKidsType, AmongPicks, AmongRange

(* FindJob has one answer, so a job that shares the build is found.         *)
LEMMA FindJobOnly ==
  ASSUME JobTypes, OneTracker, NEW h \in Tracked, number[h] # 0
  PROVE  FindJob(IdentOf[h], number[h]) = h
<1> DEFINE Q == {j \in Job : IdentOf[j] = IdentOf[h] /\ number[j] = number[h]}
           s == Among(allJobs, Q)
<1>1. s \in Seq(Job) /\ Range(s) = Tracked \cap Q
  BY AmongRange DEF JobTypes, Tracked
<1>2. h \in Job
  BY RangeTracked
<1>3. h \in Range(s)
  BY <1>1, <1>2
<1>4. FindJob(IdentOf[h], number[h]) = FirstOr(s, NoJob)
  BY DEF FindJob
<1> HIDE DEF s
<1>5. s # <<>>
  BY <1>3 DEF Range
<1>6. s[1] \in Range(s)
  BY <1>1, <1>5, EmptySeq, LenProperties, RangeIsDomain
<1> QED BY <1>1, <1>2, <1>4, <1>5, <1>6 DEF FirstOr, OneTracker

LEMMA CauseKidShares ==
  ASSUME Sound, OneTracker, NEW id \in Ident, NEW n \in 1..Len(builds[id]),
         NEW i \in DOMAIN builds[id][n].causes, NEW k \in Job
  PROVE  CauseKid(builds[id][n].causes[i], id) = k
           <=> Shares(k, id, n) /\ ParentCause(k) = builds[id][n].causes[i]
<1> DEFINE c == builds[id][n].causes[i]
           h == FindJob(c[1], c[2])
<1>1. JobTypes /\ ServerTypeOK /\ NoJob \notin Job /\ Tracked \subseteq Job
  BY RangeTracked, TreeAssumption DEF Sound, TypeInv
<1>2. c \in Cause /\ c \in Range(builds[id][n].causes)
  BY <1>1, CauseKidsType, RangeIsDomain
<1>3. c = <<c[1], c[2]>> /\ c[2] # 0
  BY <1>2 DEF Cause, Sound, CausesReal
<1> HIDE DEF c
<1>4. ASSUME CauseKid(c, id) = k
      PROVE  Shares(k, id, n) /\ ParentCause(k) = c
  <2>1. h # NoJob /\ state[h] \in Ran /\ ChildOf(h, id) = k
    BY <1>1, <1>4 DEF CauseKid
  <2>2. h \in Tracked /\ h \in Job /\ IdentOf[h] = c[1] /\ number[h] = c[2]
    BY <1>1, <2>1, FindJobFacts
  <2> HIDE DEF h
  <2>3. k \in Range(Children(h)) /\ IdentOf[k] = id
    BY <1>1, <2>1, <2>2, ChildOfFacts
  <2>4. k \in Tracked /\ k \in Job \ {Root} /\ ParentOf(k) = h
    BY <1>1, <2>2, <2>3, ChildrenFacts
  <2>5. ParentCause(k) = c
    BY <1>3, <2>2, <2>4 DEF ParentCause
  <2> QED BY <1>2, <2>1, <2>2, <2>3, <2>4, <2>5 DEF Shares
<1>5. ASSUME Shares(k, id, n), ParentCause(k) = c
      PROVE  CauseKid(c, id) = k
  <2>1. /\ ParentOf(k) \in Tracked /\ state[ParentOf(k)] \in Ran /\ ChildOf(ParentOf(k), id) = k
        /\ c[1] = IdentOf[ParentOf(k)] /\ c[2] = number[ParentOf(k)]
    BY <1>5 DEF Shares, ParentCause
  <2>2. FindJob(c[1], c[2]) = ParentOf(k)
    BY <1>1, <1>3, <2>1, FindJobOnly
  <2> QED BY <1>1, <2>1, <2>2 DEF CauseKid
<1> QED BY <1>4, <1>5 DEF c

(* A job has a share in one build, by one of its causes.                    *)
LEMMA OneShare ==
  ASSUME CausesOnce, NEW id \in Ident, NEW k, NEW n, NEW m, Shares(k, id, n), Shares(k, id, m)
  PROVE  n = m
<1>1. /\ n \in 1..Len(builds[id]) /\ ParentCause(k) \in Range(builds[id][n].causes)
      /\ m \in 1..Len(builds[id]) /\ ParentCause(k) \in Range(builds[id][m].causes)
  BY DEF Shares
<1>2. \E x \in DOMAIN builds[id][n].causes, y \in DOMAIN builds[id][m].causes :
        builds[id][n].causes[x] = builds[id][m].causes[y]
  <2>1. PICK x \in DOMAIN builds[id][n].causes : builds[id][n].causes[x] = ParentCause(k)
    BY <1>1, RangeIsDomain
  <2>2. PICK y \in DOMAIN builds[id][m].causes : builds[id][m].causes[y] = ParentCause(k)
    BY <1>1, RangeIsDomain
  <2> QED BY <2>1, <2>2
<1> QED BY <1>1, <1>2 DEF CausesOnce, OnceAt, Apart

LEMMA OneCause ==
  ASSUME CausesOnce, NEW id \in Ident, NEW n \in 1..Len(builds[id]),
         NEW x \in DOMAIN builds[id][n].causes, NEW y \in DOMAIN builds[id][n].causes,
         builds[id][n].causes[x] = builds[id][n].causes[y]
  PROVE  x = y
  BY DEF CausesOnce, OnceAt, Single

(* A master that shares the build follows it.                               *)
LEMMA MasterFollows ==
  ASSUME Sound, InOrder, NEW id \in Ident, NEW n, NEW k, Shares(k, id, n)
  PROVE  IsMaster(k) <=> number[k] = n
<1>1. /\ k \in Job \ {Root} /\ IdentOf[k] = id /\ n \in 1..Len(builds[id])
      /\ Len(builds[id]) \in Nat
  BY LenProperties DEF Shares, Sound, TypeInv, ServerTypeOK
<1>2. ASSUME IsMaster(k) PROVE number[k] = n
  <2>1. state[k] \in Ran
    BY <1>2 DEF IsMaster, Ran, Running
  <2>2. Shares(k, id, number[k])
    BY <1>1, <2>1 DEF InOrder, Numbered
  <2> QED BY <2>2, OneShare DEF Sound
<1>3. ASSUME number[k] = n PROVE IsMaster(k)
  <2>1. number[k] # 0
    BY <1>1, <1>3
  <2>2. state[k] \in Ran /\ state[k] # "Downloading" /\ state[k] # "Queued"
    BY <1>1, <2>1 DEF Sound, JobsOK, JobOK, InOrder, NeverQueued
  <2> QED BY <2>2 DEF IsMaster, Ran, Running
<1> QED BY <1>2, <1>3

(* The place of each job that shares a build among its causes. *)
LEMMA SharePlaces ==
  ASSUME Sound, OneTracker, NEW id \in Ident, NEW n \in 1..Len(builds[id])
  PROVE  /\ \A x \in DOMAIN CauseKids(id, n) : CauseKids(id, n)[x] \in Job =>
              /\ Shares(CauseKids(id, n)[x], id, n)
              /\ ParentCause(CauseKids(id, n)[x]) = builds[id][n].causes[x]
         /\ \A k : Shares(k, id, n) => \E x \in DOMAIN CauseKids(id, n) : CauseKids(id, n)[x] = k
         /\ \A x, y \in DOMAIN CauseKids(id, n) :
              CauseKids(id, n)[x] \in Job /\ CauseKids(id, n)[x] = CauseKids(id, n)[y] => x = y
<1> DEFINE ks == CauseKids(id, n)
           cs == builds[id][n].causes
<1>1. DOMAIN ks = DOMAIN cs /\ \A i \in DOMAIN cs : ks[i] = CauseKid(cs[i], id)
  BY CauseKidsType DEF Sound, TypeInv
<1>2. \A x \in DOMAIN cs, k \in Job :
        CauseKid(cs[x], id) = k <=> Shares(k, id, n) /\ ParentCause(k) = cs[x]
  BY CauseKidShares
<1>3. \A x, y \in DOMAIN cs : cs[x] = cs[y] => x = y
  BY OneCause DEF Sound
<1>4. \A k : Shares(k, id, n) => k \in Job /\ \E x \in DOMAIN cs : cs[x] = ParentCause(k)
  BY RangeIsDomain DEF Shares
<1> HIDE DEF ks, cs
<1>5. \A x \in DOMAIN ks : ks[x] \in Job => Shares(ks[x], id, n) /\ ParentCause(ks[x]) = cs[x]
  BY <1>1, <1>2
<1>6. \A k : Shares(k, id, n) => \E x \in DOMAIN ks : ks[x] = k
  BY <1>1, <1>2, <1>4
<1>7. \A x, y \in DOMAIN ks : ks[x] \in Job /\ ks[x] = ks[y] => x = y
  BY <1>1, <1>3, <1>5
<1> QED BY <1>5, <1>6, <1>7 DEF ks, cs

LEMMA MastersPick ==
  ASSUME Sound, NEW id \in Ident, NEW n \in 1..Len(builds[id])
  PROVE  /\ Masters(id, n) \in Seq(Job \ {Root}) /\ Potential(id, n) \in Seq(Job \ {Root})
         /\ Picks(Masters(id, n), CauseKids(id, n), {j \in Job : IsMaster(j)})
         /\ Picks(Potential(id, n), CauseKids(id, n), {j \in Job : ~IsMaster(j)})
<1> DEFINE t == CausedKids(id, n, Ran)
           M == {j \in Job : IsMaster(j)}
           P == {j \in Job : ~IsMaster(j)}
<1>1. t \in Seq(Job \ {Root}) /\ Picks(t, CauseKids(id, n), Job)
  BY CausedKidsType, CausedKidsPick DEF Sound, TypeInv
<1> HIDE DEF t
<1>2. /\ Among(t, M) \in Seq(Job \ {Root}) /\ Among(t, P) \in Seq(Job \ {Root})
      /\ Picks(Among(t, M), t, M) /\ Picks(Among(t, P), t, P)
  BY <1>1, AmongRange, AmongPicks
<1>3. Job \cap M = M /\ Job \cap P = P
  OBVIOUS
<1>4. Masters(id, n) = Among(t, M) /\ Potential(id, n) = Among(t, P)
  BY DEF Masters, Potential, t
<1> HIDE DEF M, P
<1>5. Picks(Among(t, M), CauseKids(id, n), M) /\ Picks(Among(t, P), CauseKids(id, n), P)
  BY <1>1, <1>2, <1>3, PicksTwice
<1> QED BY <1>2, <1>4, <1>5 DEF M, P

(* No two masters share a build. *)
LEMMA NeverAmbiguous ==
  ASSUME Sound, InOrder, NEW id \in Ident, NEW n \in 1..Len(builds[id])
  PROVE  ~Ambiguous(id, n)
<1> SUFFICES ASSUME Ambiguous(id, n) PROVE FALSE
  OBVIOUS
<1> DEFINE ks == CauseKids(id, n)
           M == {j \in Job : IsMaster(j)}
           t == Masters(id, n)
<1>1. /\ ks \in Seq((Job \ {Root}) \cup {NoJob}) /\ t \in Seq(Job \ {Root})
      /\ Picks(t, ks, M) /\ Len(t) > 1
  BY CauseKidsType, MastersPick DEF Ambiguous, Sound, TypeInv
<1>2. /\ \A x \in DOMAIN ks : ks[x] \in Job => Shares(ks[x], id, n)
      /\ \A x, y \in DOMAIN ks : ks[x] \in Job /\ ks[x] = ks[y] => x = y
      /\ DOMAIN ks \subseteq Nat
  BY SharePlaces, <1>1, LenProperties DEF InOrder
<1> HIDE DEF ks, t
<1>3. PICK x, y \in DOMAIN ks : x < y /\ ks[x] \in M /\ ks[y] \in M
  BY <1>1, PicksFirst
<1>4. ks[x] \in Job /\ IsMaster(ks[x]) /\ ks[y] \in Job /\ IsMaster(ks[y])
  BY <1>3
<1> DEFINE j == ks[x]
           k == ks[y]
<1>5. number[ks[x]] = n /\ number[ks[y]] = n /\ IdentOf[ks[x]] = id /\ IdentOf[ks[y]] = id
  <2>1. Shares(j, id, n) /\ Shares(k, id, n) /\ IsMaster(j) /\ IsMaster(k)
    BY <1>2, <1>4
  <2> HIDE DEF j, k
  <2>2. number[j] = n /\ number[k] = n
    BY <2>1, MasterFollows
  <2>3. IdentOf[j] = id /\ IdentOf[k] = id
    BY <2>1 DEF Shares
  <2> QED BY <2>2, <2>3 DEF j, k
<1>6. n # 0
  BY LenProperties DEF Sound, TypeInv, ServerTypeOK
<1>7. ks[x] = ks[y]
  BY <1>4, <1>5, <1>6 DEF InOrder, OneTracker
<1> QED BY <1>2, <1>3, <1>4, <1>7

(* DetermineMainJob: of the jobs that share a build, it takes the one all   *)
(* the others come after, and that one is neither joined nor cut.           *)
LEMMA MainChoice ==
  ASSUME Sound, InOrder, NEW id \in Ident, NEW n \in 1..Len(builds[id])
  PROVE  /\ (\E k : Shares(k, id, n)) => MainJob(id, n) # NoJob
         /\ MainJob(id, n) # NoJob =>
              /\ Shares(MainJob(id, n), id, n)
              /\ state[MainJob(id, n)] \notin Lost
              /\ \A k : Shares(k, id, n) /\ k # MainJob(id, n) =>
                   Ahead(MainJob(id, n), k, n) /\ number[k] # n
<1> DEFINE ks == CauseKids(id, n)
           cs == builds[id][n].causes
           M == {j \in Job : IsMaster(j)}
           P == {j \in Job : ~IsMaster(j)}
           t == Masters(id, n)
           u == Potential(id, n)
           m == MainJob(id, n)
<1>1. /\ ks \in Seq((Job \ {Root}) \cup {NoJob}) /\ t \in Seq(Job \ {Root}) /\ u \in Seq(Job \ {Root})
      /\ Picks(t, ks, M) /\ Picks(u, ks, P) /\ DOMAIN ks = DOMAIN cs /\ NoJob \notin Job
  BY CauseKidsType, MastersPick, TreeAssumption DEF Sound, TypeInv
<1>2. /\ \A x \in DOMAIN ks : ks[x] \in Job => Shares(ks[x], id, n) /\ ParentCause(ks[x]) = cs[x]
      /\ \A k : Shares(k, id, n) => \E x \in DOMAIN ks : ks[x] = k
      /\ \A x, y \in DOMAIN ks : ks[x] \in Job /\ ks[x] = ks[y] => x = y
      /\ DOMAIN ks \subseteq Nat
  BY SharePlaces, <1>1, LenProperties DEF InOrder
<1>3. m = IF t # <<>> THEN t[1] ELSE IF u # <<>> THEN u[1] ELSE NoJob
  <2>1. m = FirstOr(t \o u, NoJob)
    BY DEF MainJob, Candidates
  <2>2. CASE t # <<>>
    <3>1. (t \o u)[1] = t[1] /\ t \o u # <<>>
      BY <1>1, <2>2, EmptySeq, LenProperties
    <3> QED BY <2>1, <2>2, <3>1 DEF FirstOr
  <2>3. CASE t = <<>>
    <3>1. t \o u = u
      BY <1>1, <2>3, LenProperties, EmptySeq
    <3> QED BY <2>1, <2>3, <3>1 DEF FirstOr
  <2> QED BY <2>2, <2>3
<1>4. \A k : Shares(k, id, n) => k \in Job /\ IdentOf[k] = id /\ (IsMaster(k) <=> number[k] = n)
  BY MasterFollows DEF Shares
<1> HIDE DEF ks, cs, t, u, m
<1>5. t = <<>> <=> \A x \in DOMAIN ks : ks[x] \notin M
  BY <1>1, PicksFirst
<1>6. u = <<>> <=> \A x \in DOMAIN ks : ks[x] \notin P
  BY <1>1, PicksFirst
<1>7. (\E k : Shares(k, id, n)) => m # NoJob
  <2> SUFFICES ASSUME NEW k, Shares(k, id, n) PROVE m # NoJob
    OBVIOUS
  <2>1. PICK x \in DOMAIN ks : ks[x] = k
    BY <1>2
  <2>2. k \in M \/ k \in P
    BY <1>4
  <2>3. t # <<>> \/ u # <<>>
    BY <1>5, <1>6, <2>1, <2>2
  <2>4. (t # <<>> => t[1] \in Job) /\ (u # <<>> => u[1] \in Job)
    BY <1>1, EmptySeq, LenProperties
  <2> QED BY <1>1, <1>3, <2>3, <2>4
<1>8. ASSUME t # <<>>
      PROVE  /\ Shares(m, id, n) /\ state[m] \notin Lost
             /\ \A k : Shares(k, id, n) /\ k # m => Ahead(m, k, n) /\ number[k] # n
  <2>1. PICK x \in DOMAIN ks : ks[x] = t[1] /\ ks[x] \in M
    BY <1>1, <1>8, PicksFirst
  <2>2. m = ks[x] /\ m \in Job /\ IsMaster(m)
    BY <1>3, <1>8, <2>1
  <2>3. Shares(m, id, n) /\ number[m] = n
    BY <1>2, <1>4, <2>2
  <2>4. state[m] \notin Lost
    BY <2>2 DEF IsMaster, Lost
  <2>5. n # 0
    BY LenProperties DEF Sound, TypeInv, ServerTypeOK
  <2>6. ASSUME NEW k, Shares(k, id, n), k # m PROVE Ahead(m, k, n) /\ number[k] # n
    <3>1. number[k] # n
      BY <1>4, <2>3, <2>5, <2>6 DEF InOrder, OneTracker
    <3> QED BY <1>4, <2>3, <2>6, <3>1 DEF Ahead
  <2> QED BY <2>3, <2>4, <2>6
<1>9. ASSUME t = <<>>, u # <<>>
      PROVE  /\ Shares(m, id, n) /\ state[m] \notin Lost
             /\ \A k : Shares(k, id, n) /\ k # m => Ahead(m, k, n) /\ number[k] # n
  <2>1. PICK x \in DOMAIN ks : /\ ks[x] = u[1] /\ ks[x] \in P
                               /\ \A y \in DOMAIN ks : ks[y] \in P => x <= y
    BY <1>1, <1>9, PicksFirst
  <2>2. m = ks[x] /\ m \in Job
    BY <1>3, <1>9, <2>1
  <2>3. Shares(m, id, n) /\ ParentCause(m) = cs[x] /\ IdentOf[m] = id /\ m \in Job \ {Root}
    BY <1>2, <2>2 DEF Shares
  <2>4. ASSUME NEW k, Shares(k, id, n)
        PROVE  /\ number[k] # n
               /\ \E y \in DOMAIN ks : ks[y] = k /\ x <= y /\ ParentCause(k) = cs[y]
    <3>1. PICK y \in DOMAIN ks : ks[y] = k
      BY <1>2, <2>4
    <3>2. k \in P
      BY <1>4, <1>5, <1>9, <2>4, <3>1
    <3> QED BY <1>2, <1>4, <2>1, <2>4, <3>1, <3>2
  <2>5. ASSUME NEW k, Shares(k, id, n), k # m PROVE Ahead(m, k, n)
    <3>1. PICK y \in DOMAIN ks : ks[y] = k /\ x <= y /\ ParentCause(k) = cs[y]
      BY <2>4, <2>5
    <3>2. x < y
      BY <1>2, <2>2, <2>5, <3>1
    <3>3. Earlier(id, n, m, k)
      BY <1>1, <2>3, <3>1, <3>2 DEF Earlier, cs
    <3> QED BY <1>4, <2>3, <2>5, <3>3 DEF Ahead
  <2>6. ASSUME state[m] = "Joined" PROVE FALSE
    <3>1. PICK i \in 1..Len(builds[id]) : Ahead(joined[m], m, i)
      BY <2>3, <2>6 DEF InOrder, JoinedAhead
    <3>2. Shares(joined[m], id, i) /\ Shares(m, id, i) /\ joined[m] # m
      BY <2>3, <3>1 DEF Ahead
    <3>3. i = n
      BY <2>3, <3>2, OneShare DEF Sound
    <3>4. number[joined[m]] = n \/ Earlier(id, n, joined[m], m)
      BY <2>3, <3>1, <3>3 DEF Ahead
    <3>5. PICK y \in DOMAIN ks : ks[y] = joined[m] /\ x <= y /\ ParentCause(joined[m]) = cs[y]
      BY <2>4, <3>2, <3>3
    <3>6. Earlier(id, n, joined[m], m)
      BY <2>4, <3>2, <3>3, <3>4
    <3>7. PICK a, b \in DOMAIN cs : a < b /\ cs[a] = ParentCause(joined[m]) /\ cs[b] = ParentCause(m)
      BY <3>6 DEF Earlier, cs
    <3>8. a = y /\ b = x
      BY <1>1, <2>3, <3>5, <3>7, OneCause DEF Sound, cs
    <3> QED BY <1>2, <3>5, <3>7, <3>8
  <2>7. state[m] # "Cut"
    <3>1. state[ParentOf(m)] \in Ran
      BY <2>3 DEF Shares
    <3>2. state[m] = "Cut" => state[ParentOf(m)] \in {"Joined", "Cut"}
      BY <2>3 DEF Sound, JobsOK, JobOK, Below
    <3> QED BY <3>1, <3>2 DEF Ran, Running
  <2> QED BY <2>3, <2>4, <2>5, <2>6, <2>7 DEF Lost
<1>10. m # NoJob => t # <<>> \/ u # <<>>
  BY <1>3
<1> QED BY <1>7, <1>8, <1>9, <1>10 DEF m

-----------------------------------------------------------------------------
(* The tree of jobs grows from its leaves: a job that is not created or not *)
(* initialised has no children yet.                                         *)
Childless(j) == \A k \in Job \ {Root} : ParentOf(k) = j => k \notin Tracked

TreeGrows ==
  /\ \A j \in Job : work[j] \in {"init", "then"} \/ j \notin Tracked => Childless(j)
  /\ \A j \in Job \ {Root} : j \in Tracked => ParentOf(j) \in Tracked /\ ParentOf(j) # j
  /\ \A j \in Job : j \notin Tracked => work[j] = "idle"
  /\ \A j \in Job : work[j] = "timer" => state[j] \in Ran

NewKids(j) == IF opts.pipeline THEN Kids[j] ELSE <<>>

LEMMA NewKidsFacts ==
  ASSUME NEW j \in Job
  PROVE  /\ NewKids(j) \in Seq(Job)
         /\ \A k \in Range(NewKids(j)) : k \in Job \ {Root} /\ ParentOf(k) = j
<1>1. Range(<<>>) = {}
  BY DEF Range
<1>2. NewKids(j) \in Seq(Job) /\ (NewKids(j) = Kids[j] \/ Range(NewKids(j)) = {})
  BY <1>1, TreeAssumption, EmptySeq DEF NewKids
<1> QED BY <1>2, ParentOfKid

(* What the continuation of a job's initialisation does.                    *)
Expands(j) ==
  /\ Tracked' = Tracked \cup Range(NewKids(j))
  /\ work' = [k \in Job |->
                IF k = j THEN "busy"
                ELSE IF k \in Range(NewKids(j))
                THEN IF search[IdentOf[k]].ready THEN "then" ELSE "init"
                ELSE work[k]]
  /\ todo' = <<Call("Resolve", j), Call("InitEnd", j)>>

LEMMA InitThenFacts ==
  ASSUME TypeInv, NEW j \in Job, InitThen(j)
  PROVE  /\ j \in Tracked /\ work[j] = "then" /\ todo = <<>> /\ Range(NewKids(j)) \subseteq Job
         /\ UNCHANGED <<state, number, joined, builds, queued, result, opts, interval, complete,
                        summary, faults, verdicts, exited>>
         /\ \/ StayIdle(j) /\ ~search[IdentOf[j]].ready
            \/ Expands(j) /\ search[IdentOf[j]].ready
<1> USE DEF TypeInv
<1>1. /\ todo = <<>>
      /\ UNCHANGED <<state, number, joined, builds, queued, result, opts, interval, complete,
                     summary, faults, verdicts, exited>>
  BY DEF InitThen, Idle, StayIdle, serverVars, queueVars, outVars
<1>2. j \in Tracked /\ work[j] = "then"
  <2> DEFINE ready == {k \in Job : work[k] = "then"}
             s == Among(allJobs, ready)
  <2>1. s \in Seq(Job) /\ Range(s) = Tracked \cap ready
    BY AmongRange DEF JobTypes, Tracked
  <2>2. j = FirstOr(s, NoJob)
    BY DEF InitThen
  <2> HIDE DEF s
  <2>3. FirstOr(s, NoJob) # NoJob
    BY <2>2, TreeAssumption
  <2> QED BY <2>1, <2>2, <2>3, FirstOrFacts
<1>3. NewKids(j) \in Seq(Job) /\ Range(NewKids(j)) \subseteq Job
  BY NewKidsFacts
<1>4. \/ StayIdle(j) /\ ~search[IdentOf[j]].ready
      \/ /\ allJobs' = allJobs \o NewKids(j)
         /\ work' = [k \in Job |->
                       IF k = j THEN "busy"
                       ELSE IF k \in Range(NewKids(j))
                       THEN IF search[IdentOf[k]].ready THEN "then" ELSE "init"
                       ELSE work[k]]
         /\ todo' = <<Call("Resolve", j), Call("InitEnd", j)>>
         /\ search[IdentOf[j]].ready
  BY DEF InitThen, NewKids
<1>5. allJobs' = allJobs \o NewKids(j) => Tracked' = Tracked \cup Range(NewKids(j))
  BY <1>3, RangeConcatenation DEF Tracked, JobTypes
<1> QED BY <1>1, <1>2, <1>3, <1>4, <1>5 DEF Expands

(* No other step creates jobs. *)
LEMMA OthersCreate ==
  ASSUME [Next]_vars, \A j \in Job : ~InitThen(j)
  PROVE  UNCHANGED allJobs
<1>1. ASSUME NEW f, \/ Resolve(f) \/ SetStreaming(f) \/ SetFinishing(f)
                    \/ JoinOthersToMe(f) \/ SetJoined(f) \/ Cut(f)
                    \/ EndInitialize(f) \/ Decide(f) \/ Advance(f)
      PROVE  UNCHANGED allJobs
  BY <1>1 DEF Resolve, SetStreaming, SetFinishing, JoinOthersToMe, SetJoined, Cut,
       EndInitialize, Decide, Advance, jobVars
<1>2. CASE Continue
  BY <1>1, <1>2 DEF Continue
<1>3. ASSUME NEW j \in Job, JobStep(j) PROVE UNCHANGED allJobs
  BY <1>3 DEF JobStep, InitResponse, JobTimer, StreamResponse, FinishResponse, DownloadResponse,
       StayIdle, StopWork, Wait
<1>4. ASSUME NEW id \in Ident, SearchStep(id) PROVE UNCHANGED allJobs
  BY <1>4 DEF SearchStep, CtorResponse, SearchTimer, LocateResponse, jobVars
<1>5. CASE Tick \/ SummaryStep \/ Server \/ UNCHANGED vars
  BY <1>5 DEF Tick, SummaryStep, IsPipelineResponse, ReportResponse, Summarize, WriteFile, Server,
       ServerProgress, ServerDoes, jobVars, vars
<1> QED BY <1>2, <1>3, <1>4, <1>5 DEF Next

(* A job that has a child keeps its children. *)
LEMMA Growth ==
  ASSUME TypeInv, TreeGrows, [Next]_vars
  PROVE  /\ Tracked \subseteq Tracked'
         /\ \A k \in Job \ {Root} : k \in Tracked => Children(ParentOf(k))' = Children(ParentOf(k))
<1>1. CASE UNCHANGED allJobs
  BY <1>1 DEF Tracked, Children
<1>2. ASSUME NEW j \in Job, InitThen(j), Expands(j)
      PROVE  /\ Tracked \subseteq Tracked'
             /\ \A k \in Job \ {Root} : k \in Tracked => Children(ParentOf(k))' = Children(ParentOf(k))
  <2>1. Tracked' = Tracked \cup Range(NewKids(j)) /\ work[j] = "then"
    BY <1>2, InitThenFacts DEF Expands
  <2>2. ASSUME NEW k \in Job \ {Root}, k \in Tracked
        PROVE  Children(ParentOf(k))' = Children(ParentOf(k))
    <3> DEFINE p == ParentOf(k)
    <3>1. p \in Job /\ Kids[p] \in Seq(Job) /\ p # j
      BY <2>1, <2>2, ParentIsJob, TreeAssumption DEF TreeGrows, Childless
    <3>2. Range(Kids[p]) \cap Range(NewKids(j)) = {}
      BY <3>1, ParentOfKid, NewKidsFacts
    <3> HIDE DEF p
    <3>3. Range(Kids[p]) \cap Tracked' = Range(Kids[p]) \cap Tracked
      BY <2>1, <3>2
    <3>4. Among(Kids[p], Tracked') = Among(Kids[p], Tracked)
      BY <3>1, <3>3, AmongSame
    <3> QED BY <3>4 DEF Children, p
  <2> QED BY <2>1, <2>2
<1>3. ASSUME NEW j \in Job, InitThen(j), StayIdle(j) PROVE UNCHANGED allJobs
  BY <1>3 DEF StayIdle
<1> QED BY <1>1, <1>2, <1>3, InitThenFacts, OthersCreate

-----------------------------------------------------------------------------
(* What a step takes from nobody.                                           *)
Lasting ==
  /\ \A id \in Ident : \A n, k : Shares(k, id, n) => Shares(k, id, n)' /\ ParentCause(k)' = ParentCause(k)
  /\ \A k \in Job : number[k] # 0 => number'[k] = number[k]
  /\ \A p \in Job : \A q, n : Ahead(q, p, n) => Ahead(q, p, n)'
  /\ \A k \in Job : state[k] = "Done" => result'[k] = result[k]
  /\ FoundGrows
  /\ Extends
  /\ Tracked \subseteq Tracked'
  /\ opts'.console => opts.console
  /\ opts'.pipeline => opts.pipeline

LEMMA RanStays ==
  ASSUME JobTypes, Moves, NEW j \in Job, state[j] \in Ran
  PROVE  state'[j] \in Ran
  BY ValidFacts DEF Moves, Move, JobTypes

LEMMA OptionsFall ==
  ASSUME [Next]_vars
  PROVE  (opts'.console => opts.console) /\ (opts'.pipeline => opts.pipeline)
<1>1. UNCHANGED opts \/ opts' = [console |-> FALSE, pipeline |-> FALSE, shouldFail |-> TRUE]
  BY DEF Next, vars, queueVars, Continue, Tick, JobStep, InitResponse, InitThen, JobTimer,
         StreamResponse, FinishResponse, DownloadResponse, SearchStep, CtorResponse, SearchTimer,
         LocateResponse, SummaryStep, IsPipelineResponse, ReportResponse, Summarize, WriteFile,
         Server, ServerProgress, ServerDoes
<1> QED BY <1>1

LEMMA Lasts ==
  ASSUME TypeInv, CausesReal, JobsOK, TreeGrows, Moves, Extends, [Next]_vars
  PROVE  Lasting
<1>1. KInv
  BY DEF KInv, FinishBusy, Unnumbered, JobsOK, JobOK, Unresolved, Ran, Running
<1>2. Kept
  BY <1>1, KInvNext
<1>3. /\ Tracked \subseteq Tracked'
      /\ \A k \in Job \ {Root} : k \in Tracked => Children(ParentOf(k))' = Children(ParentOf(k))
  BY Growth
<1>4. ASSUME NEW id \in Ident, NEW n, NEW k, Shares(k, id, n)
      PROVE  Shares(k, id, n)' /\ ParentCause(k)' = ParentCause(k)
  <2>1. /\ k \in Job \ {Root} /\ k \in Tracked /\ IdentOf[k] = id
        /\ ParentOf(k) \in Tracked /\ state[ParentOf(k)] \in Ran
        /\ ChildOf(ParentOf(k), id) = k
        /\ n \in 1..Len(builds[id]) /\ ParentCause(k) \in Range(builds[id][n].causes)
        /\ ParentOf(k) \in Job
    BY <1>4, ParentIsJob DEF Shares
  <2>2. number[ParentOf(k)] # 0
    BY <2>1 DEF CausesReal, ParentCause
  <2>3. ParentCause(k)' = ParentCause(k)
    BY <1>2, <2>1, <2>2 DEF ParentCause, Kept
  <2>4. state'[ParentOf(k)] \in Ran
    BY <2>1, RanStays DEF TypeInv
  <2>5. ChildOf(ParentOf(k), id)' = k
    BY <1>3, <2>1 DEF ChildOf
  <2>6. n \in 1..Len(builds'[id]) /\ builds'[id][n].causes = builds[id][n].causes
    BY <2>1 DEF Extends, ExtendsAt
  <2> QED BY <1>3, <2>1, <2>3, <2>4, <2>5, <2>6 DEF Shares
<1>5. ASSUME NEW p \in Job, NEW q, NEW n, Ahead(q, p, n) PROVE Ahead(q, p, n)'
  <2> DEFINE id == IdentOf[p]
  <2>1. /\ q # p /\ Shares(q, id, n) /\ Shares(p, id, n) /\ id \in Ident
        /\ number[q] = n \/ Earlier(id, n, q, p)
    BY <1>5, TreeAssumption DEF Ahead
  <2> HIDE DEF id
  <2>2. /\ Shares(q, id, n)' /\ Shares(p, id, n)'
        /\ ParentCause(q)' = ParentCause(q) /\ ParentCause(p)' = ParentCause(p)
    BY <1>4, <2>1
  <2>3. n \in 1..Len(builds[id]) /\ n # 0 /\ q \in Job
    BY <2>1, LenProperties DEF Shares, TypeInv, ServerTypeOK
  <2>4. number[q] = n => number'[q] = n
    BY <1>2, <2>3 DEF Kept
  <2>5. builds'[id][n].causes = builds[id][n].causes
    BY <2>1, <2>3 DEF Extends, ExtendsAt
  <2>6. Earlier(id, n, q, p) => Earlier(id, n, q, p)'
    BY <2>2, <2>5 DEF Earlier
  <2> QED BY <2>1, <2>2, <2>4, <2>6 DEF Ahead, id
<1> QED BY <1>2, <1>3, <1>4, <1>5, OptionsFall DEF Lasting, Kept

-----------------------------------------------------------------------------
(* The calls that wait.                                                     *)
HasCall(op, j) == \E f \in Range(todo) : f.op = op /\ f.job = j

InitEndLast == \A i \in DOMAIN todo : todo[i].op = "InitEnd" => i = Len(todo)

(* Who is set streaming is the main job of the build, and who is told to    *)
(* join comes after the one it joins.                                       *)
CallFits(f) ==
  /\ f.op = "Streaming" /\ f.job # Root =>
       /\ f.num \in search[IdentOf[f.job]].found
       /\ MainJob(IdentOf[f.job], f.num) = f.job
  /\ f.op = "InitEnd" /\ opts.pipeline => Range(Kids[f.job]) \subseteq Tracked
  /\ f.op = "Finishing" => ~opts.console
  /\ f.op = "JoinOthers" /\ f.job # Root => number[f.job] # 0
  /\ f.op = "Join" => /\ state[f.main] \notin Lost
                      /\ \E n \in 1..Len(builds[IdentOf[f.job]]) : Ahead(f.main, f.job, n)
  /\ f.op = "JoinUnlessCut" => number[f.main] # 0 /\ Ahead(f.main, f.job, number[f.main])
CallsFit == \A f \in Range(todo) : CallFits(f)

(* Below a job that was joined or cut, jobs are cut, or about to be.        *)
OrphansCut ==
  \A j \in Job \ {Root} : j \in Tracked /\ Below(j, Lost) =>
    /\ state[j] \in {"New", "Cut"} \/ HasCall("Cut", j)
    /\ state[j] = "New" /\ HasCall("InitEnd", j) => HasCall("Cut", j) \/ HasCall("Resolve", j)

(* A new job has children only while the end of its initialisation waits.   *)
NewBelowNew ==
  \A j \in Job \ {Root} : j \in Tracked /\ Below(j, {"New"}) => HasCall("InitEnd", ParentOf(j))

(* A job's work begins when its initialisation is over. *)
BegunLater ==
  \A j \in Job : opts.pipeline /\ work[j] \in {"init", "then"} =>
    state[j] \notin {"Finishing", "Done", "Queued"}

TreeInv ==
  /\ InOrder /\ TreeGrows /\ InitEndLast /\ CallsFit /\ OrphansCut /\ NewBelowNew /\ BegunLater

-----------------------------------------------------------------------------
(* A callback that starts with nothing left to call, and creates no job.    *)
WorkMoves ==
  \A j \in Job :
    \/ work'[j] \in {work[j], "idle"}
    \/ work[j] # "idle" /\ work'[j] \in {"busy", "stream", "finish"}
    \/ work[j] = "init" /\ work'[j] = "then"
    \/ work'[j] = "timer" /\ j \in Tracked /\ state[j] \in Running

Progress(j) ==
  \/ state'[j] = state[j]
  \/ state'[j] \in {"Finishing", "Done"} /\ work'[j] \in {"idle", "busy"}
  \/ state'[j] = "Queued" /\ j = Root /\ work'[j] \in {"idle", "busy"}

CallbackOps == {"Sought", "Decide", "Streaming", "Advance"}

CallbackStep ==
  /\ UNCHANGED <<allJobs, number, joined>>
  /\ \A j \in Job : Progress(j)
  /\ WorkMoves

LEMMA OneProgress ==
  ASSUME JobTypes, NEW j \in Job, NEW s, s \in {"Finishing", "Done"} \/ (s = "Queued" /\ j = Root),
         state' = [state EXCEPT ![j] = s], work'[j] \in {"idle", "busy"}
  PROVE  \A k \in Job : Progress(k)
  BY DEF JobTypes, Progress

LEMMA OneWork ==
  ASSUME JobTypes, NEW j \in Job, work[j] # "idle", NEW w, work' = [work EXCEPT ![j] = w],
         w \in {"idle", "busy", "stream", "finish"} \/ (work[j] = "init" /\ w = "then")
  PROVE  WorkMoves
<1>1. work'[j] = w /\ \A k \in Job : k # j => work'[k] = work[k]
  BY DEF JobTypes
<1> QED BY <1>1 DEF WorkMoves

LEMMA StopWorkCallback ==
  ASSUME JobTypes, todo = <<>>, NEW j \in Job, work[j] # "idle", NEW s,
         s \in {"Finishing", "Done"} \/ (s = "Queued" /\ j = Root), StopWork(j, s)
  PROVE  CallbackStep /\ todo' = <<>>
<1>1. /\ state' = [state EXCEPT ![j] = s] /\ todo' = <<>> /\ UNCHANGED <<allJobs, number, joined>>
      /\ \E w \in {"idle", "busy"} : work' = [work EXCEPT ![j] = w]
  BY DEF StopWork, ChangeState, Proceed, Raise
<1>2. PICK w \in {"idle", "busy"} : work' = [work EXCEPT ![j] = w]
  BY <1>1
<1>3. work'[j] \in {"idle", "busy"}
  BY <1>2 DEF JobTypes
<1> QED BY <1>1, <1>2, <1>3, OneProgress, OneWork DEF CallbackStep

LEMMA WorkCallback ==
  ASSUME JobTypes, todo = <<>>, UNCHANGED todo \/ todo' = <<>>, NEW j \in Job, work[j] # "idle",
         UNCHANGED <<allJobs, number, joined, state>>, NEW w, work' = [work EXCEPT ![j] = w],
         w \in {"idle", "busy", "stream", "finish"} \/ (work[j] = "init" /\ w = "then")
  PROVE  CallbackStep /\ todo' = <<>>
<1>1. WorkMoves
  BY OneWork
<1> QED BY <1>1 DEF CallbackStep, Progress

LEMMA JobCallback ==
  ASSUME ~Plugin, TypeInv, Live, TreeGrows, NEW j \in Job, JobStep(j), ~InitThen(j)
  PROVE  todo = <<>> /\ CallbackStep /\ todo' = <<>>
<1> USE DEF TypeInv
<1>0. JobTypes
  OBVIOUS
<1>1. CASE InitResponse(j)
  <2>1. /\ todo = <<>> /\ work[j] = "init" /\ UNCHANGED <<allJobs, number, joined, state, todo>>
        /\ \E w \in {"then", "busy"} : work' = [work EXCEPT ![j] = w]
    BY <1>1 DEF InitResponse, Quiet, Idle
  <2> QED BY <2>1, WorkCallback
<1>2. CASE JobTimer(j)
  <2>1. todo = <<>> /\ work[j] = "timer" /\ work[j] # "idle" /\ state[j] \in Ran
    BY <1>2 DEF JobTimer, Quiet, Idle, TreeGrows
  <2>2. ASSUME NEW w \in {"stream", "finish", "idle"}, work' = [work EXCEPT ![j] = w],
               UNCHANGED <<allJobs, state, number, joined, todo>>
        PROVE  todo = <<>> /\ CallbackStep /\ todo' = <<>>
    BY <2>1, <2>2, WorkCallback
  <2>3. ASSUME state[j] = "Finishing", ~opts.console, StopWork(j, "Queued")
        PROVE  todo = <<>> /\ CallbackStep /\ todo' = <<>>
    <3>1. j \in Tracked
      BY <2>1, RunnerFacts
    <3>2. j = Root
      BY <2>3, <3>1 DEF Live, Mode
    <3> QED BY <2>1, <2>3, <3>2, StopWorkCallback
  <2>4. state[j] # "Downloading" /\ state[j] # "New"
    BY <2>1 DEF Live, JobsOK, JobOK, Ran, Running
  <2> QED BY <1>2, <2>2, <2>3, <2>4 DEF JobTimer, StayIdle
<1>3. CASE StreamResponse(j)
  <2>1. todo = <<>> /\ work[j] = "stream" /\ work[j] # "idle"
    BY <1>3 DEF StreamResponse, Quiet, Idle
  <2>2. ASSUME NEW w \in {"busy", "idle"}, work' = [work EXCEPT ![j] = w], todo' = <<>>,
               UNCHANGED <<allJobs, state, number, joined>>
        PROVE  todo = <<>> /\ CallbackStep /\ todo' = <<>>
    BY <2>1, <2>2, WorkCallback
  <2>3. CASE StopWork(j, "Finishing")
    BY <2>1, <2>3, StopWorkCallback
  <2>4. CASE /\ state' = [state EXCEPT ![j] = "Finishing"] /\ work' = [work EXCEPT ![j] = "idle"]
             /\ UNCHANGED <<allJobs, number, joined, todo>>
    <3>1. work'[j] = "idle"
      BY <2>4 DEF JobTypes
    <3> QED BY <2>1, <2>4, <3>1, OneProgress, OneWork DEF CallbackStep
  <2> QED BY <1>3, <2>1, <2>2, <2>3, <2>4 DEF StreamResponse, StayIdle, Wait, Raise
<1>4. CASE FinishResponse(j)
  <2>1. todo = <<>> /\ work[j] = "finish" /\ work[j] # "idle"
    BY <1>4 DEF FinishResponse, Quiet, Idle
  <2>2. ASSUME NEW w \in {"busy", "idle"}, work' = [work EXCEPT ![j] = w], todo' = <<>>,
               UNCHANGED <<allJobs, state, number, joined>>
        PROVE  todo = <<>> /\ CallbackStep /\ todo' = <<>>
    BY <2>1, <2>2, WorkCallback
  <2>3. CASE StopWork(j, "Done")
    BY <2>1, <2>3, StopWorkCallback
  <2> QED BY <1>4, <2>1, <2>2, <2>3 DEF FinishResponse, StayIdle, Wait, Raise
<1>5. ~DownloadResponse(j)
  BY DEF DownloadResponse, Live, JobsOK, JobOK
<1> QED BY <1>1, <1>2, <1>3, <1>4, <1>5 DEF JobStep

LEMMA SameCallback ==
  ASSUME UNCHANGED <<allJobs, number, joined, state, work>>
  PROVE  CallbackStep
  BY DEF CallbackStep, Progress, WorkMoves

LEMMA OthersCallback ==
  ASSUME TypeInv, [Next]_vars, ~Continue, \A j \in Job : ~JobStep(j)
  PROVE  CallbackStep
<1>1. CASE Tick
  <2>1. UNCHANGED <<allJobs, number, joined, state>>
    BY <1>1 DEF Tick
  <2>2. WorkMoves
    BY <1>1 DEF Tick, WorkMoves, TypeInv, JobTypes
  <2> QED BY <2>1, <2>2 DEF CallbackStep, Progress
<1>2. CASE ~Tick
  <2>1. UNCHANGED <<allJobs, number, joined, state, work>>
    BY <1>2 DEF Next, vars, SearchStep, CtorResponse, SearchTimer, LocateResponse, jobVars,
         SummaryStep, IsPipelineResponse, ReportResponse, Summarize, WriteFile, Server,
         ServerProgress, ServerDoes
  <2> QED BY <2>1, SameCallback
<1> QED BY <1>1, <1>2

-----------------------------------------------------------------------------
(* What such a callback, or the continuation of an initialisation, keeps.   *)
LEMMA JoinedKept ==
  ASSUME Lasting, JoinedAhead, UNCHANGED joined,
         \A j \in Job : state'[j] = "Joined" => state[j] = "Joined"
  PROVE  JoinedAhead'
<1>1. SUFFICES ASSUME NEW p \in Job, state'[p] = "Joined"
               PROVE  /\ joined'[p] \in Job
                      /\ \E n \in 1..Len(builds'[IdentOf[p]]) : Ahead(joined[p], p, n)'
  BY DEF JoinedAhead
<1>2. PICK q : q = joined[p]
  OBVIOUS
<1>3. q \in Job /\ \E n \in 1..Len(builds[IdentOf[p]]) : Ahead(q, p, n)
  BY <1>1, <1>2 DEF JoinedAhead
<1>4. \E n \in 1..Len(builds'[IdentOf[p]]) : Ahead(q, p, n)'
  BY <1>3, TreeAssumption DEF Lasting, Extends, ExtendsAt
<1>5. joined'[p] = q
  BY <1>2
<1> QED BY <1>3, <1>4, <1>5

LEMMA InOrderKept ==
  ASSUME Lasting, InOrder, UNCHANGED <<number, joined>>,
         \A j \in Job \ {Root} : state'[j] \in Ran => state[j] \in Ran,
         \A j \in Job \ {Root} : state'[j] = "Queued" => state[j] = "Queued",
         \A j \in Job : state'[j] = "Joined" => state[j] = "Joined"
  PROVE  InOrder'
<1>1. Numbered'
  <2>1. SUFFICES ASSUME NEW j \in Job \ {Root}
                 PROVE  /\ number'[j] # 0 => /\ number'[j] \in search'[IdentOf[j]].found
                                             /\ Shares(j, IdentOf[j], number[j])'
                        /\ state'[j] \in Ran => number'[j] # 0
    BY DEF Numbered
  <2>2. IdentOf[j] \in Ident
    BY TreeAssumption
  <2> QED BY <2>2 DEF InOrder, Numbered, Lasting, FoundGrows
<1>2. OneTracker'
  BY DEF InOrder, OneTracker
<1>3. JoinedAhead'
  BY JoinedKept DEF InOrder
<1>4. NeverQueued'
  BY DEF InOrder, NeverQueued
<1> QED BY <1>1, <1>2, <1>3, <1>4 DEF InOrder

LEMMA GrowsKept ==
  ASSUME TreeGrows, UNCHANGED allJobs, WorkMoves, \A j \in Job : state[j] \in Ran => state'[j] \in Ran
  PROVE  TreeGrows'
<1>1. Tracked' = Tracked
  BY DEF Tracked
<1>2. \A j \in Job : Childless(j)' <=> Childless(j)
  BY <1>1 DEF Childless
<1>3. \A j \in Job : work'[j] \in {"init", "then"} => work[j] \in {"init", "then"}
  BY DEF WorkMoves
<1>4. \A j \in Job : work'[j] # "idle" /\ j \notin Tracked => work[j] # "idle"
  BY DEF WorkMoves
<1>5. \A j \in Job : work'[j] = "timer" => state'[j] \in Ran
  BY DEF WorkMoves, TreeGrows, Ran
<1>6. \A j \in Job : work'[j] \in {"init", "then"} \/ j \notin Tracked' => Childless(j)'
  BY <1>1, <1>2, <1>3 DEF TreeGrows
<1>7. \A j \in Job \ {Root} : j \in Tracked' => ParentOf(j) \in Tracked' /\ ParentOf(j) # j
  BY <1>1 DEF TreeGrows
<1>8. \A j \in Job : j \notin Tracked' => work'[j] = "idle"
  BY <1>1, <1>4 DEF TreeGrows
<1> QED BY <1>5, <1>6, <1>7, <1>8 DEF TreeGrows

LEMMA GrowsExpanded ==
  ASSUME TypeInv, TreeGrows, NEW j \in Job, InitThen(j), Expands(j)
  PROVE  TreeGrows'
<1>1. /\ j \in Tracked /\ work[j] = "then" /\ UNCHANGED state
      /\ Tracked' = Tracked \cup Range(NewKids(j)) /\ Tracked \subseteq Job
      /\ \A k \in Range(NewKids(j)) : k \in Job \ {Root} /\ ParentOf(k) = j
  BY InitThenFacts, NewKidsFacts, RangeTracked DEF Expands, TypeInv
<1>2. \A k \in Job : work'[k] = IF k = j THEN "busy"
                                ELSE IF k \in Range(NewKids(j))
                                THEN IF search[IdentOf[k]].ready THEN "then" ELSE "init"
                                ELSE work[k]
  BY DEF Expands
<1>3. Childless(j)
  BY <1>1 DEF TreeGrows
<1>4. ASSUME NEW k \in Job, work'[k] \in {"init", "then"} \/ k \notin Tracked' PROVE Childless(k)'
  <2>1. k # j
    BY <1>1, <1>2, <1>4
  <2>2. Childless(k)
    <3>1. CASE k \in Range(NewKids(j))
      <4>1. k \notin Tracked
        BY <1>1, <1>3, <3>1 DEF Childless
      <4> QED BY <4>1 DEF TreeGrows
    <3>2. CASE k \notin Range(NewKids(j))
      BY <1>1, <1>2, <1>4, <2>1, <3>2 DEF TreeGrows
    <3> QED BY <3>1, <3>2
  <2> QED BY <1>1, <2>1, <2>2 DEF Childless
<1>5. \A k \in Job \ {Root} : k \in Tracked' => ParentOf(k) \in Tracked' /\ ParentOf(k) # k
  BY <1>1, <1>3 DEF TreeGrows, Childless
<1>6. \A k \in Job : k \notin Tracked' => work'[k] = "idle"
  BY <1>1, <1>2 DEF TreeGrows
<1>7. \A k \in Job : work'[k] = "timer" => state'[k] \in Ran
  BY <1>1, <1>2 DEF TreeGrows
<1> QED BY <1>4, <1>5, <1>6, <1>7 DEF TreeGrows

LEMMA NoCalls ==
  ASSUME todo = <<>>
  PROVE  \A op, j : ~HasCall(op, j)
  BY DEF HasCall, Range

(* The states that callbacks move jobs to, and from. *)
LEMMA CallbackMoves ==
  ASSUME JobTypes, Moves, \A j \in Job : Progress(j)
  PROVE  /\ \A j \in Job : state'[j] # state[j] => state[j] \in Running /\ state'[j] \in Ran
         /\ \A j \in Job \ {Root} : state'[j] = "Queued" => state[j] = "Queued"
<1>1. ASSUME NEW j \in Job, state'[j] # state[j] PROVE state[j] \in Running /\ state'[j] \in Ran
  <2>1. PICK k \in Job, s \in JobState : Move(k, s)
    BY <1>1 DEF Moves
  <2>2. j = k /\ state'[j] = s /\ Valid(state[j], state'[j])
    BY <1>1, <2>1 DEF Move, JobTypes
  <2> QED BY <1>1, <2>2 DEF Progress, Valid, Ran, Running
<1> QED BY <1>1 DEF Progress

LEMMA OrphansQuiet ==
  ASSUME TypeInv, Moves, OrphansCut, TreeGrows, todo = <<>>, UNCHANGED allJobs,
         \A j \in Job : Progress(j), \A f \in Range(todo') : f.op # "InitEnd"
  PROVE  OrphansCut'
<1>1. \A j \in Job : state'[j] # state[j] => state[j] \in Running /\ state'[j] \in Ran
  BY CallbackMoves DEF TypeInv
<1> SUFFICES ASSUME NEW j \in Job \ {Root}, j \in Tracked', Below(j, Lost)'
             PROVE  state'[j] \in {"New", "Cut"} /\ ~HasCall("InitEnd", j)'
  BY DEF OrphansCut
<1>2. j \in Tracked /\ ParentOf(j) \in Job
  BY ParentIsJob DEF Tracked
<1>3. state'[ParentOf(j)] = state[ParentOf(j)]
  BY <1>1, <1>2 DEF Below, Lost, Ran, Running
<1>4. state[j] \in {"New", "Cut"}
  BY <1>2, <1>3, NoCalls DEF OrphansCut, Below
<1>5. state'[j] = state[j]
  BY <1>1, <1>4 DEF Running
<1> QED BY <1>4, <1>5 DEF HasCall

LEMMA CallbackTree ==
  ASSUME TypeInv, Lasting, Moves, TreeInv, todo = <<>>, CallbackStep, CallsFit',
         \A f \in Range(todo') : f.op # "InitEnd"
  PROVE  TreeInv'
<1>1. /\ \A j \in Job : state'[j] # state[j] => state[j] \in Running /\ state'[j] \in Ran
      /\ \A j \in Job \ {Root} : state'[j] = "Queued" => state[j] = "Queued"
  BY CallbackMoves DEF TypeInv, CallbackStep
<1>2. /\ \A j \in Job \ {Root} : state'[j] \in Ran => state[j] \in Ran
      /\ \A j \in Job : state'[j] = "Joined" => state[j] = "Joined"
      /\ \A j \in Job : state[j] \in Ran => state'[j] \in Ran
  BY <1>1 DEF Ran, Running
<1>3. InOrder'
  BY <1>1, <1>2, InOrderKept DEF CallbackStep, TreeInv
<1>4. TreeGrows'
  BY <1>2, GrowsKept DEF CallbackStep, TreeInv
<1>5. InitEndLast'
  BY RangeIsDomain DEF InitEndLast
<1>6. OrphansCut'
  BY OrphansQuiet DEF CallbackStep, TreeInv
<1>7. NewBelowNew'
  <2> SUFFICES ASSUME NEW j \in Job \ {Root}, j \in Tracked', Below(j, {"New"})' PROVE FALSE
    BY DEF NewBelowNew
  <2>1. j \in Tracked /\ ParentOf(j) \in Job
    BY ParentIsJob DEF CallbackStep, Tracked
  <2>2. Below(j, {"New"})
    BY <1>1, <2>1 DEF Below, Ran, Running
  <2> QED BY <2>1, <2>2, NoCalls DEF TreeInv, NewBelowNew
<1>8. BegunLater'
  BY DEF BegunLater, TreeInv, Lasting, CallbackStep, Progress, WorkMoves
<1> QED BY <1>3, <1>4, <1>5, <1>6, <1>7, <1>8 DEF TreeInv

LEMMA ExpandTree ==
  ASSUME TypeInv, JobsOK, Lasting, TreeInv, NEW j \in Job, InitThen(j), Expands(j)
  PROVE  TreeInv'
<1> DEFINE a == Call("Resolve", j)
           b == Call("InitEnd", j)
<1>1. /\ j \in Tracked /\ todo = <<>> /\ UNCHANGED <<state, number, joined>>
      /\ Tracked' = Tracked \cup Range(NewKids(j)) /\ Tracked \subseteq Job
      /\ todo' = <<a, b>>
      /\ \A k \in Range(NewKids(j)) : k \in Job \ {Root} /\ ParentOf(k) = j
  BY InitThenFacts, NewKidsFacts, RangeTracked DEF Expands, TypeInv
<1>2. InOrder' /\ TreeGrows'
  BY <1>1, InOrderKept, GrowsExpanded DEF TreeInv
<1>3. a.op = "Resolve" /\ a.job = j /\ b.op = "InitEnd" /\ b.job = j
  BY DEF Call
<1> HIDE DEF a, b
<1>4. Range(<<a, b>>) = {a, b} /\ Len(<<a, b>>) = 2 /\ <<a, b>>[1] = a
  BY DEF Range
<1>5. InitEndLast'
  <2>1. \A i \in DOMAIN <<a, b>> : i = 1 \/ i = 2
    OBVIOUS
  <2> QED BY <1>1, <1>3, <1>4, <2>1 DEF InitEndLast
<1>6. CallsFit'
  <2>1. CallFits(a)'
    BY <1>3 DEF CallFits
  <2>2. opts'.pipeline => Range(Kids[j]) \subseteq Tracked'
    BY <1>1 DEF NewKids, Lasting
  <2>3. CallFits(b)'
    BY <1>3, <2>2 DEF CallFits
  <2> QED BY <1>1, <1>4, <2>1, <2>3 DEF CallsFit
<1>7. OrphansCut'
  <2> SUFFICES ASSUME NEW k \in Job \ {Root}, k \in Tracked', Below(k, Lost)'
               PROVE  /\ state'[k] \in {"New", "Cut"}
                      /\ HasCall("InitEnd", k)' => HasCall("Resolve", k)'
    BY DEF OrphansCut
  <2>1. HasCall("InitEnd", k)' => HasCall("Resolve", k)'
    BY <1>1, <1>3, <1>4 DEF HasCall
  <2>2. CASE k \in Tracked
    BY <1>1, <2>1, <2>2, NoCalls DEF TreeInv, OrphansCut, Below
  <2>3. CASE k \notin Tracked
    BY <1>1, <2>1, <2>3 DEF JobsOK, JobOK
  <2> QED BY <2>2, <2>3
<1>8. NewBelowNew'
  <2> SUFFICES ASSUME NEW k \in Job \ {Root}, k \in Tracked', Below(k, {"New"})'
               PROVE  HasCall("InitEnd", ParentOf(k))'
    BY DEF NewBelowNew
  <2>1. CASE k \in Tracked
    BY <1>1, <2>1, NoCalls DEF TreeInv, NewBelowNew, Below
  <2>2. CASE k \notin Tracked
    BY <1>1, <1>3, <1>4, <2>2 DEF HasCall
  <2> QED BY <2>1, <2>2
<1>9. BegunLater'
  <2> SUFFICES ASSUME NEW k \in Job, opts'.pipeline, work'[k] \in {"init", "then"}
               PROVE  state[k] \notin {"Finishing", "Done", "Queued"}
    BY <1>1 DEF BegunLater
  <2>1. opts.pipeline
    BY DEF Lasting
  <2>2. CASE k \in Range(NewKids(j)) /\ k # j
    <3>1. Childless(j)
      BY <1>1, InitThenFacts DEF TreeInv, TreeGrows
    <3>2. k \notin Tracked
      BY <1>1, <2>2, <3>1 DEF Childless
    <3> QED BY <3>2 DEF JobsOK, JobOK
  <2>3. CASE k \notin Range(NewKids(j)) /\ k # j
    <3>1. work'[k] = work[k]
      BY <2>3 DEF Expands
    <3> QED BY <2>1, <3>1 DEF TreeInv, BegunLater
  <2>4. k # j
    BY DEF Expands
  <2> QED BY <2>2, <2>3, <2>4
<1> QED BY <1>2, <1>5, <1>6, <1>7, <1>8, <1>9 DEF TreeInv

-----------------------------------------------------------------------------
(* The calls that callbacks of a search leave.                              *)
LEMMA MainJobSame ==
  ASSUME UNCHANGED <<builds, allJobs, state, number>>, NEW id, NEW n
  PROVE  MainJob(id, n)' = MainJob(id, n) /\ (Ambiguous(id, n)' <=> Ambiguous(id, n))
<1>1. \A i, m : FindJob(i, m)' = FindJob(i, m)
  BY DEF FindJob
<1>2. \A p : ChildOf(p, id)' = ChildOf(p, id)
  BY DEF ChildOf, Children, Tracked
<1>3. CausedKids(id, n, Ran)' = CausedKids(id, n, Ran)
  BY <1>1, <1>2 DEF CausedKids
<1>4. \A j : IsMaster(j)' <=> IsMaster(j)
  BY DEF IsMaster
<1>5. Masters(id, n)' = Masters(id, n) /\ Potential(id, n)' = Potential(id, n)
  BY <1>3, <1>4 DEF Masters, Potential
<1> QED BY <1>5 DEF MainJob, Candidates, Ambiguous

LEMMA SearchCallsFit ==
  ASSUME TypeInv, TreeInv, todo = <<>>, NEW id \in Ident, SearchStep(id)
  PROVE  CallsFit' /\ \A f \in Range(todo') : f.op # "InitEnd"
<1>0. Range(<<>>) = {}
  BY DEF Range
<1>1. CASE CtorResponse(id)
  BY <1>0, <1>1 DEF CtorResponse, CallsFit
<1>2. CASE SearchTimer(id)
  <2> DEFINE s == search[id].seeking
             c == [i \in DOMAIN s |-> Call("Sought", s[i])]
             d == SearchDo("Decide", id)
  <2>1. s \in Seq(Job)
    BY DEF TypeInv, SearchTypes, Search
  <2>2. c \in Seq(Frame) /\ <<d>> \in Seq(Frame) /\ \A f \in Range(<<d>>) : f = d
    BY <2>1, CallsType, SearchDoType DEF JobOps, Range
  <2>3. \A f \in Range(c) : f.op = "Sought"
    BY RangeIsDomain DEF Call
  <2>4. d.op = "Decide"
    BY DEF SearchDo
  <2>5. todo' = c \o <<d>>
    BY <1>2 DEF SearchTimer
  <2> HIDE DEF c, d
  <2>6. \A f \in Range(todo') : f.op \in {"Sought", "Decide"}
    <3>1. Range(c \o <<d>>) = Range(c) \cup Range(<<d>>)
      BY <2>2, RangeConcatenation
    <3> QED BY <2>2, <2>3, <2>4, <2>5, <3>1
  <2> QED BY <2>6 DEF CallsFit, CallFits
<1>3. CASE LocateResponse(id)
  <2> DEFINE n == search[id].next
             m == MainJob(id, n)
             a == CallAt("Streaming", m, n)
             d == SearchDo("Advance", id)
  <2>1. UNCHANGED <<builds, allJobs, state, number>>
    BY <1>3 DEF LocateResponse, serverVars, jobVars
  <2>2. d.op = "Advance" /\ a.op = "Streaming" /\ a.job = m /\ a.num = n
    BY DEF SearchDo, CallAt
  <2>3. CASE todo' = <<>>
    BY <1>0, <2>3 DEF CallsFit
  <2>4. CASE todo' = <<d>>
    <3> HIDE DEF d
    <3>1. Range(todo') = {d}
      BY <2>4 DEF Range
    <3> QED BY <2>2, <3>1 DEF CallsFit, CallFits
  <2>5. CASE Visible(id, n) /\ search' = [search EXCEPT ![id] = Learned(@)]
             /\ todo' = <<a, d>> /\ m # NoJob
    <3>1. n \in 1..Len(builds[id]) /\ m \in Job \ {Root} /\ IdentOf[m] = id
      <4>1. n \in 1..Len(builds[id])
        BY <2>5, VisibleExists DEF TypeInv
      <4> HIDE DEF n
      <4>2. m \in Range(CausedKids(id, n, Ran))
        BY <2>5, <4>1, MainJobFacts DEF TypeInv
      <4> QED BY <4>1, <4>2, CausedKidFacts DEF TypeInv
    <3>2. n \in search'[id].found
      BY <2>5, LearnedType DEF TypeInv, SearchTypes
    <3>3. PICK k, l, g, e : k = m /\ l = n /\ g = a /\ e = d
      OBVIOUS
    <3>4. MainJob(id, l)' = k
      BY <2>1, <3>3, MainJobSame
    <3>5. g.op = "Streaming" /\ g.job = k /\ g.num = l /\ e.op = "Advance" /\ IdentOf[k] = id
      BY <2>2, <3>1, <3>3
    <3>6. todo' = <<g, e>> /\ l \in search'[id].found
      BY <2>5, <3>2, <3>3
    <3> HIDE DEF n, m, a, d
    <3>7. Range(todo') = {g, e}
      BY <3>6 DEF Range
    <3>8. CallFits(g)' /\ CallFits(e)'
      BY <3>4, <3>5, <3>6 DEF CallFits
    <3> QED BY <3>5, <3>7, <3>8 DEF CallsFit
  <2> HIDE DEF a, d, m
  <2> QED BY <1>3, <2>3, <2>4, <2>5 DEF LocateResponse, Proceed, Raise, a, d, m
<1> QED BY <1>1, <1>2, <1>3 DEF SearchStep

-----------------------------------------------------------------------------
(* The calls of a running callback.                                         *)
(* A callback that comes upon a build without causes raises, so what the    *)
(* searches know must be builds with causes.  Looking at one that has none  *)
(* makes the task fail.                                                     *)
Known == \A id \in Ident : \A n \in search[id].found : HasCauses(id, n)

LEMMA KnownMoves ==
  ASSUME TypeInv, Extends, [Next]_vars
  PROVE  /\ ~Known => ~Known'
         /\ Known => Known' \/ Report("Failed")
<1>1. ASSUME NEW id \in Ident, NEW n \in search[id].found
      PROVE  HasCauses(id, n)' <=> HasCauses(id, n)
  <2>1. n \in 1..Len(builds[id])
    BY <1>1 DEF TypeInv, FoundExist
  <2>2. builds'[id][n].causes = builds[id][n].causes
    BY <2>1 DEF Extends, ExtendsAt
  <2> QED BY <2>2 DEF HasCauses
<1>2. FoundGrows => (~Known => ~Known')
  BY <1>1 DEF Known, FoundGrows
<1>3. CASE SameFound
  BY <1>1, <1>3 DEF Known, SameFound
<1>4. ASSUME NEW id \in Ident, LocateResponse(id), ~SameFound, Known
      PROVE  Known' \/ Report("Failed")
  <2> DEFINE n == search[id].next
             s == Learned(search[id])
  <2>1. search' = [search EXCEPT ![id].work = "idle", ![id].seeking = <<>>] => SameFound
    BY SearchSetRest DEF TypeInv
  <2>2. search' = [search EXCEPT ![id].work = "busy"] => SameFound
    BY SearchSetWork DEF TypeInv, SearchWork
  <2>3. /\ search' = [search EXCEPT ![id] = s] /\ UNCHANGED builds
        /\ Undetermined(id, n) => Report("Failed")
    BY <1>4, <2>1, <2>2 DEF LocateResponse, serverVars, Quiet, Idle, Raise
  <2>4. s.found = search[id].found \cup {n} /\ (~Undetermined(id, n) => HasCauses(id, n))
    BY LearnedType DEF Undetermined
  <2> HIDE DEF s, n
  <2>5. search'[id] = s /\ \A d \in Ident \ {id} : search'[d] = search[d]
    BY <2>3 DEF TypeInv, SearchTypes
  <2>6. \A d, m : HasCauses(d, m)' <=> HasCauses(d, m)
    BY <2>3 DEF HasCauses
  <2> QED BY <1>4, <2>3, <2>4, <2>5, <2>6 DEF Known
<1>5. SameFound \/ \E id \in Ident : LocateResponse(id)
  <2>1. ASSUME NEW j \in Job, JobStep(j) PROVE SameFound
    <3>1. UNCHANGED search => SameFound
      BY DEF SameFound
    <3> QED BY <2>1, <3>1, InitResponseType, InitThenType
            DEF JobStep, JobTimer, StreamResponse, FinishResponse, DownloadResponse
  <2>2. SummaryStep \/ Server \/ UNCHANGED vars => SameFound
    BY DEF SameFound, SummaryStep, IsPipelineResponse, ReportResponse, Summarize, WriteFile,
       Server, ServerProgress, ServerDoes, vars
  <2> QED BY <2>1, <2>2, ContinueType, TickType, CtorResponseType, SearchTimerType
          DEF Next, SearchStep
<1>6. FoundGrows
  BY <1>5, LocateResponseType DEF SameFound, FoundGrows
<1> QED BY <1>2, <1>3, <1>4, <1>5, <1>6

Standing == Sound /\ Live /\ TreeInv /\ Known

LEMMA SecondaryShares ==
  ASSUME Sound, InOrder, NEW id \in Ident, NEW n \in 1..Len(builds[id]),
         NEW k \in Range(Secondary(id, n))
  PROVE  Shares(k, id, n) /\ ~IsMaster(k) /\ k \in Job
<1>1. k \in Range(CausedKids(id, n, Ran)) /\ k \in Job /\ ~IsMaster(k)
  BY NeverAmbiguous, SecondaryFacts DEF Sound
<1>2. k \in Range(CauseKids(id, n))
  BY <1>1, CausedKidsPick DEF Sound, TypeInv
<1>3. PICK x \in DOMAIN CauseKids(id, n) : CauseKids(id, n)[x] = k
  BY <1>2, RangeIsDomain
<1> QED BY <1>1, <1>3, SharePlaces DEF InOrder

(* The head of the callback makes way for calls that fit; c is empty for    *)
(* a call that leaves none.                                                 *)
Pushes(c) ==
  /\ c \in Seq(Frame) /\ todo # <<>> /\ todo' = c \o Tail(todo)
  /\ \A g \in Range(c) : g.op # "InitEnd" /\ CallFits(g)'

LEMMA RangeOfOne == \A x : Range(<<x>>) = {x} /\ Range(<<>>) = {}
  BY DEF Range

LEMMA PushesNone ==
  ASSUME CallTypes, todo # <<>>, Proceed(Tail(todo))
  PROVE  Pushes(<<>>)
<1>1. Tail(todo) \in Seq(Frame) /\ <<>> \in Seq(Frame) /\ Range(<<>>) = {}
  BY HeadTailType, EmptySeq, RangeOfOne
<1>2. <<>> \o Tail(todo) = Tail(todo)
  BY <1>1, LenProperties
<1> QED BY <1>1, <1>2 DEF Pushes, Proceed

LEMMA PushesOne ==
  ASSUME CallTypes, todo # <<>>, NEW g \in Frame, Proceed(<<g>> \o Tail(todo)),
         g.op # "InitEnd", CallFits(g)'
  PROVE  Pushes(<<g>>)
<1>1. <<g>> \in Seq(Frame)
  BY HeadTailType, OneCallType
<1>2. Range(<<g>>) = {g}
  BY RangeOfOne
<1> QED BY <1>1, <1>2 DEF Pushes, Proceed

LEMMA Pushed ==
  ASSUME Standing, Lasting, NEW c, Pushes(c)
  PROVE  /\ InitEndLast' /\ CallsFit'
         /\ \A op, j : HasCall(op, j) => HasCall(op, j)' \/ (Head(todo).op = op /\ Head(todo).job = j)
         /\ \A j : HasCall("InitEnd", j)' => HasCall("InitEnd", j)
         /\ \A g \in Range(c) : HasCall(g.op, g.job)'
<1> DEFINE r == Tail(todo)
<1>1. /\ todo \in Seq(Frame) /\ todo # <<>> /\ Stacked(todo)
      /\ c \in Seq(Frame) /\ r \in Seq(Frame) /\ todo' = c \o r
  BY HeadTailType DEF Pushes, Standing, Sound, TypeInv, CallTypes, Live, CallsOK
<1>2. /\ Len(todo) \in Nat \ {0} /\ Len(r) = Len(todo) - 1 /\ Len(c) \in Nat
      /\ \A i \in 1..Len(r) : r[i] = todo[i + 1]
      /\ DOMAIN todo = 1..Len(todo) /\ DOMAIN c = 1..Len(c) /\ DOMAIN r = 1..Len(r)
      /\ Head(todo) = todo[1]
  BY <1>1, HeadTailProperties, LenProperties, EmptySeq
<1> HIDE DEF r
<1>3. /\ Len(c \o r) = Len(c) + Len(r) /\ DOMAIN (c \o r) = 1..(Len(c) + Len(r))
      /\ \A i \in 1..(Len(c) + Len(r)) : (c \o r)[i] = IF i <= Len(c) THEN c[i] ELSE r[i - Len(c)]
  BY <1>1, <1>2, LenProperties
<1>4. Range(c \o r) = Range(c) \cup Range(r)
  BY <1>1, RangeConcatenation
<1>5. Range(r) \subseteq Range(todo) /\ \A f \in Range(r) : f.op \in Late \cup Joiner
  BY <1>1, StackTop DEF r
<1>6. InitEndLast'
  <2> SUFFICES ASSUME NEW i \in DOMAIN todo', todo'[i].op = "InitEnd" PROVE i = Len(todo')
    BY DEF InitEndLast
  <2>1. i \in 1..(Len(c) + Len(r)) /\ todo'[i] = IF i <= Len(c) THEN c[i] ELSE r[i - Len(c)]
    BY <1>1, <1>3
  <2>2. ~(i <= Len(c))
    <3>1. i <= Len(c) => c[i] \in Range(c)
      BY <1>2, <2>1, RangeIsDomain
    <3> QED BY <2>1, <3>1 DEF Pushes
  <2>3. i - Len(c) \in 1..Len(r) /\ todo'[i] = todo[i - Len(c) + 1]
    BY <1>2, <2>1, <2>2
  <2>4. i - Len(c) + 1 \in DOMAIN todo
    BY <1>2, <2>3
  <2>5. i - Len(c) + 1 = Len(todo)
    BY <2>3, <2>4 DEF Standing, TreeInv, InitEndLast
  <2>6. Len(todo') = Len(c) + Len(r) /\ Len(r) = Len(todo) - 1 /\ Len(c) \in Nat /\ Len(todo) \in Nat
    BY <1>1, <1>2, <1>3
  <2>7. i \in Nat
    BY <1>2, <2>1
  <2> QED BY <2>5, <2>6, <2>7
<1>7. CallsFit'
  <2>1. ASSUME NEW f \in Range(r) PROVE CallFits(f)'
    <3>1. f \in Frame /\ CallFits(f) /\ f.op \in Late \cup Joiner
      BY <1>1, <1>5, RangeOfSeq DEF Standing, TreeInv, CallsFit
    <3>2. ASSUME f.op = "JoinUnlessCut" PROVE number'[f.main] # 0 /\ Ahead(f.main, f.job, number[f.main])'
      <4>1. f.main \in Job /\ f.job \in Job /\ number[f.main] # 0 /\ Ahead(f.main, f.job, number[f.main])
        BY <3>1, <3>2, JobCallFields DEF CallFits, JobOps
      <4>2. PICK n : n = number[f.main]
        OBVIOUS
      <4>3. number'[f.main] = n
        BY <4>1, <4>2 DEF Lasting
      <4>4. Ahead(f.main, f.job, n)'
        BY <4>1, <4>2 DEF Lasting
      <4> QED BY <4>1, <4>2, <4>3, <4>4
    <3> QED BY <3>1, <3>2 DEF CallFits, Late, Joiner, Lasting
  <2> QED BY <1>1, <1>4, <2>1 DEF CallsFit, Pushes
<1>8. \A f \in Range(todo) : f = Head(todo) \/ f \in Range(r)
  <2> TAKE f \in Range(todo)
  <2>1. PICK i \in DOMAIN todo : todo[i] = f
    BY RangeIsDomain
  <2>2. CASE i = 1
    BY <1>2, <2>1, <2>2
  <2>3. CASE i # 1
    <3>1. i - 1 \in 1..Len(r) /\ r[i - 1] = f
      BY <1>2, <2>1, <2>3
    <3> QED BY <1>2, <3>1, RangeIsDomain
  <2> QED BY <2>2, <2>3
<1>9. \A op, j : HasCall(op, j) => HasCall(op, j)' \/ (Head(todo).op = op /\ Head(todo).job = j)
  BY <1>1, <1>4, <1>8 DEF HasCall
<1>10. \A j : HasCall("InitEnd", j)' => HasCall("InitEnd", j)
  BY <1>1, <1>4, <1>5 DEF HasCall, Pushes
<1>11. \A g \in Range(c) : HasCall(g.op, g.job)'
  BY <1>1, <1>4 DEF HasCall
<1> QED BY <1>6, <1>7, <1>9, <1>10, <1>11

(* What a call has to show for the jobs below joined and cut ones.          *)
LEMMA OrphansKept ==
  ASSUME Standing, Lasting, UNCHANGED allJobs, NEW c, Pushes(c),
         \A j \in Job \ {Root} : j \in Tracked /\ Below(j, Lost)' => Below(j, Lost) \/ HasCall("Cut", j)',
         \A j \in Job \ {Root} : Below(j, Lost) =>
           \/ state'[j] = state[j]
           \/ state'[j] = "Cut",
         \A j \in Job : state'[j] = "New" => state[j] = "New",
         Head(todo).op = "Cut" => state'[Head(todo).job] = "Cut",
         \A j : /\ Head(todo).op = "Resolve" /\ Head(todo).job = j
                /\ state'[j] = "New" /\ Below(j, Lost)
                => HasCall("Cut", j)'
  PROVE  OrphansCut'
<1>1. /\ \A op, j : HasCall(op, j) => HasCall(op, j)' \/ (Head(todo).op = op /\ Head(todo).job = j)
      /\ \A j : HasCall("InitEnd", j)' => HasCall("InitEnd", j)
  BY Pushed
<1> SUFFICES ASSUME NEW j \in Job \ {Root}, j \in Tracked, Below(j, Lost), ~HasCall("Cut", j)'
             PROVE  /\ state'[j] \in {"New", "Cut"}
                    /\ state'[j] = "New" /\ HasCall("InitEnd", j)' => HasCall("Resolve", j)'
  BY DEF OrphansCut, Tracked
<1>2. /\ state[j] \in {"New", "Cut"} \/ HasCall("Cut", j)
      /\ state[j] = "New" /\ HasCall("InitEnd", j) => HasCall("Cut", j) \/ HasCall("Resolve", j)
  BY DEF Standing, TreeInv, OrphansCut
<1>3. HasCall("Cut", j) => state'[j] = "Cut"
  BY <1>1
<1>4. state'[j] \in {"New", "Cut"}
  BY <1>2, <1>3
<1>5. ASSUME state'[j] = "New", HasCall("InitEnd", j)' PROVE HasCall("Resolve", j)'
  <2>1. HasCall("Resolve", j)
    BY <1>1, <1>2, <1>3, <1>5
  <2> QED BY <1>1, <1>5, <2>1
<1> QED BY <1>4, <1>5

LEMMA NewKept ==
  ASSUME Standing, Lasting, UNCHANGED allJobs, NEW c, Pushes(c),
         \A j \in Job : state'[j] = "New" => state[j] = "New",
         Head(todo).op = "InitEnd" => state'[Head(todo).job] # "New"
  PROVE  NewBelowNew'
<1> SUFFICES ASSUME NEW j \in Job \ {Root}, j \in Tracked, Below(j, {"New"})'
             PROVE  HasCall("InitEnd", ParentOf(j))'
  BY DEF NewBelowNew, Tracked
<1>1. state'[ParentOf(j)] = "New" /\ Below(j, {"New"})
  BY ParentIsJob DEF Below
<1>2. HasCall("InitEnd", ParentOf(j))
  BY <1>1 DEF Standing, TreeInv, NewBelowNew
<1> QED BY <1>1, <1>2, Pushed

(* A call that changes neither jobs nor their states.                       *)
LEMMA StillTree ==
  ASSUME Standing, Lasting, NEW c, Pushes(c), UNCHANGED <<allJobs, state, number, joined, work>>,
         Head(todo).op \notin {"Cut", "InitEnd"},
         \A j : /\ Head(todo).op = "Resolve" /\ Head(todo).job = j
                /\ state[j] = "New" /\ Below(j, Lost)
                => HasCall("Cut", j)'
  PROVE  TreeInv'
<1>1. InOrder'
  BY InOrderKept DEF Standing, TreeInv
<1>2. TreeGrows'
  BY GrowsKept DEF Standing, TreeInv, WorkMoves
<1>3. InitEndLast' /\ CallsFit'
  BY Pushed
<1>4. \A j : Below(j, Lost)' <=> Below(j, Lost)
  BY DEF Below
<1>5. OrphansCut'
  BY <1>4, OrphansKept
<1>6. NewBelowNew'
  BY NewKept
<1>7. BegunLater'
  BY DEF Standing, TreeInv, BegunLater, Lasting
<1> QED BY <1>1, <1>2, <1>3, <1>5, <1>6, <1>7 DEF TreeInv

LEMMA HeadOK ==
  ASSUME Standing, todo # <<>>, NEW f, f = Head(todo)
  PROVE  /\ f \in Frame /\ CallOK(f) /\ CallFits(f) /\ CallTypes
         /\ f.op \in JobOps =>
              /\ f.job \in Job /\ f.main \in Job /\ f.num \in Nat /\ f.job \in Tracked
              /\ IdentOf[f.job] \in Ident
<1>1. CallTypes /\ CallsOK /\ todo \in Seq(Frame)
  BY DEF Standing, Sound, TypeInv, Live, CallTypes
<1>2. f \in Frame /\ CallOK(f)
  BY <1>1, TopCall
<1>3. CallFits(f)
  <2>1. f \in Range(todo)
    BY <1>1, StackTop DEF CallsOK
  <2> QED BY <2>1 DEF Standing, TreeInv, CallsFit
<1> QED BY <1>1, <1>2, <1>3, JobCallFields, TreeAssumption DEF CallOK

LEMMA ResolveTree ==
  ASSUME Standing, Lasting, todo # <<>>, UNCHANGED serverVars, NEW f, f = Head(todo), Resolve(f)
  PROVE  TreeInv'
<1> DEFINE j == f.job
           id == IdentOf[j]
           rest == Tail(todo)
           hits == {n \in search[id].found :
                      \/ Undetermined(id, n)
                      \/ MainJob(id, n) = j
                      \/ j \in Range(Secondary(id, n))}
           n == Min(hits)
<1>1. /\ f \in Frame /\ f.op \in {"Resolve", "Sought"} /\ CallTypes
      /\ j \in Job /\ id \in Ident /\ j \in Tracked
      /\ UNCHANGED <<allJobs, state, number, joined, work, builds>>
  BY HeadOK DEF Resolve, JobOps, jobVars, serverVars
<1>2. ASSUME NEW c, Pushes(c), state[j] = "New" /\ Below(j, Lost) => \E g \in Range(c) : g.op = "Cut" /\ g.job = j
      PROVE  TreeInv'
  <2>1. state[j] = "New" /\ Below(j, Lost) => HasCall("Cut", j)'
    BY <1>2, Pushed
  <2>2. \A k : /\ Head(todo).op = "Resolve" /\ Head(todo).job = k
               /\ state[k] = "New" /\ Below(k, Lost)
               => HasCall("Cut", k)'
    BY <2>1
  <2>3. Head(todo).op \notin {"Cut", "InitEnd"}
    BY <1>1
  <2> QED BY <1>1, <1>2, <2>2, <2>3, StillTree
<1>3. ASSUME Proceed(rest), ~(state[j] = "New" /\ Below(j, Lost)) PROVE TreeInv'
  <2>1. Pushes(<<>>)
    BY <1>1, <1>3, PushesNone
  <2> QED BY <1>2, <1>3, <2>1
<1>4. ASSUME NEW g \in Frame, Proceed(<<g>> \o rest), g.op # "InitEnd", CallFits(g)',
             ~(state[j] = "New" /\ Below(j, Lost))
      PROVE  TreeInv'
  <2>1. Pushes(<<g>>)
    BY <1>1, <1>4, PushesOne
  <2> QED BY <1>2, <1>4, <2>1
<1>5. ASSUME j = Root, Proceed(<<CallAt("Streaming", j, number[j])>> \o rest) PROVE TreeInv'
  <2>1. PICK g : g = CallAt("Streaming", j, number[j])
    OBVIOUS
  <2>2. g \in Frame /\ g.op = "Streaming" /\ g.job = Root
    BY <1>1, <1>5, <2>1, CallType DEF JobOps, CallAt, Standing, Sound, TypeInv, JobTypes
  <2>3. CallFits(g)'
    BY <2>2 DEF CallFits
  <2> QED BY <1>4, <1>5, <2>1, <2>2, <2>3 DEF Below
<1>6. ASSUME Proceed(<<Call("Cut", j)>> \o rest) PROVE TreeInv'
  <2>1. PICK g : g = Call("Cut", j)
    OBVIOUS
  <2>2. g \in Frame /\ g.op = "Cut" /\ g.job = j
    BY <1>1, <2>1, CallType DEF JobOps, Call
  <2>3. CallFits(g)'
    BY <2>2 DEF CallFits
  <2>4. Pushes(<<g>>)
    BY <1>1, <1>6, <2>1, <2>2, <2>3, PushesOne
  <2>5. g \in Range(<<g>>)
    BY RangeOfOne
  <2> QED BY <1>2, <2>2, <2>4, <2>5
<1>7. ASSUME hits # {}
      PROVE  n \in 1..Len(builds[id]) /\ n \in Nat /\ n \in hits /\ n \in search[id].found /\ ~Undetermined(id, n)
  <2>1. hits \subseteq search[id].found /\ search[id].found \subseteq 1..Len(builds[id])
    BY <1>1 DEF FoundExist, Standing, Sound, TypeInv
  <2>2. Len(builds[id]) \in Nat
    BY <1>1, LenProperties DEF ServerTypeOK, Standing, Sound, TypeInv
  <2>3. hits \in SUBSET Nat
    BY <2>1, <2>2
  <2> HIDE DEF hits
  <2>4. n \in hits
    BY <1>7, <2>3, MinType
  <2>5. n \in 1..Len(builds[id]) /\ n \in search[id].found /\ n \in Nat
    BY <2>1, <2>3, <2>4
  <2> HIDE DEF n, id
  <2>6. ~Undetermined(id, n)
    BY <1>1, <2>5, NeverAmbiguous DEF Standing, TreeInv, Known, Undetermined
  <2> QED BY <2>4, <2>5, <2>6
<1>8. ASSUME hits # {}, j # Root, MainJob(id, n) = j, ~Below(j, Lost), UNCHANGED search,
             Proceed(<<CallAt("Streaming", j, n)>> \o rest)
      PROVE  TreeInv'
  <2>1. PICK g, i : g = CallAt("Streaming", j, n) /\ i = n
    OBVIOUS
  <2>2. g \in Frame /\ g.op = "Streaming" /\ g.job = j /\ g.num = i /\ i \in search[id].found
    BY <1>1, <1>7, <1>8, <2>1, CallType DEF JobOps, CallAt
  <2>3. MainJob(id, i)' = j
    BY <1>1, <1>8, <2>1, MainJobSame
  <2>4. CallFits(g)'
    BY <1>8, <2>2, <2>3 DEF CallFits
  <2> QED BY <1>4, <1>8, <2>1, <2>2, <2>4
<1>9. ASSUME hits # {}, j # Root, MainJob(id, n) # j, ~Below(j, Lost),
             Proceed(<<CallWith("Join", j, MainJob(id, n))>> \o rest)
      PROVE  TreeInv'
  <2>1. PICK g, i, m : g = CallWith("Join", j, MainJob(id, n)) /\ i = n /\ m = MainJob(id, n)
    OBVIOUS
  <2>2. i \in 1..Len(builds[id]) /\ m # j /\ j \in Range(Secondary(id, i)) /\ m = MainJob(id, i)
    BY <1>7, <1>9, <2>1
  <2>3. Shares(j, id, i)
    BY <1>1, <2>2, SecondaryShares DEF Standing, TreeInv
  <2>4. m # NoJob
    BY <1>1, <2>2, <2>3, MainChoice DEF Standing, TreeInv
  <2>5. state[m] \notin Lost /\ Ahead(m, j, i) /\ m \in Job
    <3>1. Shares(m, id, i) /\ state[m] \notin Lost /\ Ahead(m, j, i)
      BY <1>1, <2>2, <2>3, <2>4, MainChoice DEF Standing, TreeInv
    <3> QED BY <3>1 DEF Shares
  <2>6. g \in Frame /\ g.op = "Join" /\ g.job = j /\ g.main = m
    BY <1>1, <2>1, <2>5, CallType DEF JobOps, CallWith
  <2>7. Ahead(m, j, i)' /\ i \in 1..Len(builds'[id])
    BY <1>1, <2>2, <2>5 DEF Lasting
  <2>8. CallFits(g)'
    BY <1>1, <2>5, <2>6, <2>7 DEF CallFits
  <2> QED BY <1>4, <1>9, <2>1, <2>6, <2>8
<1>10. CASE state[j] \notin {"New", "Locating"}
  BY <1>3, <1>10 DEF Resolve
<1>11. CASE state[j] \in {"New", "Locating"} /\ j = Root
  BY <1>5, <1>11 DEF Resolve
<1>12. CASE state[j] \in {"New", "Locating"} /\ j # Root /\ state[ParentOf(j)] \in {"Joined", "Cut"}
  BY <1>6, <1>12 DEF Resolve
<1>13. CASE state[j] \in {"New", "Locating"} /\ j # Root /\ state[ParentOf(j)] \notin {"Joined", "Cut"}
  <2>1. ~Below(j, Lost)
    BY <1>13 DEF Below, Lost
  <2>2. CASE hits = {}
    <3>1. Proceed(rest)
      BY <1>13, <2>2 DEF Resolve
    <3> QED BY <1>3, <2>1, <3>1
  <2>3. CASE hits # {}
    <3>1. /\ UNCHANGED search
          /\ IF Undetermined(id, n) THEN Raise
             ELSE IF MainJob(id, n) = j
             THEN Proceed(<<CallAt("Streaming", j, n)>> \o rest)
             ELSE Proceed(<<CallWith("Join", j, MainJob(id, n))>> \o rest)
      BY <1>13, <2>3 DEF Resolve
    <3>2. ~Undetermined(id, n)
      BY <1>7, <2>3
    <3> HIDE DEF n, hits, id
    <3> QED BY <1>8, <1>9, <1>13, <2>1, <2>3, <3>1, <3>2
  <2> QED BY <2>2, <2>3
<1> QED BY <1>10, <1>11, <1>12, <1>13

(* A call that moves one job. *)
LEMMA MovedTree ==
  ASSUME Standing, Lasting, UNCHANGED allJobs, WorkMoves, InOrder', NEW c, Pushes(c),
         NEW j \in Job, NEW s, state' = [state EXCEPT ![j] = s],
         state[j] \in Ran => s \in Ran,
         s = "New" => state[j] = "New",
         s \in {"Finishing", "Done", "Queued"} => s = state[j] \/ ~opts.pipeline,
         s \in {"Cut", state[j]} \/ ~Below(j, Lost),
         s \in Lost /\ state[j] \notin Lost =>
           \A k \in Job \ {Root} : k \in Tracked /\ ParentOf(k) = j => HasCall("Cut", k)',
         Head(todo).op # "Resolve",
         Head(todo).op = "InitEnd" => Head(todo).job = j /\ s # "New",
         Head(todo).op = "Cut" => Head(todo).job = j /\ s = "Cut"
  PROVE  TreeInv'
<1>1. state'[j] = s /\ \A k \in Job : k # j => state'[k] = state[k]
  BY DEF Standing, Sound, TypeInv, JobTypes
<1>2. TreeGrows'
  BY <1>1, GrowsKept DEF Standing, TreeInv
<1>3. InitEndLast' /\ CallsFit'
  BY Pushed
<1>4. ASSUME NEW k \in Job \ {Root}, k \in Tracked, Below(k, Lost)'
      PROVE  Below(k, Lost) \/ HasCall("Cut", k)'
  <2>1. ParentOf(k) \in Job /\ state'[ParentOf(k)] \in Lost
    BY <1>4, ParentIsJob DEF Below
  <2> QED BY <1>1, <1>4, <2>1 DEF Below
<1>5. \A k \in Job \ {Root} : Below(k, Lost) => state'[k] = state[k] \/ state'[k] = "Cut"
  BY <1>1
<1>6. \A k \in Job : state'[k] = "New" => state[k] = "New"
  BY <1>1
<1>7. OrphansCut'
  BY <1>1, <1>4, <1>5, <1>6, OrphansKept
<1>8. NewBelowNew'
  BY <1>1, <1>6, NewKept
<1>9. BegunLater'
  BY <1>1 DEF Standing, TreeInv, BegunLater, Lasting, WorkMoves
<1> QED BY <1>2, <1>3, <1>7, <1>8, <1>9 DEF TreeInv

LEMMA SameWork ==
  ASSUME UNCHANGED work
  PROVE  WorkMoves
  BY DEF WorkMoves

LEMMA StartTree ==
  ASSUME Standing, Lasting, UNCHANGED <<allJobs, joined, work>>, NEW c, Pushes(c),
         Head(todo).op = "Streaming", NEW j \in Job, state[j] \in Unresolved,
         j = Root \/ Below(j, Ran), state' = [state EXCEPT ![j] = "Streaming"],
         NEW n, number' = [number EXCEPT ![j] = n],
         IF j = Root THEN n = number[j]
         ELSE /\ n # 0 /\ n \in search[IdentOf[j]].found /\ Shares(j, IdentOf[j], n)
              /\ \A k \in Job : k # j /\ IdentOf[k] = IdentOf[j] => number[k] # n
  PROVE  TreeInv'
<1>1. /\ state'[j] = "Streaming" /\ \A k \in Job : k # j => state'[k] = state[k]
      /\ number'[j] = n /\ \A k \in Job : k # j => number'[k] = number[k]
  BY DEF Standing, Sound, TypeInv, JobTypes
<1>2. InOrder
  BY DEF Standing, TreeInv
<1>3. Numbered'
  <2>1. SUFFICES ASSUME NEW k \in Job \ {Root}
                 PROVE  /\ number'[k] # 0 => /\ number'[k] \in search'[IdentOf[k]].found
                                             /\ Shares(k, IdentOf[k], number[k])'
                        /\ state'[k] \in Ran => number'[k] # 0
    BY DEF Numbered
  <2>2. IdentOf[k] \in Ident
    BY TreeAssumption
  <2>3. PICK m : m = number'[k]
    OBVIOUS
  <2>4. m # 0 => m \in search[IdentOf[k]].found /\ Shares(k, IdentOf[k], m)
    BY <1>1, <1>2, <2>3 DEF InOrder, Numbered
  <2>5. m # 0 => Shares(k, IdentOf[k], m)' /\ m \in search'[IdentOf[k]].found
    BY <2>2, <2>4 DEF Lasting, FoundGrows
  <2>6. state'[k] \in Ran => m # 0
    BY <1>1, <1>2, <2>3 DEF InOrder, Numbered
  <2> QED BY <2>3, <2>5, <2>6
<1>4. OneTracker'
  <2> SUFFICES ASSUME NEW k \in Job, NEW l \in Job, IdentOf[k] = IdentOf[l],
                      number'[k] = number'[l], number'[k] # 0
               PROVE  k = l
    BY DEF OneTracker
  <2>1. CASE j = Root
    BY <1>1, <1>2, <2>1 DEF InOrder, OneTracker
  <2>2. CASE j # Root
    BY <1>1, <1>2, <2>2 DEF InOrder, OneTracker
  <2> QED BY <2>1, <2>2
<1>5. JoinedAhead'
  BY <1>1, <1>2, JoinedKept DEF InOrder
<1>6. NeverQueued'
  BY <1>1, <1>2 DEF InOrder, NeverQueued
<1>7. InOrder'
  BY <1>3, <1>4, <1>5, <1>6 DEF InOrder
<1>8. ~Below(j, Lost)
  BY DEF Below, Lost, Ran, Running
<1>9. "Streaming" \in Ran /\ "Streaming" \notin Lost \cup {"New", "Finishing", "Done", "Queued"}
  BY DEF Ran, Running, Lost
<1> QED BY <1>7, <1>8, <1>9, SameWork, MovedTree

LEMMA SetStreamingTree ==
  ASSUME Standing, Lasting, todo # <<>>, UNCHANGED serverVars,
         NEW f, f = Head(todo), SetStreaming(f)
  PROVE  TreeInv'
<1> DEFINE j == f.job
           id == IdentOf[j]
           n == f.num
<1>1. /\ f \in Frame /\ f.op = "Streaming" /\ CallOK(f) /\ CallFits(f) /\ CallTypes
      /\ j \in Job /\ n \in Nat /\ j \in Tracked /\ id \in Ident
      /\ UNCHANGED <<allJobs, joined, work, search>>
  BY HeadOK DEF SetStreaming, JobOps
<1>2. /\ j = Root => state[Root] \in Unresolved /\ n = number[Root]
      /\ j # Root => Below(j, Ran)
  BY <1>1, JobCallFields DEF CallOK, JobOps, Standing, Sound, TypeInv, JobTypes
<1>3. ~opts.console => j = Root
  BY <1>1 DEF Standing, Live, Mode
<1>4. ASSUME j # Root
      PROVE  /\ n # 0 /\ n \in search[id].found /\ Shares(j, id, n) /\ state[j] \notin Lost
             /\ \A k \in Job : k # j /\ IdentOf[k] = id => number[k] # n
  <2>1. n \in search[id].found /\ MainJob(id, n) = j
    BY <1>1, <1>4 DEF CallFits
  <2>2. n \in 1..Len(builds[id])
    BY <1>1, <2>1 DEF FoundExist, Standing, Sound, TypeInv
  <2>3. n # 0
    BY <1>1, <2>2, LenProperties DEF ServerTypeOK, Standing, Sound, TypeInv
  <2>4. Sound /\ InOrder /\ j # NoJob
    BY <1>1, TreeAssumption DEF Standing, TreeInv
  <2> HIDE DEF n, id, j
  <2>5. /\ Shares(j, id, n) /\ state[j] \notin Lost
        /\ \A k : Shares(k, id, n) /\ k # j => number[k] # n
    BY <1>1, <2>1, <2>2, <2>4, MainChoice
  <2>6. ASSUME NEW k \in Job, k # j, IdentOf[k] = id, number[k] = n PROVE FALSE
    <3>1. CASE k = Root
      <4>1. id = RootIdent /\ n = RootNumber
        BY <2>6, <3>1, TreeAssumption DEF Sound, TypeInv, JobTypes, Standing
      <4>2. ParentCause(j) \in Range(builds[id][n].causes)
        BY <2>5 DEF Shares
      <4> QED BY <4>1, <4>2, RangeOfOne DEF Standing, Sound, RootCaused
    <3>2. CASE k # Root
      <4>1. Shares(k, id, n)
        BY <2>3, <2>4, <2>6, <3>2 DEF InOrder, Numbered
      <4> QED BY <2>5, <2>6, <4>1
    <3> QED BY <3>1, <3>2
  <2> QED BY <2>1, <2>3, <2>5, <2>6
<1>5. state[j] \in Ran \/ state[j] \in Unresolved
  BY <1>1, <1>2, <1>4 DEF Standing, Sound, TypeInv, JobTypes, JobState, Ran, Running, Lost, Unresolved,
     JobsOK, JobOK
<1>6. PICK g : g = Call("JoinOthers", j)
  OBVIOUS
<1>7. PICK h : h = Call("Finishing", j)
  OBVIOUS
<1>8. /\ g \in Frame /\ g.op = "JoinOthers" /\ g.job = j
      /\ h \in Frame /\ h.op = "Finishing" /\ h.job = j /\ (~opts.console => CallFits(h)')
  BY <1>1, <1>6, <1>7, CallType DEF JobOps, Call, CallFits, Lasting
<1>9. ASSUME state[j] \in Ran, opts.console PROVE TreeInv'
  <2>1. UNCHANGED <<state, number>> /\ Proceed(<<g>> \o Tail(todo))
    BY <1>6, <1>9 DEF SetStreaming, Ran, Running
  <2>2. j # Root => number[j] # 0
    BY <1>1, <1>9 DEF Standing, TreeInv, InOrder, Numbered
  <2>3. CallFits(g)'
    BY <1>8, <2>1, <2>2 DEF CallFits
  <2>4. Pushes(<<g>>)
    BY <1>1, <1>8, <2>1, <2>3, PushesOne
  <2>5. Head(todo).op = "Streaming"
    BY <1>1
  <2> QED BY <1>1, <2>1, <2>4, <2>5, StillTree
<1>10. ASSUME state[j] \in Unresolved PROVE TreeInv'
  <2> DEFINE k == IF j = Root THEN number[Root] ELSE n
  <2>1. "Streaming" # state[j] /\ Valid(state[j], "Streaming")
    BY <1>10, ValidMoves DEF Unresolved
  <2>2. /\ state' = [state EXCEPT ![j] = "Streaming"]
        /\ \/ ~opts.console /\ UNCHANGED number /\ Proceed(<<h>> \o Tail(todo))
           \/ opts.console /\ number' = [number EXCEPT ![j] = n] /\ Proceed(<<g>> \o Tail(todo))
    BY <1>6, <1>7, <1>10, <2>1 DEF SetStreaming, ChangeState, Unresolved, Ran, Running
  <2>3. number' = [number EXCEPT ![j] = k]
    BY <1>1, <1>2, <1>3, <2>2 DEF Standing, Sound, TypeInv, JobTypes
  <2>4. \E c : Pushes(c)
    <3>1. CASE ~opts.console /\ Proceed(<<h>> \o Tail(todo))
      BY <1>1, <1>8, <3>1, PushesOne
    <3>2. CASE opts.console /\ Proceed(<<g>> \o Tail(todo))
      <4>1. j # Root => number'[j] # 0
        BY <1>1, <1>4, <2>3 DEF Standing, Sound, TypeInv, JobTypes
      <4>2. CallFits(g)'
        BY <1>8, <4>1 DEF CallFits
      <4> QED BY <1>1, <1>8, <3>2, <4>2, PushesOne
    <3> QED BY <2>2, <3>1, <3>2
  <2>5. PICK c : Pushes(c)
    BY <2>4
  <2>6. IF j = Root THEN k = number[j]
        ELSE /\ k # 0 /\ k \in search[id].found /\ Shares(j, id, k)
             /\ \A l \in Job : l # j /\ IdentOf[l] = id => number[l] # k
    BY <1>4
  <2>7. Head(todo).op = "Streaming" /\ (j = Root \/ Below(j, Ran))
    BY <1>1, <1>2
  <2> HIDE DEF k, n
  <2> QED BY <1>1, <1>10, <2>2, <2>3, <2>5, <2>6, <2>7, StartTree
<1> QED BY <1>3, <1>2, <1>5, <1>9, <1>10 DEF Unresolved

LEMMA SetFinishingTree ==
  ASSUME Standing, Lasting, todo # <<>>, NEW f, f = Head(todo), SetFinishing(f)
  PROVE  TreeInv'
<1> DEFINE j == f.job
<1>1. /\ f \in Frame /\ f.op = "Finishing" /\ CallOK(f) /\ CallTypes /\ j \in Job
      /\ UNCHANGED <<allJobs, joined, number, work, search>>
  BY HeadOK DEF SetFinishing, JobOps
<1>2. state[j] = "Streaming" /\ "Streaming" # "Finishing" /\ Valid("Streaming", "Finishing")
  BY <1>1, ValidMoves DEF CallOK
<1>3. state' = [state EXCEPT ![j] = "Finishing"] /\ Proceed(Tail(todo))
  BY <1>2 DEF SetFinishing, ChangeState
<1>4. Pushes(<<>>)
  BY <1>1, <1>3, PushesNone
<1>5. j = Root \/ Below(j, Ran)
  BY <1>1, <1>2 DEF Standing, Sound, JobsOK, JobOK, Ran, Running
<1>6. ~Below(j, Lost)
  BY <1>5 DEF Below, Lost, Ran, Running
<1>7. /\ \A k \in Job \ {Root} : state'[k] \in Ran => state[k] \in Ran
      /\ \A k \in Job \ {Root} : state'[k] = "Queued" => state[k] = "Queued"
      /\ \A k \in Job : state'[k] = "Joined" => state[k] = "Joined"
  BY <1>1, <1>2, <1>3 DEF Standing, Sound, TypeInv, JobTypes, Ran, Running
<1>8. InOrder'
  BY <1>1, <1>7, InOrderKept DEF Standing, TreeInv
<1>9. "Finishing" \in Ran /\ "Finishing" \notin Lost \cup {"New"} /\ ~opts.pipeline
  BY <1>1, HeadOK DEF Ran, Running, Lost, CallFits, Standing, Live, Mode
<1>10. Head(todo).op = "Finishing"
  BY <1>1
<1> QED BY <1>1, <1>3, <1>4, <1>6, <1>8, <1>9, <1>10, SameWork, MovedTree

LEMMA JoinOthersTree ==
  ASSUME Standing, Lasting, todo # <<>>, UNCHANGED serverVars, NEW f, f = Head(todo),
         JoinOthersToMe(f)
  PROVE  TreeInv'
<1> DEFINE j == f.job
           id == IdentOf[j]
           n == number[j]
           others == Secondary(id, n)
           c == [i \in DOMAIN others |-> CallWith("JoinUnlessCut", others[i], j)]
<1>1. /\ f \in Frame /\ f.op = "JoinOthers" /\ CallFits(f) /\ CallTypes /\ j \in Job /\ id \in Ident
      /\ UNCHANGED <<allJobs, state, joined, number, work, search>>
  BY HeadOK DEF JoinOthersToMe, JobOps, jobVars
<1>2. ASSUME NEW d, Pushes(d) PROVE TreeInv'
  <2>1. Head(todo).op = "JoinOthers"
    BY <1>1
  <2> QED BY <1>1, <1>2, <2>1, StillTree
<1>3. CASE j = Root
  <2>1. Proceed(Tail(todo))
    BY <1>3 DEF JoinOthersToMe
  <2> QED BY <1>1, <1>2, <2>1, PushesNone
<1>4. CASE j # Root
  <2>1. /\ n # 0 /\ n \in search[id].found /\ Shares(j, id, n)
        /\ Sound /\ InOrder /\ TypeInv
    BY <1>1, <1>4 DEF CallFits, Standing, Sound, TreeInv, InOrder, Numbered
  <2>2. n \in 1..Len(builds[id])
    BY <1>1, <2>1 DEF FoundExist, TypeInv
  <2>3. ~Undetermined(id, n)
    BY <1>1, <2>1, <2>2, NeverAmbiguous DEF Standing, Known, Undetermined
  <2>4. MainJob(id, n) = j
    BY <1>1, <2>1, <2>2, MainChoice
  <2>5. IsMaster(j)
    BY <1>1, <2>1, MasterFollows
  <2>6. todo' = c \o Tail(todo)
    BY <1>4, <2>1, <2>3, <2>4 DEF JoinOthersToMe, Proceed
  <2>7. others \in Seq(Job)
    <3>1. others \in Seq(Job \ {Root})
      BY <1>1, <2>1, <2>2, MainJobTypes DEF TypeInv
    <3> HIDE DEF others
    <3> QED BY <3>1, ElementOfSeq
  <2>8. c \in Seq(Frame)
    <3> HIDE DEF others
    <3> QED BY <1>1, <2>7, CallsWithType DEF JobOps
  <2>9. ASSUME NEW g \in Range(c) PROVE g.op # "InitEnd" /\ CallFits(g)'
    <3>1. PICK i \in DOMAIN others : g = CallWith("JoinUnlessCut", others[i], j)
      BY RangeIsDomain
    <3>2. others[i] \in Range(others)
      BY RangeIsDomain
    <3>3. PICK k, m : k = others[i] /\ m = n
      OBVIOUS
    <3>4. Shares(k, id, m) /\ ~IsMaster(k) /\ k \in Job
      BY <1>1, <2>1, <2>2, <3>2, <3>3, SecondaryShares
    <3>5. k # j /\ IdentOf[k] = id /\ number[j] = m
      BY <2>5, <3>3, <3>4 DEF Shares
    <3>6. Ahead(j, k, m)
      BY <2>1, <3>3, <3>4, <3>5 DEF Ahead
    <3>7. Ahead(j, k, m)' /\ number'[j] = m /\ m # 0
      BY <1>1, <2>1, <3>3, <3>4, <3>6 DEF Lasting
    <3>8. PICK l : l = j
      OBVIOUS
    <3>9. g.op = "JoinUnlessCut" /\ g.job = k /\ g.main = l
      BY <3>1, <3>3, <3>8 DEF CallWith
    <3>10. Ahead(l, k, m)' /\ number'[l] = m /\ m # 0
      BY <3>7, <3>8
    <3> QED BY <3>9, <3>10 DEF CallFits
  <2>10. Pushes(c)
    <3> HIDE DEF c
    <3> QED BY <2>6, <2>8, <2>9 DEF Pushes
  <2> QED BY <1>2, <2>10
<1> QED BY <1>3, <1>4

LEMMA CutAllEvery ==
  ASSUME JobTypes, NEW j \in Job, NEW k \in Job \ {Root}, k \in Tracked, ParentOf(k) = j
  PROVE  \E g \in Range(CutAll(Children(j))) : g.op = "Cut" /\ g.job = k
<1>1. k \in Range(Kids[j]) /\ Kids[j] \in Seq(Job)
  BY ParentIsJob, TreeAssumption
<1>2. k \in Range(Children(j))
  BY <1>1, AmongRange DEF Children
<1>3. PICK i \in DOMAIN Children(j) : Children(j)[i] = k
  BY <1>2, RangeIsDomain
<1>4. CutAll(Children(j))[i] = Call("Cut", k) /\ i \in DOMAIN CutAll(Children(j))
  BY <1>3 DEF CutAll
<1>5. Call("Cut", k) \in Range(CutAll(Children(j)))
  BY <1>4, RangeIsDomain
<1> QED BY <1>5 DEF Call

LEMMA PushesCut ==
  ASSUME JobTypes, CallTypes, todo # <<>>, NEW j \in Job, UNCHANGED allJobs,
         Proceed(CutAll(Children(j)) \o Tail(todo))
  PROVE  Pushes(CutAll(Children(j)))
<1>1. /\ CutAll(Children(j)) \in Seq(Frame)
      /\ \A g \in Range(CutAll(Children(j))) : g.op = "Cut"
  BY CutAllCalls
<1>2. \A g \in Range(CutAll(Children(j))) : g.op # "InitEnd" /\ CallFits(g)'
  BY <1>1 DEF CallFits
<1> QED BY <1>1, <1>2 DEF Pushes, Proceed

LEMMA SetJoinedTree ==
  ASSUME Standing, Lasting, todo # <<>>, UNCHANGED serverVars, NEW f, f = Head(todo), SetJoined(f)
  PROVE  TreeInv'
<1> DEFINE j == f.job
           m == f.main
           c == CutAll(Children(j))
<1>1. /\ f \in Frame /\ f.op \in {"Join", "JoinUnlessCut"} /\ CallOK(f) /\ CallFits(f) /\ CallTypes
      /\ j \in Job /\ m \in Job /\ IdentOf[j] \in Ident
      /\ UNCHANGED <<allJobs, number, work, search>>
  BY HeadOK DEF SetJoined, JobOps
<1>2. state[j] \in Unresolved \cup {"Joined"} /\ Below(j, Ran)
  BY <1>1 DEF CallOK
<1>3. \E n \in 1..Len(builds[IdentOf[j]]) : Ahead(m, j, n)
  <2>1. CASE f.op = "Join"
    BY <1>1, <2>1 DEF CallFits
  <2>2. CASE f.op = "JoinUnlessCut"
    BY <1>1, <2>2 DEF CallFits, Ahead, Shares
  <2> QED BY <1>1, <2>1, <2>2
<1>4. m # j /\ state[m] \notin Lost
  <2>1. m # j /\ m # Root
    BY <1>3 DEF Ahead, Shares
  <2>2. CASE f.op = "Join"
    BY <1>1, <2>1, <2>2 DEF CallFits
  <2>3. CASE f.op = "JoinUnlessCut"
    BY <1>1, <2>1, <2>3 DEF CallFits, Standing, Sound, JobsOK, JobOK, Lost, Ran, Running
  <2> QED BY <1>1, <2>1, <2>2, <2>3
<1>5. /\ joined' = [joined EXCEPT ![j] = m] /\ state' = [state EXCEPT ![j] = "Joined"]
      /\ IF (state[j] # "Joined" /\ ~Valid(state[j], "Joined")) \/ state'[m] \in {"Joined", "Cut"}
         THEN Raise ELSE Proceed(c \o Tail(todo))
  BY <1>2 DEF SetJoined, Unresolved
<1>6. state'[m] = state[m] /\ state'[j] = "Joined" /\ \A k \in Job : k # j => state'[k] = state[k]
  BY <1>1, <1>4, <1>5 DEF Standing, Sound, TypeInv, JobTypes
<1>7. Proceed(c \o Tail(todo))
  BY <1>2, <1>4, <1>5, <1>6, ValidMoves DEF Lost
<1>8. Pushes(c)
  BY <1>1, <1>7, PushesCut DEF Standing, Sound, TypeInv
<1>9. \A k \in Job \ {Root} : k \in Tracked /\ ParentOf(k) = j => HasCall("Cut", k)'
  <2> SUFFICES ASSUME NEW k \in Job \ {Root}, k \in Tracked, ParentOf(k) = j PROVE HasCall("Cut", k)'
    OBVIOUS
  <2>1. PICK g \in Range(c) : g.op = "Cut" /\ g.job = k
    BY <1>1, CutAllEvery DEF Standing, Sound, TypeInv
  <2> HIDE DEF c
  <2> QED BY <1>8, <2>1, Pushed
<1> HIDE DEF c
<1>10. InOrder'
  <2>0. InOrder
    BY DEF Standing, TreeInv
  <2>1. Numbered'
    <3>1. SUFFICES ASSUME NEW k \in Job \ {Root}
                   PROVE  /\ number'[k] # 0 => /\ number'[k] \in search'[IdentOf[k]].found
                                               /\ Shares(k, IdentOf[k], number[k])'
                          /\ state'[k] \in Ran => number'[k] # 0
      BY DEF Numbered
    <3>2. IdentOf[k] \in Ident
      BY TreeAssumption
    <3>3. PICK l : l = number[k]
      OBVIOUS
    <3>4. l # 0 => l \in search[IdentOf[k]].found /\ Shares(k, IdentOf[k], l)
      BY <2>0, <3>3 DEF InOrder, Numbered
    <3>5. l # 0 => Shares(k, IdentOf[k], l)' /\ l \in search'[IdentOf[k]].found
      BY <1>1, <3>2, <3>4 DEF Lasting
    <3>6. state'[k] \in Ran => l # 0
      BY <1>6, <2>0, <3>3 DEF InOrder, Numbered, Ran, Running
    <3> QED BY <1>1, <3>3, <3>5, <3>6
  <2>2. OneTracker'
    BY <1>1, <2>0 DEF InOrder, OneTracker
  <2>3. JoinedAhead'
    <3>1. SUFFICES ASSUME NEW p \in Job, state'[p] = "Joined"
                   PROVE  /\ joined'[p] \in Job
                          /\ \E n \in 1..Len(builds'[IdentOf[p]]) : Ahead(joined[p], p, n)'
      BY DEF JoinedAhead
    <3>2. PICK q : q = joined'[p]
      OBVIOUS
    <3>3. q \in Job /\ \E n \in 1..Len(builds[IdentOf[p]]) : Ahead(q, p, n)
      <4>1. CASE p = j
        BY <1>1, <1>3, <1>5, <3>2, <4>1 DEF Standing, Sound, TypeInv, JobTypes
      <4>2. CASE p # j
        <5>1. joined[p] = q /\ state[p] = "Joined"
          BY <1>1, <1>5, <1>6, <3>1, <3>2, <4>2 DEF Standing, Sound, TypeInv, JobTypes
        <5> QED BY <2>0, <5>1 DEF InOrder, JoinedAhead
      <4> QED BY <4>1, <4>2
    <3>4. \E n \in 1..Len(builds'[IdentOf[p]]) : Ahead(q, p, n)'
      BY <3>3, TreeAssumption DEF Lasting, Extends, ExtendsAt
    <3> QED BY <3>2, <3>3, <3>4
  <2>4. NeverQueued'
    BY <1>6, <2>0 DEF InOrder, NeverQueued
  <2> QED BY <2>1, <2>2, <2>3, <2>4 DEF InOrder
<1>11. /\ ~Below(j, Lost) /\ state[j] \notin Ran /\ "Joined" \notin {"New", "Finishing", "Done", "Queued"}
       /\ Head(todo).op \in {"Join", "JoinUnlessCut"}
  BY <1>1, <1>2 DEF Below, Lost, Ran, Running, Unresolved
<1>12. WorkMoves
  BY <1>1, SameWork
<1> QED BY <1>1, <1>5, <1>8, <1>9, <1>10, <1>11, <1>12, MovedTree

LEMMA CutTree ==
  ASSUME Standing, Lasting, todo # <<>>, NEW f, f = Head(todo), Cut(f)
  PROVE  TreeInv'
<1> DEFINE j == f.job
           c == CutAll(Children(j))
<1>1. /\ f \in Frame /\ f.op = "Cut" /\ CallOK(f) /\ CallTypes /\ j \in Job
      /\ UNCHANGED <<allJobs, joined, number, work, search>>
  BY HeadOK DEF Cut, JobOps
<1>2. Below(j, {"Joined", "Cut"})
  BY <1>1 DEF CallOK
<1>3. state[j] \in {"New", "Locating", "Cut"}
  <2>1. JobOK(j) /\ state[j] \in JobState
    BY <1>1 DEF Standing, Sound, JobsOK, TypeInv, JobTypes
  <2>2. ~Below(j, Ran) /\ j # Root
    BY <1>2 DEF Below, Ran, Running
  <2> QED BY <2>1, <2>2 DEF JobOK, JobState, Ran, Running
<1>4. state' = [state EXCEPT ![j] = "Cut"] /\ Proceed(c \o Tail(todo))
  BY <1>3, ValidMoves DEF Cut, ChangeState, Unresolved
<1>5. Pushes(c)
  BY <1>1, <1>4, PushesCut DEF Standing, Sound, TypeInv
<1>6. \A k \in Job \ {Root} : k \in Tracked /\ ParentOf(k) = j => HasCall("Cut", k)'
  <2> SUFFICES ASSUME NEW k \in Job \ {Root}, k \in Tracked, ParentOf(k) = j PROVE HasCall("Cut", k)'
    OBVIOUS
  <2>1. PICK g \in Range(c) : g.op = "Cut" /\ g.job = k
    BY <1>1, CutAllEvery DEF Standing, Sound, TypeInv
  <2> HIDE DEF c
  <2> QED BY <1>5, <2>1, Pushed
<1> HIDE DEF c
<1>7. /\ \A k \in Job \ {Root} : state'[k] \in Ran => state[k] \in Ran
      /\ \A k \in Job \ {Root} : state'[k] = "Queued" => state[k] = "Queued"
      /\ \A k \in Job : state'[k] = "Joined" => state[k] = "Joined"
  BY <1>1, <1>4 DEF Standing, Sound, TypeInv, JobTypes, Ran, Running
<1>8. InOrder'
  BY <1>1, <1>7, InOrderKept DEF Standing, TreeInv
<1>9. state[j] \notin Ran /\ "Cut" \notin {"New", "Finishing", "Done", "Queued"} /\ Head(todo).op = "Cut" /\ Head(todo).job = j
  BY <1>1, <1>3 DEF Ran, Running
<1> QED BY <1>1, <1>4, <1>5, <1>6, <1>8, <1>9, SameWork, MovedTree

(* The end of an initialisation is the last call of its callback. *)
LEMMA EndAlone ==
  ASSUME CallTypes, InitEndLast, todo # <<>>, Head(todo).op = "InitEnd"
  PROVE  Range(todo) = {Head(todo)}
<1>1. /\ todo \in Seq(Frame) /\ DOMAIN todo = 1..Len(todo) /\ Len(todo) \in Nat
      /\ todo[1] = Head(todo) /\ 1 \in DOMAIN todo
  BY LenProperties, EmptySeq DEF CallTypes
<1>2. Len(todo) = 1
  BY <1>1 DEF InitEndLast
<1> QED BY <1>1, <1>2, RangeIsDomain

LEMMA EndInitializeTree ==
  ASSUME Standing, Lasting, todo # <<>>, NEW f, f = Head(todo), EndInitialize(f)
  PROVE  TreeInv'
<1> DEFINE j == f.job
           s == IF state[j] = "New" THEN "Locating" ELSE state[j]
<1>1. /\ f \in Frame /\ f.op = "InitEnd" /\ CallOK(f) /\ CallTypes /\ j \in Job /\ j \in Tracked
      /\ UNCHANGED <<allJobs, joined, number, search>> /\ Proceed(Tail(todo))
  BY HeadOK DEF EndInitialize, JobOps
<1>2. state' = [state EXCEPT ![j] = s] /\ work' = [work EXCEPT ![j] = "idle"]
  BY <1>1 DEF EndInitialize, Standing, Sound, TypeInv, JobTypes
<1>3. Pushes(<<>>)
  BY <1>1, PushesNone
<1>4. WorkMoves
  BY <1>2 DEF WorkMoves, Standing, Sound, TypeInv, JobTypes
<1>5. Range(todo) = {f}
  BY <1>1, EndAlone DEF Standing, TreeInv
<1>6. f \in Range(todo)
  BY <1>5
<1>7. state[j] = "New" => ~Below(j, Lost)
  <2> SUFFICES ASSUME state[j] = "New", Below(j, Lost) PROVE FALSE
    OBVIOUS
  <2>1. j \in Job \ {Root}
    BY <1>1 DEF Below
  <2>2. HasCall("InitEnd", j) /\ ~HasCall("Cut", j) /\ ~HasCall("Resolve", j)
    BY <1>1, <1>5, <1>6 DEF HasCall
  <2> QED BY <1>1, <2>1, <2>2 DEF Standing, TreeInv, OrphansCut
<1>8. /\ \A k \in Job \ {Root} : state'[k] \in Ran => state[k] \in Ran
      /\ \A k \in Job \ {Root} : state'[k] = "Queued" => state[k] = "Queued"
      /\ \A k \in Job : state'[k] = "Joined" => state[k] = "Joined"
  BY <1>1, <1>2 DEF Standing, Sound, TypeInv, JobTypes, Ran, Running
<1>9. InOrder'
  BY <1>1, <1>8, InOrderKept DEF Standing, TreeInv
<1>10. /\ state[j] \in Ran => s \in Ran
       /\ s = "New" => state[j] = "New"
       /\ s \in {"Cut", state[j]} \/ ~Below(j, Lost)
       /\ s \in Lost => state[j] \in Lost
       /\ s \in {"Finishing", "Done", "Queued"} => s = state[j]
       /\ Head(todo).op = "InitEnd" /\ Head(todo).job = j /\ s # "New"
  BY <1>1, <1>7 DEF Ran, Running, Lost
<1> HIDE DEF s
<1> QED BY <1>1, <1>2, <1>3, <1>4, <1>9, <1>10, MovedTree

LEMMA SearchCallTree ==
  ASSUME Standing, Lasting, todo # <<>>, NEW f, f = Head(todo), Decide(f) \/ Advance(f)
  PROVE  TreeInv'
<1>1. /\ f.op \in {"Decide", "Advance"} /\ Proceed(Tail(todo)) /\ CallTypes
      /\ UNCHANGED <<allJobs, state, number, joined, work>>
  BY HeadOK DEF Decide, Advance, jobVars
<1>2. Pushes(<<>>) /\ Head(todo).op \in {"Decide", "Advance"}
  BY <1>1, PushesNone
<1> QED BY <1>1, <1>2, StillTree

LEMMA ContinueTree ==
  ASSUME Standing, Lasting, Continue
  PROVE  TreeInv'
<1>1. todo # <<>> /\ UNCHANGED serverVars
  BY DEF Continue
<1>2. PICK f : f = Head(todo)
  OBVIOUS
<1>3. \/ Resolve(f)      \/ SetStreaming(f) \/ SetFinishing(f)
      \/ JoinOthersToMe(f) \/ SetJoined(f)  \/ Cut(f)
      \/ EndInitialize(f) \/ Decide(f)      \/ Advance(f)
  BY <1>2 DEF Continue
<1> QED BY <1>1, <1>2, <1>3, ResolveTree, SetStreamingTree, SetFinishingTree, JoinOthersTree,
        SetJoinedTree, CutTree, EndInitializeTree, SearchCallTree

-----------------------------------------------------------------------------
(* Every step.                                                              *)
LEMMA StutterTree ==
  ASSUME TreeInv, Lasting, UNCHANGED vars
  PROVE  TreeInv'
<1>1. UNCHANGED <<builds, allJobs, state, number, joined, work, search, todo, opts>>
  BY DEF vars, serverVars, jobVars, queueVars
<1>2. InOrder' /\ TreeGrows'
  BY <1>1, InOrderKept, GrowsKept, SameWork DEF TreeInv
<1>3. InitEndLast'
  BY <1>1 DEF InitEndLast, TreeInv
<1>4. CallsFit'
  <2> SUFFICES ASSUME NEW f \in Range(todo) PROVE CallFits(f)'
    BY <1>1 DEF CallsFit
  <2>1. CallFits(f)
    BY DEF TreeInv, CallsFit
  <2>2. \A id, n : MainJob(id, n)' = MainJob(id, n)
    BY <1>1, MainJobSame
  <2>3. \A q, p, n : Ahead(q, p, n)' <=> Ahead(q, p, n)
    BY <1>1 DEF Ahead, Shares, Earlier, ParentCause, ChildOf, Children, Tracked
  <2> QED BY <1>1, <2>1, <2>2, <2>3 DEF CallFits, Tracked
<1>5. OrphansCut'
  BY <1>1 DEF TreeInv, OrphansCut, HasCall, Below, Tracked
<1>6. NewBelowNew'
  BY <1>1 DEF TreeInv, NewBelowNew, HasCall, Below, Tracked
<1>7. BegunLater'
  BY <1>1 DEF TreeInv, BegunLater, Lasting
<1> QED BY <1>2, <1>3, <1>4, <1>5, <1>6, <1>7 DEF TreeInv

LEMMA JobStepTree ==
  ASSUME ~Plugin, Standing, Lasting, Moves, NEW j \in Job, JobStep(j)
  PROVE  TreeInv'
<1>0. TypeInv /\ TreeInv /\ TreeGrows /\ JobTypes /\ Live /\ JobsOK
  BY DEF Standing, Sound, TreeInv, TypeInv
<1>1. ASSUME todo = <<>>, CallbackStep, todo' = <<>> PROVE TreeInv'
  <2>1. CallsFit' /\ \A f \in Range(todo') : f.op # "InitEnd"
    BY <1>1, RangeOfOne DEF CallsFit
  <2> QED BY <1>0, <1>1, <2>1, CallbackTree
<1>2. CASE ~InitThen(j)
  BY <1>0, <1>1, <1>2, JobCallback
<1>3. CASE InitThen(j)
  <2>1. CASE Expands(j)
    BY <1>0, <1>3, <2>1, ExpandTree
  <2>2. CASE StayIdle(j)
    <3>1. work[j] = "then" /\ work[j] # "idle" /\ todo = <<>>
      BY <1>0, <1>3, InitThenFacts
    <3>2. UNCHANGED <<allJobs, number, joined, state>> /\ UNCHANGED todo
          /\ work' = [work EXCEPT ![j] = "idle"]
      BY <2>2 DEF StayIdle
    <3>3. CallbackStep /\ todo' = <<>>
      BY <1>0, <3>1, <3>2, WorkCallback
    <3> QED BY <1>1, <3>1, <3>3
  <2> QED BY <1>0, <1>3, <2>1, <2>2, InitThenFacts
<1> QED BY <1>2, <1>3

LEMMA TreeNext ==
  ASSUME ~Plugin, LifeInv, History0, TreeInv, exited \/ Known, [Next]_vars
  PROVE  TreeInv' /\ Lasting /\ Moves
<1>1. TypeInv /\ CausesReal /\ OneConsoleWriter /\ JobsOK
  BY DEF LifeInv, Lawful
<1>2. Moves /\ Extends /\ TreeGrows
  BY LifeGoes, HistoryNext, <1>1 DEF TreeInv
<1>3. Lasting
  BY <1>1, <1>2, Lasts
<1>4. CASE UNCHANGED vars
  BY <1>2, <1>3, <1>4, StutterTree
<1>5. CASE Next /\ ~exited
  <2>1. Standing
    BY <1>1, <1>5 DEF Standing, Sound, Live, LifeInv, Lawful, History0
  <2>2. CASE Continue
    BY <1>2, <1>3, <2>1, <2>2, ContinueTree
  <2>3. ASSUME NEW j \in Job, JobStep(j) PROVE TreeInv'
    BY <1>1, <1>2, <1>3, <2>1, <2>3, JobStepTree
  <2>4. CASE ~Continue /\ \A j \in Job : ~JobStep(j)
    <3>1. CallbackStep
      BY <1>1, <2>4, OthersCallback
    <3>2. ASSUME NEW id \in Ident, SearchStep(id) PROVE TreeInv'
      <4>1. todo = <<>>
        BY <3>2 DEF SearchStep, CtorResponse, SearchTimer, LocateResponse, Quiet, Idle
      <4> QED BY <1>1, <1>2, <1>3, <3>1, <3>2, <4>1, SearchCallsFit, CallbackTree
    <3>3. CASE Tick \/ SummaryStep \/ Server
      <4>1. todo = <<>> /\ todo' = <<>>
        BY <3>3 DEF Tick, SummaryStep, IsPipelineResponse, ReportResponse, Summarize, WriteFile,
           Server, ServerProgress, ServerDoes, Quiet, Idle
      <4>2. CallsFit' /\ \A f \in Range(todo') : f.op # "InitEnd"
        BY <4>1, RangeOfOne DEF CallsFit
      <4> QED BY <1>1, <1>2, <1>3, <3>1, <4>1, <4>2, CallbackTree
    <3> QED BY <1>2, <1>3, <1>5, <2>4, <3>2, <3>3 DEF Next
  <2> QED BY <1>2, <1>3, <2>2, <2>3, <2>4
<1> QED BY <1>2, <1>3, <1>4, <1>5, ExitIsLast

LEMMA TreeInit == Init => TreeInv
<1> SUFFICES ASSUME Init PROVE TreeInv
  OBVIOUS
<1>1. /\ allJobs = <<Root>> /\ todo = <<>> /\ state = [j \in Job |-> "New"]
      /\ number = [j \in Job |-> IF j = Root THEN RootNumber ELSE 0]
      /\ joined = [j \in Job |-> NoJob]
      /\ work = [j \in Job |-> IF j = Root THEN "init" ELSE "idle"]
  BY DEF Init, TrackerInit
<1>2. Tracked = {Root} /\ Range(todo) = {}
  BY <1>1, RangeOfOne DEF Tracked
<1>3. InOrder
  BY <1>1 DEF InOrder, Numbered, OneTracker, JoinedAhead, NeverQueued, Ran, Running
<1>4. TreeGrows
  BY <1>1, <1>2 DEF TreeGrows, Childless
<1>5. InitEndLast /\ CallsFit
  BY <1>1, <1>2 DEF InitEndLast, CallsFit
<1>6. OrphansCut
  BY <1>1, <1>2 DEF OrphansCut, HasCall
<1>7. NewBelowNew
  BY <1>1, <1>2 DEF NewBelowNew
<1>8. BegunLater
  BY <1>1 DEF BegunLater
<1> QED BY <1>3, <1>4, <1>5, <1>6, <1>7, <1>8 DEF TreeInv

LEMMA KnownInit == Init => Known
  BY DEF Init, TrackerInit, Known

(* Every build a search can see has causes, or the failure ends the process.*)
CausesShown == Uncaused = {} \/ ExitOnFailed

LEMMA KnownNext ==
  ASSUME CausesShown, TypeInv, Extends, exited \/ Known, [Next]_vars
  PROVE  (exited \/ Known)'
<1>1. CASE exited
  BY <1>1, ExitIsLast DEF vars, outVars
<1>2. CASE Known /\ Uncaused = {}
  BY <1>2 DEF Known, HasCauses
<1>3. CASE Known /\ ExitOnFailed
  BY <1>3, KnownMoves DEF Report
<1> QED BY <1>1, <1>2, <1>3 DEF CausesShown

(* The inductive invariant of the theorems below.                           *)
TrackInv == LifeInv /\ History0 /\ TreeInv /\ (exited \/ Known)

LEMMA TrackInvariant == ASSUME Plain, CausesShown PROVE Spec => []TrackInv
<1>1. Init => TrackInv
  BY LifeInit, HistoryInit, TreeInit, KnownInit DEF TrackInv
<1>2. TrackInv /\ [Next]_vars => TrackInv'
  <2> SUFFICES ASSUME TrackInv, [Next]_vars PROVE TrackInv'
    OBVIOUS
  <2>1. LifeInv' /\ History0' /\ TreeInv' /\ Extends
    BY LifeNext, HistoryNext, TreeNext DEF TrackInv, LifeInv, Plain
  <2> QED BY <2>1, KnownNext DEF TrackInv, LifeInv
<1> QED BY <1>1, <1>2, PTL DEF Spec

(* No build is tracked by two jobs of the tree, however many upstream       *)
(* builds caused it and in whatever order the searches find it: FindJob has *)
(* one answer.                                                              *)
THEOREM TrackedOnce == ASSUME Plain, CausesShown PROVE Spec => []OneTrackerPerBuild
<1>1. TrackInv => OneTrackerPerBuild
  <2> SUFFICES ASSUME TrackInv PROVE OneTrackerPerBuild
    OBVIOUS
  <2>1. Tracked \subseteq Job /\ OneTracker
    BY RangeTracked DEF TrackInv, LifeInv, TypeInv, TreeInv, InOrder
  <2> QED BY <2>1 DEF OneTracker, OneTrackerPerBuild
<1> QED BY <1>1, TrackInvariant, PTL

(* Two assertions of DetermineMainJob and joinOthersToMe cannot fail: of the *)
(* jobs that share a build at most one is a master, and the job that takes   *)
(* a build is the main job of that build when it tells the others to join.   *)
(* The third, that the build shows causes, is for Jenkins to keep.           *)
THEOREM MainJobIsOne == ASSUME Plain, CausesShown PROVE Spec => []OneMainJob
<1>1. TrackInv => OneMainJob
  <2> SUFFICES ASSUME TrackInv PROVE OneMainJob
    OBVIOUS
  <2>1. Sound /\ InOrder /\ TypeInv /\ CallsFit
    BY DEF TrackInv, LifeInv, Lawful, History0, Sound, TreeInv
  <2>2. ASSUME NEW id \in Ident, NEW n \in search[id].found
        PROVE  n \in 1..Len(builds[id]) /\ ~Ambiguous(id, n)
    <3>1. n \in 1..Len(builds[id])
      BY <2>1 DEF TypeInv, FoundExist
    <3> QED BY <2>1, <3>1, NeverAmbiguous
  <2>3. ASSUME NEW i \in DOMAIN todo, todo[i].op = "JoinOthers", todo[i].job # Root
        PROVE  /\ number[todo[i].job] \in search[IdentOf[todo[i].job]].found
               /\ MainJob(IdentOf[todo[i].job], number[todo[i].job]) = todo[i].job
    <3>1. PICK f \in Range(todo) : f = todo[i]
      BY RangeIsDomain
    <3>2. f \in Frame
      BY <2>1, <3>1, RangeOfSeq DEF TypeInv, CallTypes
    <3>3. PICK j \in Job \ {Root} : j = f.job
      BY <2>3, <3>1, <3>2, JobCallFields DEF JobOps
    <3>4. number[j] # 0
      BY <2>1, <2>3, <3>1, <3>3 DEF CallsFit, CallFits
    <3>5. IdentOf[j] \in Ident
      BY TreeAssumption
    <3>6. number[j] \in search[IdentOf[j]].found /\ Shares(j, IdentOf[j], number[j])
      BY <2>1, <3>4 DEF InOrder, Numbered
    <3>7. MainJob(IdentOf[j], number[j]) = j
      BY <2>1, <2>2, <3>5, <3>6, MainChoice
    <3> QED BY <3>1, <3>3, <3>6, <3>7
  <2> QED BY <2>2, <2>3 DEF OneMainJob
<1> QED BY <1>1, TrackInvariant, PTL

(* Between callbacks nothing below a joined or cut job is still sought,      *)
(* whatever joined or cut it and whenever its children were created.         *)
THEOREM OrphansAreCut == ASSUME Plain, CausesShown PROVE Spec => []NoOrphans
<1>1. TrackInv => NoOrphans
  <2> SUFFICES ASSUME TrackInv, todo = <<>>, NEW j \in Tracked \ {Root},
                      state[ParentOf(j)] \in {"Joined", "Cut"}
               PROVE  state[j] \in {"New", "Cut"}
    BY DEF NoOrphans
  <2>1. j \in Job \ {Root} /\ Below(j, Lost) /\ OrphansCut
    BY RangeTracked DEF TrackInv, LifeInv, TypeInv, TreeInv, Below, Lost
  <2> QED BY <2>1, NoCalls DEF OrphansCut
<1> QED BY <1>1, TrackInvariant, PTL

-----------------------------------------------------------------------------
(* What the task says at its end.                                           *)
Told ==
  /\ exited => "Failed" \in verdicts
  /\ opts.shouldFail => "Failed" \in verdicts /\ ~opts.pipeline
  /\ summary # "none" => ~interval
  /\ complete => ~interval
  /\ summary = "done" /\ ~complete => "Failed" \in verdicts
  /\ "Succeeded" \in verdicts => complete

(* When every job has come to an end none of them failed, and what is       *)
(* created after that below joined or cut jobs will be cut.                 *)
Settled ==
  complete => \A j \in Tracked :
    /\ \/ state[j] \in {"Done", "Queued", "Joined", "Cut"}
       \/ state[j] = "New" /\ Below(j, {"Joined", "Cut", "New"})
    /\ ~HasFailed(j)

LEMMA QueueSteps ==
  ASSUME [Next]_vars
  PROVE  \/ UNCHANGED queueVars /\ (UNCHANGED outVars \/ Report("Failed"))
         \/ Tick
         \/ SummaryStep
         \/ /\ opts' = [console |-> FALSE, pipeline |-> FALSE, shouldFail |-> TRUE]
            /\ UNCHANGED <<interval, complete, summary>> /\ Report("Failed")
<1>1. CASE Continue
  BY <1>1 DEF Continue, Resolve, SetStreaming, SetFinishing, JoinOthersToMe, SetJoined, Cut,
     EndInitialize, Decide, Advance, ChangeState, Proceed, Raise
<1>2. ASSUME NEW j \in Job, JobStep(j), ~StreamResponse(j)
      PROVE  UNCHANGED queueVars /\ (UNCHANGED outVars \/ Report("Failed"))
  BY <1>2 DEF JobStep, InitResponse, InitThen, JobTimer, FinishResponse, DownloadResponse,
     StayIdle, StopWork, Wait, ChangeState, Proceed, Raise, outVars
<1>3. ASSUME NEW j \in Job, StreamResponse(j)
      PROVE  \/ UNCHANGED queueVars /\ (UNCHANGED outVars \/ Report("Failed"))
             \/ /\ opts' = [console |-> FALSE, pipeline |-> FALSE, shouldFail |-> TRUE]
                /\ UNCHANGED <<interval, complete, summary>> /\ Report("Failed")
  BY <1>3 DEF StreamResponse, StayIdle, StopWork, Wait, ChangeState, Proceed, Raise, outVars, queueVars
<1>4. ASSUME NEW id \in Ident, SearchStep(id)
      PROVE  UNCHANGED queueVars /\ (UNCHANGED outVars \/ Report("Failed"))
  BY <1>4 DEF SearchStep, CtorResponse, SearchTimer, LocateResponse, Proceed, Raise, outVars
<1>5. CASE Server \/ UNCHANGED vars
  BY <1>5 DEF Server, ServerProgress, ServerDoes, vars
<1> QED BY <1>1, <1>2, <1>3, <1>4, <1>5 DEF Next

LEMMA ToldNext ==
  ASSUME TypeInv, Told, [Next]_vars
  PROVE  /\ Told' /\ verdicts \subseteq verdicts' /\ (opts.shouldFail => opts'.shouldFail)
         /\ Tick \/ UNCHANGED <<interval, complete>>
<1>1. CASE UNCHANGED queueVars /\ (UNCHANGED outVars \/ Report("Failed"))
  BY <1>1 DEF Told, Report, queueVars, outVars
<1>2. CASE Tick
  BY <1>2 DEF Told, Tick, outVars
<1>3. CASE SummaryStep
  <2>1. UNCHANGED <<opts, interval, complete>> /\ summary # "none"
    BY <1>3 DEF SummaryStep, IsPipelineResponse, ReportResponse, Summarize, WriteFile
  <2>2. CASE IsPipelineResponse
    BY <2>1, <2>2 DEF IsPipelineResponse, Summarize, Told, outVars, Report
  <2>3. CASE ReportResponse
    BY <2>1, <2>3 DEF ReportResponse, Summarize, Told, outVars, Report
  <2>4. CASE WriteFile
    <3>1. FinalResult = "Failed" \/ (FinalResult = "Succeeded" /\ complete)
      BY DEF FinalResult
    <3>2. summary' = "done" /\ Report(FinalResult) /\ summary = "write"
      BY <2>4 DEF WriteFile
    <3>3. ~complete => FinalResult = "Failed"
      BY DEF FinalResult
    <3> HIDE DEF FinalResult
    <3> QED BY <2>1, <3>1, <3>2, <3>3 DEF Told, Report
  <2> QED BY <1>3, <2>1, <2>2, <2>3, <2>4 DEF SummaryStep
<1>4. CASE /\ opts' = [console |-> FALSE, pipeline |-> FALSE, shouldFail |-> TRUE]
           /\ UNCHANGED <<interval, complete, summary>> /\ Report("Failed")
  BY <1>4 DEF Told, Report
<1> QED BY <1>1, <1>2, <1>3, <1>4, QueueSteps

(* Only the end of its initialisation makes a job one to be located.        *)
LEMMA Locates ==
  ASSUME ~Plugin, TypeInv, Live, TreeInv, [Next]_vars, NEW j \in Job,
         state'[j] = "Locating", state[j] # "Locating"
  PROVE  /\ HasCall("InitEnd", j)
         /\ \A g \in Range(todo) : g.op = "InitEnd" /\ g.job = j
<1>1. ~Progress(j)
  BY DEF Progress
<1>2. ASSUME NEW k \in Job PROVE ~JobStep(k)
  <2>1. CASE ~InitThen(k)
    BY <1>1, <2>1, JobCallback DEF TreeInv, CallbackStep
  <2>2. CASE InitThen(k)
    BY <2>2, InitThenFacts
  <2> QED BY <2>1, <2>2
<1>3. Continue
  BY <1>1, <1>2, OthersCallback DEF CallbackStep
<1>4. PICK f : f = Head(todo) /\ todo # <<>>
  BY <1>3 DEF Continue
<1>5. /\ ~Resolve(f) /\ ~SetStreaming(f) /\ ~SetFinishing(f) /\ ~JoinOthersToMe(f)
      /\ ~SetJoined(f) /\ ~Cut(f) /\ ~Decide(f) /\ ~Advance(f)
  BY DEF Resolve, SetStreaming, SetFinishing, JoinOthersToMe, SetJoined, Cut, Decide, Advance,
     jobVars, ChangeState, TypeInv, JobTypes
<1>6. EndInitialize(f)
  BY <1>3, <1>4, <1>5 DEF Continue
<1>7. f.op = "InitEnd" /\ f.job = j
  BY <1>6 DEF EndInitialize, TypeInv, JobTypes
<1>8. Range(todo) = {f}
  BY <1>4, <1>7, EndAlone DEF TypeInv, TreeInv
<1> QED BY <1>7, <1>8 DEF HasCall

LEMMA SettledMoves ==
  ASSUME ~Plugin, TypeInv, Live, TreeInv, Settled, complete, Moves, JobsOK', [Next]_vars,
         NEW j \in Tracked, state'[j] # state[j]
  PROVE  state[j] = "New" /\ state'[j] \in {"Joined", "Cut"}
<1>1. j \in Job
  BY RangeTracked DEF TypeInv
<1>2. PICK s \in JobState : state' = [state EXCEPT ![j] = s] /\ state'[j] = s /\ Valid(state[j], s)
  BY <1>1 DEF Moves, Move, TypeInv, JobTypes
<1>3. state[j] = "New" /\ Below(j, {"Joined", "Cut", "New"})
  BY <1>2 DEF Settled, Valid
<1>4. j # Root /\ ParentOf(j) \in Tracked /\ ParentOf(j) # j
  BY <1>1, <1>3 DEF Below, TreeInv, TreeGrows
<1>5. s # "Streaming"
  <2>1. s = "Streaming" => Below(j, Ran)'
    BY <1>1, <1>2, <1>4 DEF JobsOK, JobOK, Ran, Running
  <2>2. state'[ParentOf(j)] = state[ParentOf(j)]
    BY <1>2, <1>4 DEF TypeInv, JobTypes
  <2> QED BY <1>3, <2>1, <2>2 DEF Below, Ran, Running
<1>6. s # "Locating"
  <2> SUFFICES ASSUME s = "Locating" PROVE FALSE
    OBVIOUS
  <2>1. HasCall("InitEnd", j) /\ \A g \in Range(todo) : g.op = "InitEnd" /\ g.job = j
    BY <1>1, <1>2, <1>3, Locates
  <2>2. ~HasCall("Cut", j) /\ ~HasCall("Resolve", j) /\ ~HasCall("InitEnd", ParentOf(j))
    BY <1>4, <2>1 DEF HasCall
  <2>3. ~Below(j, Lost)
    BY <1>1, <1>3, <1>4, <2>1, <2>2 DEF TreeInv, OrphansCut
  <2>4. ~Below(j, {"New"})
    BY <1>1, <1>4, <2>2 DEF TreeInv, NewBelowNew
  <2> QED BY <1>3, <2>3, <2>4 DEF Below, Lost
<1> QED BY <1>2, <1>3, <1>5, <1>6 DEF Valid

LEMMA SettledNext ==
  ASSUME ~Plugin, TypeInv, Live, TreeInv, Told, Settled, Moves, Lasting, JobsOK', [Next]_vars
  PROVE  Settled'
<1>0. Tracked \subseteq Job /\ JobTypes
  BY RangeTracked DEF TypeInv
<1>1. CASE Tick
  <2> SUFFICES ASSUME complete', NEW j \in Tracked'
               PROVE  state'[j] \in {"Done", "Queued", "Joined", "Cut"} /\ ~HasFailed(j)'
    BY DEF Settled
  <2>1. UNCHANGED <<allJobs, state, result>> /\ j \in Tracked /\ ~HasFailed(j) /\ ~IsActive(j)
    BY <1>1 DEF Tick, Tracked
  <2> QED BY <1>0, <2>1 DEF HasFailed, IsActive, Active, JobTypes, JobState
<1>2. CASE ~Tick
  <2> SUFFICES ASSUME complete, NEW j \in Tracked'
               PROVE  /\ \/ state'[j] \in {"Done", "Queued", "Joined", "Cut"}
                         \/ state'[j] = "New" /\ Below(j, {"Joined", "Cut", "New"})'
                      /\ ~HasFailed(j)'
    BY <1>2, ToldNext DEF Settled
  <2>1. \A k \in Tracked : state'[k] = state[k] \/ (state[k] = "New" /\ state'[k] \in {"Joined", "Cut"})
    BY SettledMoves
  <2>2. CASE j \in Tracked
    <3>1. /\ \/ state[j] \in {"Done", "Queued", "Joined", "Cut"}
             \/ state[j] = "New" /\ Below(j, {"Joined", "Cut", "New"})
          /\ ~HasFailed(j)
      BY <2>2 DEF Settled
    <3>2. Below(j, {"Joined", "Cut", "New"}) => Below(j, {"Joined", "Cut", "New"})'
      BY <1>0, <2>1, <2>2 DEF Below, TreeInv, TreeGrows
    <3>3. ~HasFailed(j)'
      BY <1>0, <2>1, <2>2, <3>1 DEF HasFailed, Lasting
    <3> QED BY <2>1, <2>2, <3>1, <3>2, <3>3
  <2>3. CASE j \notin Tracked
    <3>1. ~UNCHANGED allJobs
      BY <2>3 DEF Tracked
    <3>2. PICK p \in Job : InitThen(p)
      BY <3>1, OthersCreate
    <3>3. /\ p \in Tracked /\ work[p] = "then" /\ UNCHANGED <<state, result>>
          /\ StayIdle(p) \/ Expands(p)
      BY <3>2, InitThenFacts
    <3>4. j \in Range(NewKids(p))
      BY <2>3, <3>1, <3>3 DEF StayIdle, Expands
    <3>5. j \in Job \ {Root} /\ ParentOf(j) = p /\ opts.pipeline
      BY <3>4, NewKidsFacts, RangeOfOne DEF NewKids
    <3>6. state[j] = "New"
      BY <2>3, <3>5 DEF Live, JobsOK, JobOK
    <3>7. state[p] \in {"Joined", "Cut", "New"}
      BY <3>3, <3>5 DEF Settled, TreeInv, BegunLater
    <3> QED BY <3>3, <3>5, <3>6, <3>7 DEF Below, HasFailed
  <2> QED BY <2>2, <2>3
<1> QED BY <1>1, <1>2

(* Whole until a denied request or a build without causes has made the task *)
(* fail.                                                                    *)
EndInv ==
  /\ TypeInv /\ Told
  /\ ~Known => "Failed" \in verdicts /\ (ExitOnFailed => exited)
  /\ opts.shouldFail \/ ~Known \/ (LifeInv /\ History0 /\ TreeInv /\ Settled)

LEMMA EndInit == Init => EndInv
<1> SUFFICES ASSUME Init PROVE EndInv
  OBVIOUS
<1>1. Told /\ Settled
  BY DEF Init, TrackerInit, Told, Settled
<1> QED BY <1>1, InitType, LifeInit, HistoryInit, TreeInit, KnownInit DEF EndInv

LEMMA EndNext ==
  ASSUME ~Plugin, EndInv, [Next]_vars
  PROVE  EndInv'
<1>1. /\ TypeInv' /\ Told' /\ (opts.shouldFail => opts'.shouldFail)
      /\ verdicts \subseteq verdicts'
  BY NextType, ToldNext DEF EndInv
<1>2. (~Known => ~Known') /\ (Known => Known' \/ Report("Failed"))
  BY ServerExtends, KnownMoves DEF EndInv, TypeInv
<1>3. ~Known' => "Failed" \in verdicts' /\ (ExitOnFailed => exited')
  <2>1. CASE exited
    <3>1. UNCHANGED exited
      BY <2>1, ExitIsLast DEF vars, outVars
    <3> QED BY <1>1, <1>2, <2>1, <3>1 DEF EndInv, Report
  <2>2. CASE ~exited
    BY <1>1, <1>2, <2>2 DEF EndInv, Report
  <2> QED BY <2>1, <2>2
<1>4. CASE opts.shouldFail \/ ~Known
  BY <1>1, <1>2, <1>3, <1>4 DEF EndInv
<1>5. CASE ~opts.shouldFail /\ Known /\ ~opts'.shouldFail
  <2>1. TypeInv /\ Told /\ LifeInv /\ History0 /\ TreeInv /\ Settled
    BY <1>5 DEF EndInv
  <2>2. LifeInv' /\ Moves /\ TreeInv' /\ Lasting /\ History0'
    BY <1>5, <2>1, LifeGoes, TreeNext, HistoryNext DEF Denial
  <2>3. CASE exited
    <3>1. UNCHANGED <<complete, allJobs, state, result>>
      BY <2>3, ExitIsLast DEF vars, jobVars, queueVars
    <3>2. Settled'
      BY <2>1, <3>1 DEF Settled, Tracked, Below, HasFailed
    <3> QED BY <1>1, <1>3, <2>2, <3>2 DEF EndInv
  <2>4. CASE ~exited
    <3>1. Live /\ JobsOK'
      BY <2>1, <2>2, <2>4 DEF LifeInv, Lawful, Live
    <3>2. Settled'
      BY <2>1, <2>2, <3>1, SettledNext
    <3> QED BY <1>1, <1>3, <2>2, <3>2 DEF EndInv
  <2> QED BY <2>3, <2>4
<1>6. CASE opts'.shouldFail
  BY <1>1, <1>3, <1>6 DEF EndInv
<1> QED BY <1>4, <1>5, <1>6

(* A summary whose connection breaks ends with the verdict of the exception.*)
LEMMA LostIsTold ==
  ASSUME TypeInv, Told, summary = "lost" => "Failed" \in verdicts, [Next]_vars
  PROVE  summary' = "lost" => "Failed" \in verdicts'
<1>1. verdicts \subseteq verdicts'
  BY ToldNext
<1>2. CASE UNCHANGED summary
  BY <1>1, <1>2
<1>3. CASE Tick
  BY <1>1, <1>3 DEF Tick
<1>4. CASE SummaryStep
  BY <1>4 DEF SummaryStep, IsPipelineResponse, ReportResponse, Summarize, WriteFile, Report
<1> QED BY <1>2, <1>3, <1>4, QueueSteps DEF queueVars

(* A job that failed makes the task fail once it has ended, whichever of the *)
(* tick, the other jobs and the summary comes first, whichever requests fail *)
(* and whatever exceptions they end in: what is still created after the      *)
(* queue was found complete joins another job or is cut, and cannot fail.    *)
(* The property itself leaves out the end that the code leaves without a     *)
(* verdict, a pipeline report that is refused; only the results plug-in is   *)
(* excluded here.                                                            *)
THEOREM FailureReported ==
  ASSUME ~Plugin
  PROVE  Spec => []FailureIsReported
<1> DEFINE Inv == EndInv /\ (summary = "lost" => "Failed" \in verdicts)
<1>1. Init => Inv
  BY EndInit DEF Init, TrackerInit
<1>2. Inv /\ [Next]_vars => Inv'
  BY EndNext, LostIsTold DEF EndInv
<1>3. Inv => FailureIsReported
  <2> SUFFICES ASSUME Inv, Ended, NEW j \in Tracked, state[j] = "Done", result[j] \notin Good
               PROVE  "Failed" \in verdicts
    BY DEF FailureIsReported
  <2>1. HasFailed(j)
    BY DEF HasFailed
  <2> QED BY <2>1 DEF EndInv, Told, Settled, Ended
<1> HIDE DEF Inv
<1> QED BY <1>1, <1>2, <1>3, PTL DEF Spec

-----------------------------------------------------------------------------
(* What is initialised stays so: a project's search ...                     *)
LEMMA ReadyFields ==
  ASSUME NEW s \in Search
  PROVE  /\ \A w : [s EXCEPT !.work = w].ready = s.ready
         /\ \A w, q : [s EXCEPT !.work = w, !.seeking = q].ready = s.ready
         /\ \A w, q : [s EXCEPT !.seeking = q, !.work = w].ready = s.ready
         /\ [s EXCEPT !.ctor = TRUE].ready = s.ready
         /\ [s EXCEPT !.ctor = FALSE].ready = s.ready
         /\ Learned(s).ready = s.ready
         /\ \A a, b, w, q :
              [s EXCEPT !.forward = a, !.next = b, !.work = w, !.seeking = q].ready = s.ready
         /\ \A id : Initialized(s, id).ready
  BY DEF Search, Learned, Initialized

(* One search is set to s. *)
Sets(x, s) == search' = [search EXCEPT ![x] = s] /\ (search[x].ready => s.ready)

LEMMA ReadyStays ==
  ASSUME TypeInv, [Next]_vars, NEW id \in Ident, search[id].ready
  PROVE  search'[id].ready
<1>1. SearchTypes /\ CallTypes /\ \A x \in Ident : search[x] \in Search
  BY DEF TypeInv, SearchTypes
<1>2. CASE UNCHANGED search
  BY <1>2
<1>3. ASSUME NEW x \in Ident, NEW s, Sets(x, s) PROVE search'[id].ready
  BY <1>1, <1>3 DEF Sets, SearchTypes
<1>4. CASE Continue
  <2>1. PICK f : f = Head(todo) /\ todo # <<>>
    BY <1>4 DEF Continue
  <2>2. CASE Resolve(f)
    <3>1. IdentOf[f.job] \in Ident
      BY <1>1, <2>1, <2>2, HeadJobCall, TreeAssumption DEF Resolve, JobOps
    <3>2. PICK x \in Ident : x = IdentOf[f.job]
      BY <3>1
    <3>3. UNCHANGED search \/ search' = [search EXCEPT ![x] = [@ EXCEPT !.work = "missing"]]
      BY <2>2, <3>2 DEF Resolve
    <3>4. [search[x] EXCEPT !.work = "missing"].ready = search[x].ready
      BY <1>1, ReadyFields
    <3> QED BY <1>2, <1>3, <3>3, <3>4 DEF Sets
  <2>3. CASE Decide(f)
    <3>1. f.id \in Ident
      BY <1>1, <2>1, <2>3, HeadSearchCall DEF Decide
    <3>2. PICK s : /\ search' = [search EXCEPT ![f.id] = s]
                   /\ \/ s = [search[f.id] EXCEPT !.work = "locate"]
                      \/ s = [search[f.id] EXCEPT !.work = "idle", !.seeking = <<>>]
      BY <1>1, <2>3, <3>1 DEF Decide, SearchTypes
    <3>3. /\ [search[f.id] EXCEPT !.work = "locate"].ready = search[f.id].ready
          /\ [search[f.id] EXCEPT !.work = "idle", !.seeking = <<>>].ready = search[f.id].ready
      BY <1>1, <3>1, ReadyFields
    <3> QED BY <1>3, <3>1, <3>2, <3>3 DEF Sets
  <2>4. CASE Advance(f)
    <3>1. f.id \in Ident
      BY <1>1, <2>1, <2>4, HeadSearchCall DEF Advance
    <3>2. PICK s : /\ search' = [search EXCEPT ![f.id] = s]
                   /\ \E a, b : s = [search[f.id] EXCEPT !.forward = a, !.next = b, !.work = "idle",
                                                         !.seeking = <<>>]
      BY <2>4 DEF Advance
    <3>3. s.ready = search[f.id].ready
      BY <1>1, <3>1, <3>2, ReadyFields
    <3> QED BY <1>3, <3>1, <3>2, <3>3 DEF Sets
  <2>5. CASE ~Resolve(f) /\ ~Decide(f) /\ ~Advance(f)
    <3>1. UNCHANGED search
      BY <1>4, <2>1, <2>5 DEF Continue, SetStreaming, SetFinishing, JoinOthersToMe, SetJoined, Cut,
         EndInitialize
    <3> QED BY <1>2, <3>1
  <2> QED BY <2>2, <2>3, <2>4, <2>5
<1>5. ASSUME NEW j \in Job, JobStep(j) PROVE search'[id].ready
  <2>1. CASE InitThen(j)
    <3>1. search'[id] = search[id] \/ search'[id] = [search[id] EXCEPT !.ctor = TRUE]
      BY <2>1 DEF InitThen
    <3> QED BY <1>1, <3>1, ReadyFields
  <2>2. CASE InitResponse(j)
    <3>1. PICK x \in Ident : x = IdentOf[j]
      BY TreeAssumption
    <3>2. UNCHANGED search \/ search' = [search EXCEPT ![x] = Initialized(@, x)]
      BY <2>2, <3>1 DEF InitResponse
    <3>3. Initialized(search[x], x).ready
      BY <1>1, ReadyFields
    <3> QED BY <1>2, <1>3, <3>2, <3>3 DEF Sets
  <2>3. CASE ~InitThen(j) /\ ~InitResponse(j)
    <3>1. UNCHANGED search
      BY <1>5, <2>3 DEF JobStep, JobTimer, StreamResponse, FinishResponse, DownloadResponse
    <3> QED BY <1>2, <3>1
  <2> QED BY <2>1, <2>2, <2>3
<1>6. ASSUME NEW x \in Ident, SearchStep(x) PROVE search'[id].ready
  <2>1. CASE CtorResponse(x)
    <3>1. Sets(x, Initialized(search[x], x)) \/ Sets(x, [search[x] EXCEPT !.ctor = FALSE])
      BY <1>1, <2>1, ReadyFields DEF CtorResponse, Sets
    <3> QED BY <1>3, <3>1
  <2>2. CASE SearchTimer(x)
    <3>1. Sets(x, [search[x] EXCEPT !.work = "busy"])
      BY <1>1, <2>2, ReadyFields DEF SearchTimer, Sets
    <3> QED BY <1>3, <3>1
  <2>3. CASE LocateResponse(x)
    <3>1. \/ search' = [search EXCEPT ![x] = Learned(@)]
          \/ search' = [search EXCEPT ![x].work = "idle", ![x].seeking = <<>>]
          \/ search' = [search EXCEPT ![x].work = "busy"]
      BY <2>3 DEF LocateResponse
    <3>2. \/ search' = [search EXCEPT ![x] = Learned(search[x])]
          \/ search' = [search EXCEPT ![x] = [search[x] EXCEPT !.work = "idle", !.seeking = <<>>]]
          \/ search' = [search EXCEPT ![x] = [search[x] EXCEPT !.work = "busy"]]
      BY <1>1, <3>1 DEF SearchTypes
    <3>3. \/ Sets(x, Learned(search[x]))
          \/ Sets(x, [search[x] EXCEPT !.work = "idle", !.seeking = <<>>])
          \/ Sets(x, [search[x] EXCEPT !.work = "busy"])
      BY <1>1, <3>2, ReadyFields DEF Sets
    <3> QED BY <1>3, <3>3
  <2> QED BY <1>6, <2>1, <2>2, <2>3 DEF SearchStep
<1>7. CASE Tick
  <2>1. \/ search'[id] = search[id]
        \/ \E s : search'[id] = [search[id] EXCEPT !.seeking = s, !.work = "timer"]
    BY <1>7 DEF Tick, NextSearches
  <2>2. \A s : [search[id] EXCEPT !.seeking = s, !.work = "timer"].ready = search[id].ready
    BY <1>1, ReadyFields
  <2> QED BY <2>1, <2>2
<1>8. CASE SummaryStep \/ Server \/ UNCHANGED vars
  <2>1. UNCHANGED search
    BY <1>8 DEF SummaryStep, IsPipelineResponse, ReportResponse, Summarize, WriteFile, Server,
       ServerProgress, ServerDoes, vars
  <2> QED BY <1>2, <2>1
<1> QED BY <1>4, <1>5, <1>6, <1>7, <1>8 DEF Next
(* ... and a job begins its work only when its initialisation has ended.    *)
Begun == {"init", "then", "busy"}

LEMMA InitialWork ==
  ASSUME TypeInv, [Next]_vars, NEW j \in Job, work[j] \in Begun, work'[j] \notin Begun
  PROVE  \/ InitThen(j)
         \/ Continue /\ Head(todo).op = "InitEnd" /\ Head(todo).job = j
<1> SUFFICES ASSUME ~InitThen(j) PROVE Continue /\ Head(todo).op = "InitEnd" /\ Head(todo).job = j
  OBVIOUS
<1> USE DEF Begun
<1>1. JobTypes
  BY DEF TypeInv
<1>2. ASSUME NEW k \in Job, JobStep(k) PROVE FALSE
  <2>1. CASE InitThen(k)
    BY <1>1, <2>1, InitThenFacts DEF StayIdle, Expands, JobTypes
  <2>2. CASE ~InitThen(k)
    <3>1. \E w : work' = [work EXCEPT ![k] = w]
      BY <1>2, <2>2 DEF JobStep, InitResponse, JobTimer, StreamResponse, FinishResponse,
         DownloadResponse, StopWork, StayIdle, Wait
    <3>2. k = j
      BY <1>1, <3>1 DEF JobTypes
    <3>3. InitResponse(j)
      BY <1>2, <2>2, <3>2 DEF JobStep, JobTimer, StreamResponse, FinishResponse, DownloadResponse
    <3> QED BY <1>1, <3>3 DEF InitResponse, JobTypes
  <2> QED BY <2>1, <2>2
<1>3. Continue \/ Tick
  BY <1>2 DEF Next, vars, SearchStep, CtorResponse, SearchTimer, LocateResponse, jobVars,
     SummaryStep, IsPipelineResponse, ReportResponse, Summarize, WriteFile, Server,
     ServerProgress, ServerDoes
<1>4. ~Tick
  BY DEF Tick
<1>5. PICK f : f = Head(todo) /\ EndInitialize(f)
  BY <1>3, <1>4 DEF Continue, Resolve, SetStreaming, SetFinishing, JoinOthersToMe, SetJoined, Cut,
     Decide, Advance, jobVars
<1>6. f.op = "InitEnd" /\ f.job = j
  BY <1>1, <1>5 DEF EndInitialize, JobTypes
<1> QED BY <1>3, <1>4, <1>5, <1>6

(* A job is done when its build has a result, and that is the job's.        *)
LEMMA DoneNow ==
  ASSUME ~Plugin, TypeInv, Live, [Next]_vars, NEW j \in Job, state[j] # "Done", state'[j] = "Done"
  PROVE  /\ work[j] = "finish" /\ UNCHANGED <<number, builds>>
         /\ number[j] \in 1..Len(builds[IdentOf[j]])
         /\ builds[IdentOf[j]][number[j]].result # "running"
         /\ result'[j] = builds[IdentOf[j]][number[j]].result
<1>1. JobTypes /\ FinishBusy /\ \A k \in Job : work[k] # "download"
  BY DEF TypeInv, Live, JobsOK, JobOK, FinishBusy
<1>2. ASSUME Continue PROVE FALSE
  <2>1. PICK f : f = Head(todo) /\ todo # <<>>
    BY <1>2 DEF Continue
  <2>2. ASSUME NEW k, NEW s, s # "Done", state' = [state EXCEPT ![k] = s] PROVE FALSE
    BY <1>1, <2>2 DEF JobTypes
  <2>3. ~Resolve(f) /\ ~JoinOthersToMe(f) /\ ~Decide(f) /\ ~Advance(f)
    BY DEF Resolve, JoinOthersToMe, Decide, Advance, jobVars
  <2>4. ~SetStreaming(f) /\ ~SetFinishing(f) /\ ~SetJoined(f) /\ ~Cut(f) /\ ~EndInitialize(f)
    BY <2>2 DEF SetStreaming, SetFinishing, SetJoined, Cut, EndInitialize, ChangeState
  <2> QED BY <1>2, <2>1, <2>3, <2>4 DEF Continue
<1>3. PICK k \in Job : JobStep(k)
  BY <1>2 DEF Next, vars, Tick, SearchStep, CtorResponse, SearchTimer, LocateResponse, jobVars,
     SummaryStep, IsPipelineResponse, ReportResponse, Summarize, WriteFile, Server,
     ServerProgress, ServerDoes
<1>4. FinishResponse(k)
  BY <1>1, <1>3 DEF JobStep, InitResponse, InitThen, JobTimer, StreamResponse, DownloadResponse,
     StopWork, ChangeState, StayIdle, Wait, JobTypes
<1>5. /\ work[k] = "finish" /\ UNCHANGED builds
      /\ Answers(k) /\ HasResult(builds[IdentOf[k]][number[k]])
      /\ result' = [result EXCEPT ![k] = builds[IdentOf[k]][number[k]].result]
      /\ StopWork(k, "Done")
  BY <1>4 DEF FinishResponse, StayIdle, Wait, serverVars
<1>6. k = j /\ UNCHANGED number
  BY <1>1, <1>5 DEF StopWork, ChangeState, JobTypes
<1>7. IdentOf[j] \in Ident
  BY TreeAssumption
<1>8. number[j] \in 1..Len(builds[IdentOf[j]])
  BY <1>5, <1>6, <1>7, VisibleExists DEF Answers, TypeInv
<1> QED BY <1>1, <1>5, <1>6, <1>8 DEF HasResult, JobTypes

-----------------------------------------------------------------------------
(* With the whole pipeline, a job has its children before it is worked on,  *)
(* and what a job says of its build is so.                                  *)
RootTracked == Root \in Tracked /\ number[Root] = RootNumber

Grown ==
  \A j \in Tracked :
    /\ Range(Kids[j]) \subseteq Tracked \/ (work[j] \in Begun /\ state[j] # "Done")
    /\ work[j] = "then" => search[IdentOf[j]].ready

DoneIsOver ==
  \A j \in Job : state[j] = "Done" =>
    /\ number[j] \in 1..Len(builds[IdentOf[j]])
    /\ builds[IdentOf[j]][number[j]].result # "running"
    /\ result[j] = builds[IdentOf[j]][number[j]].result

Pursued == RootTracked /\ Grown /\ DoneIsOver

LEMMA PursuedInit == Init => Pursued
<1> SUFFICES ASSUME Init PROVE Pursued
  OBVIOUS
<1>1. Tracked = {Root}
  <2>1. Root \in Job /\ allJobs = <<Root>>
    BY TreeAssumption DEF Init, TrackerInit
  <2> QED BY <2>1, RangeOfOne DEF Tracked
<1>2. /\ number[Root] = RootNumber /\ work[Root] = "init" /\ state[Root] = "New"
      /\ \A j \in Job : state[j] # "Done"
  BY TreeAssumption DEF Init, TrackerInit
<1> QED BY <1>1, <1>2 DEF Pursued, RootTracked, Grown, DoneIsOver, Begun

LEMMA RootTrackedNext ==
  ASSUME RootTracked, Lasting
  PROVE  RootTracked'
<1>1. RootNumber # 0 /\ Root \in Job
  BY ServerAssumption, TreeAssumption DEF RootNumber
<1> QED BY <1>1 DEF RootTracked, Lasting, RootNumber

LEMMA DoneIsOverNext ==
  ASSUME ~Plugin, TypeInv, Live, DoneIsOver, Lasting, [Next]_vars
  PROVE  DoneIsOver'
<1> SUFFICES ASSUME NEW j \in Job, state'[j] = "Done"
             PROVE  /\ number'[j] \in 1..Len(builds'[IdentOf[j]])
                    /\ builds'[IdentOf[j]][number'[j]].result # "running"
                    /\ result'[j] = builds'[IdentOf[j]][number'[j]].result
  BY DEF DoneIsOver
<1>1. CASE state[j] # "Done"
  BY <1>1, DoneNow
<1>2. CASE state[j] = "Done"
  <2>1. PICK id, n, r : id \in Ident /\ id = IdentOf[j] /\ n = number[j] /\ r = result[j]
    BY TreeAssumption
  <2>2. n \in 1..Len(builds[id]) /\ builds[id][n].result # "running" /\ r = builds[id][n].result
    BY <1>2, <2>1 DEF DoneIsOver
  <2>3. number'[j] = n /\ result'[j] = r
    <3>1. n # 0
      BY <2>1, <2>2, LenProperties DEF TypeInv, ServerTypeOK
    <3> QED BY <1>2, <2>1, <3>1 DEF Lasting
  <2>4. n \in 1..Len(builds'[id]) /\ builds'[id][n].result = builds[id][n].result
    BY <2>1, <2>2 DEF Lasting, Extends, ExtendsAt
  <2> QED BY <2>1, <2>2, <2>3, <2>4
<1> QED BY <1>1, <1>2

(* A request that resets the connection resolves the promise, and the job   *)
(* goes on with a project whose search is not initialised.                  *)
LEMMA ThenIsReady ==
  ASSUME <<"init", "reset">> \notin FaultKinds, TypeInv, Grown, [Next]_vars, NEW j \in Job,
         work'[j] = "then", work[j] # "then" \/ search[IdentOf[j]].ready
  PROVE  search'[IdentOf[j]].ready
<1>1. PICK id \in Ident : id = IdentOf[j]
  BY TreeAssumption
<1>2. JobTypes /\ SearchTypes
  BY DEF TypeInv
<1>3. CASE search[id].ready
  BY <1>1, <1>3, ReadyStays
<1>4. ASSUME ~search[id].ready, work[j] # "then" PROVE search'[id].ready
  <2>1. ~Continue
    <3> SUFFICES ASSUME Continue PROVE FALSE
      OBVIOUS
    <3>1. PICK f : f = Head(todo) /\ EndInitialize(f)
      BY <1>4 DEF Continue, Resolve, SetStreaming, SetFinishing, JoinOthersToMe, SetJoined, Cut,
         Decide, Advance, jobVars
    <3> QED BY <1>2, <1>4, <3>1 DEF EndInitialize, JobTypes
  <2>2. ~Tick
    BY <1>4 DEF Tick
  <2>3. PICK k \in Job : JobStep(k)
    BY <1>4, <2>1, <2>2 DEF Next, vars, SearchStep, CtorResponse, SearchTimer, LocateResponse, jobVars,
       SummaryStep, IsPipelineResponse, ReportResponse, Summarize, WriteFile, Server,
       ServerProgress, ServerDoes
  <2>4. CASE InitThen(k)
    BY <1>1, <1>2, <1>4, <2>4, InitThenFacts DEF StayIdle, Expands, JobTypes
  <2>5. CASE ~InitThen(k)
    <3>1. PICK w : work' = [work EXCEPT ![k] = w]
      BY <2>3, <2>5 DEF JobStep, InitResponse, JobTimer, StreamResponse, FinishResponse,
         DownloadResponse, StopWork, StayIdle, Wait
    <3>2. k = j
      BY <1>2, <1>4, <3>1 DEF JobTypes
    <3>3. InitResponse(j) \/ JobTimer(j)
      BY <1>2, <1>4, <2>3, <2>5, <3>2 DEF JobStep, StreamResponse, FinishResponse,
         DownloadResponse, StopWork, StayIdle, Wait, JobTypes
    <3>4. CASE InitResponse(j)
      <4>1. \/ search' = [search EXCEPT ![id] = Initialized(@, id)]
            \/ work' = [work EXCEPT ![j] = "busy"]
        BY <1>1, <1>4, <3>4 DEF InitResponse, Fault
      <4>2. search' = [search EXCEPT ![id] = Initialized(@, id)]
        BY <1>2, <4>1 DEF JobTypes
      <4>3. search[id] \in Search
        BY <1>2 DEF SearchTypes
      <4> QED BY <1>2, <4>2, <4>3, ReadyFields DEF SearchTypes
    <3>5. CASE JobTimer(j)
      BY <1>1, <1>2, <1>4, <3>5 DEF JobTimer, StopWork, StayIdle, JobTypes
    <3> QED BY <3>3, <3>4, <3>5
  <2> QED BY <2>4, <2>5
<1> QED BY <1>1, <1>3, <1>4

LEMMA GrownNext ==
  ASSUME ~Plugin, <<"init", "reset">> \notin FaultKinds, TypeInv, Live, TreeInv, Grown, Lasting,
         opts.pipeline, opts'.pipeline, JobsOK', [Next]_vars
  PROVE  Grown'
<1> SUFFICES ASSUME NEW j \in Tracked'
             PROVE  /\ \/ Range(Kids[j]) \subseteq Tracked'
                       \/ work'[j] \in Begun /\ state'[j] # "Done"
                    /\ work'[j] = "then" => search'[IdentOf[j]].ready
  BY DEF Grown
<1>1. Tracked \subseteq Tracked' /\ Tracked' \subseteq Job /\ Tracked \subseteq Job /\ j \in Job
  <2>1. allJobs' \in Seq(Job) /\ allJobs \in Seq(Job)
    BY NextType DEF TypeInv, JobTypes
  <2> QED BY <2>1, RangeOfSeq DEF Lasting, Tracked
<1>2. work'[j] = "then" => search'[IdentOf[j]].ready
  <2>1. work[j] = "then" => search[IdentOf[j]].ready
    <3>1. j \notin Tracked => work[j] = "idle"
      BY <1>1 DEF TreeInv, TreeGrows
    <3> QED BY <3>1 DEF Grown
  <2> QED BY <1>1, <2>1, ThenIsReady
<1>3. ASSUME j \in Tracked, ~(Range(Kids[j]) \subseteq Tracked')
      PROVE  work'[j] \in Begun /\ state'[j] # "Done"
  <2>1. work[j] \in Begun /\ state[j] # "Done"
    BY <1>1, <1>3 DEF Grown
  <2>2. state'[j] # "Done"
    BY <1>1, <2>1, DoneNow DEF Begun
  <2>3. ~InitThen(j)
    <3> SUFFICES ASSUME InitThen(j) PROVE FALSE
      OBVIOUS
    <3>1. work[j] = "then" /\ (Expands(j) \/ ~search[IdentOf[j]].ready)
      BY <1>1, InitThenFacts
    <3>2. Expands(j)
      BY <1>3, <3>1 DEF Grown
    <3> QED BY <1>3, <3>2 DEF Expands, NewKids
  <2>4. ASSUME Continue, Head(todo).op = "InitEnd", Head(todo).job = j PROVE FALSE
    <3>1. Head(todo) \in Range(todo)
      BY <2>4, EmptySeq, LenProperties, RangeIsDomain DEF Continue, TypeInv, CallTypes
    <3>2. Range(Kids[j]) \subseteq Tracked
      BY <2>4, <3>1 DEF TreeInv, CallsFit, CallFits
    <3> QED BY <1>1, <1>3, <3>2
  <2> QED BY <1>1, <2>1, <2>2, <2>3, <2>4, InitialWork
<1>4. ASSUME j \notin Tracked PROVE work'[j] \in Begun /\ state'[j] # "Done"
  <2>1. PICK p \in Job : InitThen(p)
    BY <1>4, OthersCreate DEF Tracked
  <2>2. work[p] = "then" /\ p \in Tracked /\ UNCHANGED state /\ (StayIdle(p) \/ Expands(p))
    BY <2>1, InitThenFacts
  <2>3. j \in Range(NewKids(p)) /\ Expands(p)
    BY <1>4, <2>2 DEF StayIdle, Expands, Tracked
  <2>4. j # p
    BY <1>4, <2>2
  <2>5. work'[j] \in {"then", "init"}
    BY <1>1, <2>3, <2>4 DEF Expands
  <2>6. state[j] = "New"
    BY <1>1, <1>4 DEF Live, JobsOK, JobOK
  <2> QED BY <2>2, <2>5, <2>6 DEF Begun
<1> QED BY <1>2, <1>3, <1>4

-----------------------------------------------------------------------------
(* When the queue of jobs is complete, every build of the pipeline has been *)
(* followed to its end.                                                     *)
HasFollower(id, n) ==
  \E j \in Tracked : IdentOf[j] = id /\ number[j] = n /\ state[j] = "Done" /\ result[j] \in Good

AllCovered ==
  \A id \in Ident :
    /\ queued[id] = <<>>
    /\ \A n \in 1..Len(builds[id]) : Wanted(id, n) => HasFollower(id, n)
Covered == complete => AllCovered

(* A job that is done has a child for every project downstream.             *)
LEMMA KidOf ==
  ASSUME TypeInv, Grown, NEW h \in Tracked, state[h] = "Done", NEW id \in Range(Downstream[IdentOf[h]])
  PROVE  /\ ChildOf(h, id) \in Tracked /\ ChildOf(h, id) \in Job \ {Root}
         /\ IdentOf[ChildOf(h, id)] = id /\ ParentOf(ChildOf(h, id)) = h
<1>1. h \in Job /\ JobTypes
  BY RangeTracked DEF TypeInv
<1>2. /\ Kids[h] \in Seq(Job) /\ Downstream[IdentOf[h]] \in Seq(Ident)
      /\ Len(Kids[h]) = Len(Downstream[IdentOf[h]])
      /\ \A i \in DOMAIN Kids[h] : IdentOf[Kids[h][i]] = Downstream[IdentOf[h]][i]
  BY <1>1, TreeAssumption, ServerAssumption
<1>3. PICK i \in DOMAIN Kids[h] : IdentOf[Kids[h][i]] = id
  <2>1. DOMAIN Kids[h] = DOMAIN Downstream[IdentOf[h]]
    BY <1>2, LenProperties
  <2>2. PICK i \in DOMAIN Downstream[IdentOf[h]] : Downstream[IdentOf[h]][i] = id
    BY RangeIsDomain
  <2> QED BY <1>2, <2>1, <2>2
<1>4. Kids[h][i] \in Tracked /\ Kids[h][i] \in Range(Kids[h]) /\ Kids[h][i] \in Job
  <2>1. Kids[h][i] \in Range(Kids[h])
    BY RangeIsDomain
  <2>2. Range(Kids[h]) \subseteq Tracked /\ Range(Kids[h]) \subseteq Job
    BY <1>2, RangeOfSeq DEF Grown
  <2> QED BY <2>1, <2>2
<1> DEFINE Q == {k \in Job : IdentOf[k] = id}
           t == Among(Kids[h], Tracked)
           s == Among(t, Q)
<1>5. t \in Seq(Job) /\ Range(t) = Range(Kids[h]) \cap Tracked
  BY <1>2, AmongRange
<1> HIDE DEF t
<1>6. s \in Seq(Job) /\ Range(s) = Range(t) \cap Q
  BY <1>5, AmongRange
<1>7. Kids[h][i] \in Range(s)
  BY <1>3, <1>4, <1>5, <1>6
<1>8. ChildOf(h, id) = FirstOr(s, NoJob)
  BY DEF ChildOf, Children, s, t
<1> HIDE DEF s
<1>9. s # <<>>
  BY <1>7 DEF Range
<1>10. s[1] \in Range(s)
  BY <1>6, <1>9, EmptySeq, LenProperties, RangeIsDomain
<1>11. ChildOf(h, id) \in Job
  BY <1>6, <1>8, <1>9, <1>10 DEF FirstOr
<1>12. ChildOf(h, id) # NoJob
  BY <1>11, TreeAssumption
<1> QED BY <1>1, <1>12, ChildOfFacts, ChildrenFacts

(* The child of a job that a cause of a build is followed by shares it.     *)
LEMMA KidShares ==
  ASSUME TypeInv, Grown, NEW id \in Ident, NEW h \in Tracked, state[h] = "Done",
         id \in Range(Downstream[IdentOf[h]]),
         NEW n \in 1..Len(builds[id]), <<IdentOf[h], number[h]>> \in Range(builds[id][n].causes)
  PROVE  Shares(ChildOf(h, id), id, n)
<1>1. PICK k : k = ChildOf(h, id)
  OBVIOUS
<1>2. k \in Tracked /\ k \in Job \ {Root} /\ IdentOf[k] = id /\ ParentOf(k) = h
  BY <1>1, KidOf
<1>3. ParentCause(k) = <<IdentOf[h], number[h]>>
  BY <1>2 DEF ParentCause
<1> QED BY <1>1, <1>2, <1>3 DEF Shares, Ran

(* No job is active, and none has failed. *)
AllOver == \A j \in Tracked : ~IsActive(j) /\ ~HasFailed(j)

LEMMA OverIsDone ==
  ASSUME TypeInv, Live, TreeInv, opts.pipeline, AllOver, NEW j \in Tracked, state[j] \notin Lost
  PROVE  state[j] = "Done" /\ result[j] \in Good
<1>1. j \in Job /\ state[j] \in JobState
  BY RangeTracked DEF TypeInv, JobTypes
<1>2. state[j] # "Queued"
  BY <1>1 DEF TreeInv, InOrder, NeverQueued, Live, JobsOK, JobOK, Mode
<1> QED BY <1>1, <1>2 DEF AllOver, IsActive, HasFailed, Active, JobState, Lost

LEMMA OverCovers ==
  ASSUME TypeInv, CausesReal, Live, History0, TreeInv, RootTracked, Grown, opts.pipeline, AllOver,
         NEW i \in Ident, NEW z \in 1..Len(builds[i]), Wanted(i, z)
  PROVE  HasFollower(i, z)
<1> SUFFICES ASSUME ~HasFollower(i, z) PROVE FALSE
  OBVIOUS
<1>1. PICK b \in Nat : \E rank \in [Ident \X Nat -> Nat] : RanksTo(rank, b)
  BY DEF History0, Ranked
<1>2. PICK rank \in [Ident \X Nat -> Nat] : RanksTo(rank, b)
  BY <1>1
<1>3. \A id \in Ident : \A n \in 1..Len(builds[id]) : <<id, n>> \in Ident \X Nat
  BY LenProperties DEF TypeInv, ServerTypeOK
<1> DEFINE Left(id, n) == Wanted(id, n) /\ ~HasFollower(id, n)
           T == {r \in Nat : \E id \in Ident : \E n \in 1..Len(builds[id]) :
                               Left(id, n) /\ rank[<<id, n>>] = r}
<1>4. T \in SUBSET Nat /\ rank[<<i, z>>] \in T
  BY <1>2, <1>3
<1>5. PICK r \in T : \A y \in T : r <= y
  <2> HIDE DEF T
  <2> QED BY <1>4, NatMinimum
<1>6. PICK id \in Ident : \E n \in 1..Len(builds[id]) : Left(id, n) /\ rank[<<id, n>>] = r
  BY <1>5
<1>7. PICK n \in 1..Len(builds[id]) : Left(id, n) /\ rank[<<id, n>>] = r
  BY <1>6
<1>8. Sound /\ InOrder
  BY DEF Sound, Live, History0, TreeInv
<1>9. <<id, n>> # <<RootIdent, RootNumber>>
  <2> SUFFICES ASSUME id = RootIdent, n = RootNumber PROVE FALSE
    OBVIOUS
  <2>1. Root \in Tracked /\ number[Root] = n /\ IdentOf[Root] = id
    BY TreeAssumption DEF RootTracked
  <2>2. state[Root] \notin Lost
    BY TreeAssumption DEF Live, JobsOK, JobOK, Lost
  <2>3. HasFollower(id, n)
    BY <2>1, <2>2, OverIsDone DEF HasFollower
  <2> QED BY <1>7, <2>3
<1>10. builds[id][n].causes # <<>>
  BY <1>7, <1>9 DEF Wanted
<1>11. PICK c : c = builds[id][n].causes[1] /\ c \in Range(builds[id][n].causes) /\ c \in Cause
  <2>1. builds[id][n].causes \in Seq(Cause)
    BY CausesType DEF TypeInv
  <2> QED BY <1>10, <2>1, EmptySeq, LenProperties, RangeIsDomain, ElementOfSeq
<1>12. Triggers(c, id) /\ rank[c] < rank[<<id, n>>]
  BY <1>2, <1>11 DEF History0, CausesOver, RanksTo
<1>13. c = <<c[1], c[2]>> /\ c[1] \in Ident /\ c[2] \in 1..Len(builds[c[1]])
  <2>1. c = <<c[1], c[2]>>
    BY <1>11 DEF Cause
  <2> QED BY <1>12, <2>1 DEF Triggers, Over
<1>14. HasFollower(c[1], c[2])
  <2> SUFFICES ASSUME ~HasFollower(c[1], c[2]) PROVE FALSE
    OBVIOUS
  <2>1. Left(c[1], c[2])
    BY <1>12 DEF Triggers
  <2>2. rank[c] \in T /\ rank[c] \in Nat /\ rank[<<id, n>>] \in Nat
    BY <1>2, <1>3, <1>13, <2>1
  <2> HIDE DEF T
  <2> QED BY <1>5, <1>7, <1>12, <2>2
<1>15. PICK h \in Tracked : IdentOf[h] = c[1] /\ number[h] = c[2] /\ state[h] = "Done"
  BY <1>14 DEF HasFollower
<1>16. \E k : Shares(k, id, n)
  <2>1. id \in Range(Downstream[IdentOf[h]]) /\ <<IdentOf[h], number[h]>> = c
    BY <1>12, <1>13, <1>15 DEF Triggers
  <2> QED BY <1>11, <1>15, <2>1, KidShares
<1>17. PICK m : m = MainJob(id, n)
  OBVIOUS
<1>18. Shares(m, id, n) /\ state[m] \notin Lost
  BY <1>8, <1>16, <1>17, MainChoice
<1>19. m \in Tracked /\ IdentOf[m] = id
  BY <1>18 DEF Shares
<1>20. state[m] = "Done" /\ result[m] \in Good
  BY <1>18, <1>19, OverIsDone
<1>21. number[m] = n
  BY <1>8, <1>18, <1>20, MasterFollows DEF IsMaster
<1> QED BY <1>7, <1>19, <1>20, <1>21 DEF HasFollower

LEMMA OverIsCovered ==
  ASSUME TypeInv, CausesReal, Live, History0, TreeInv, RootTracked, Grown, opts.pipeline, AllOver
  PROVE  AllCovered
<1>1. \A id \in Ident : \A n \in 1..Len(builds[id]) : Wanted(id, n) => HasFollower(id, n)
  BY OverCovers
<1>2. ASSUME NEW id \in Ident, queued[id] # <<>> PROVE FALSE
  <2>1. PICK c : c \in Range(queued[id]) /\ c \in Cause
    <3>1. queued[id] \in Seq(Cause)
      BY DEF TypeInv, ServerTypeOK
    <3> QED BY <1>2, <3>1, EmptySeq, LenProperties, RangeIsDomain, ElementOfSeq
  <2>2. Triggers(c, id) /\ c = <<c[1], c[2]>>
    BY <2>1 DEF History0, CausesOver, Cause
  <2>3. PICK h \in Tracked : IdentOf[h] = c[1] /\ number[h] = c[2] /\ state[h] = "Done"
    BY <1>1, <2>2 DEF Triggers, Over, HasFollower
  <2>4. PICK k : k = ChildOf(h, id)
    OBVIOUS
  <2>5. k \in Tracked /\ k \in Job \ {Root} /\ IdentOf[k] = id /\ ParentOf(k) = h
    BY <2>2, <2>3, <2>4, KidOf DEF Triggers
  <2>6. ParentCause(k) = c
    BY <2>2, <2>3, <2>5 DEF ParentCause
  <2>7. PICK n : Shares(k, id, n)
    <3>1. CASE state[k] = "Joined"
      BY <2>5, <3>1 DEF TreeInv, InOrder, JoinedAhead, Ahead
    <3>2. CASE state[k] = "Cut"
      BY <2>3, <2>5, <3>2 DEF Live, JobsOK, JobOK, Below
    <3>3. CASE state[k] \notin Lost
      <4>1. state[k] \in Ran
        BY <2>5, <3>3, OverIsDone DEF Ran
      <4> QED BY <2>5, <4>1 DEF TreeInv, InOrder, Numbered
    <3> QED BY <3>1, <3>2, <3>3 DEF Lost
  <2>8. n \in 1..Len(builds[id]) /\ c \in Range(builds[id][n].causes)
    BY <2>6, <2>7 DEF Shares
  <2>9. PICK x \in DOMAIN builds[id][n].causes, y \in DOMAIN queued[id] :
          builds[id][n].causes[x] = queued[id][y]
    <3>1. PICK x \in DOMAIN builds[id][n].causes : builds[id][n].causes[x] = c
      BY <2>8, RangeIsDomain
    <3>2. PICK y \in DOMAIN queued[id] : queued[id][y] = c
      BY <2>1, RangeIsDomain
    <3> QED BY <3>1, <3>2
  <2> QED BY <2>8, <2>9 DEF History0, CausesOnce, OnceAt, Apart
<1> QED BY <1>1, <1>2 DEF AllCovered

LEMMA FollowerKept ==
  ASSUME TypeInv, Moves, Lasting, NEW id, NEW n, n # 0, HasFollower(id, n)
  PROVE  HasFollower(id, n)'
<1>1. PICK j \in Tracked : IdentOf[j] = id /\ number[j] = n /\ state[j] = "Done" /\ result[j] \in Good
  BY DEF HasFollower
<1>2. j \in Job /\ j \in Tracked'
  BY RangeTracked DEF TypeInv, Lasting
<1>3. state'[j] = "Done"
  BY <1>1, <1>2, ValidFacts DEF Moves, Move, TypeInv, JobTypes
<1>4. number'[j] = n /\ result'[j] = result[j]
  BY <1>1, <1>2 DEF Lasting
<1> QED BY <1>1, <1>2, <1>3, <1>4 DEF HasFollower

(* Once all is covered nothing of the pipeline runs or waits any more.      *)
LEMMA CoveredStays ==
  ASSUME TypeInv, History0, DoneIsOver, Moves, Lasting, AllCovered, [Next]_vars
  PROVE  AllCovered'
<1>1. ServerTypeOK /\ \A id \in Ident : Len(builds[id]) \in Nat
  BY LenProperties DEF TypeInv, ServerTypeOK
<1>2. \A id \in Ident : \A n \in 1..Len(builds[id]) : Wanted(id, n) => HasFollower(id, n)'
  BY <1>1, FollowerKept DEF AllCovered
<1>3. CASE UNCHANGED <<builds, queued>>
  BY <1>2, <1>3 DEF AllCovered, Wanted
<1>4. ASSUME NEW id \in Ident, NEW b \in Build, Begins(id, b) PROVE AllCovered'
  <2>0. PICK z : z = Len(builds[id]) + 1
    OBVIOUS
  <2>1. queued'[id] = <<>> /\ b.causes = <<>>
    BY <1>4 DEF Begins, AllCovered
  <2>2. /\ Len(builds'[id]) = z
        /\ \A n \in 1..Len(builds[id]) : builds'[id][n] = builds[id][n]
        /\ builds'[id][z] = b
        /\ \A i \in Ident \ {id} : builds'[i] = builds[i] /\ queued'[i] = queued[i]
    BY <1>4, <2>0 DEF Begins
  <2>3. ~Wanted(id, z)'
    <3>1. id = RootIdent => RootNumber \in 1..Len(builds[id])
      BY DEF History0, RootCaused
    <3>2. RootNumber' = RootNumber
      BY DEF RootNumber
    <3>3. ~(<<id, z>> = <<RootIdent, RootNumber>>)
      BY <1>1, <2>0, <3>1
    <3> QED BY <2>1, <2>2, <3>2, <3>3 DEF Wanted
  <2>4. ASSUME NEW n \in 1..Len(builds'[id]), Wanted(id, n)' PROVE HasFollower(id, n)'
    <3>1. n # z
      BY <2>3, <2>4
    <3>2. n \in 1..Len(builds[id]) /\ builds'[id][n] = builds[id][n]
      BY <1>1, <2>0, <2>2, <3>1
    <3>3. Wanted(id, n)
      BY <2>4, <3>2 DEF Wanted
    <3> QED BY <1>2, <3>2, <3>3
  <2>5. ASSUME NEW i \in Ident \ {id}, NEW n \in 1..Len(builds'[i]), Wanted(i, n)'
        PROVE  HasFollower(i, n)'
    <3>1. n \in 1..Len(builds[i]) /\ Wanted(i, n)
      BY <2>2, <2>5 DEF Wanted
    <3> QED BY <1>2, <3>1
  <2> QED BY <2>1, <2>2, <2>4, <2>5 DEF AllCovered
<1>5. ASSUME NEW id \in Ident, NEW n \in 1..Len(builds[id]), NEW r \in Results, Ends(id, n, r)
      PROVE  FALSE
  <2>1. builds[id][n].result = "running"
    BY <1>5 DEF Ends
  <2>2. HasFollower(id, n)
    BY <2>1 DEF History0, RunningWanted, AllCovered
  <2>3. PICK j \in Tracked : IdentOf[j] = id /\ number[j] = n /\ state[j] = "Done"
    BY <2>2 DEF HasFollower
  <2> QED BY <2>1, <2>3, RangeTracked DEF DoneIsOver, TypeInv
<1> QED BY <1>1, <1>3, <1>4, <1>5, ServerMoves

LEMMA CoveredNext ==
  ASSUME TypeInv, Told, CausesReal, Live, History0, TreeInv, Pursued, Covered, Moves, Lasting,
         opts.pipeline, [Next]_vars
  PROVE  Covered'
<1>1. CASE Tick
  <2> SUFFICES ASSUME complete' PROVE AllCovered'
    BY DEF Covered
  <2>1. AllOver
    BY <1>1 DEF Tick, AllOver
  <2>2. AllCovered
    BY <2>1, OverIsCovered DEF Pursued
  <2> QED BY <2>2, CoveredStays DEF Pursued
<1>2. CASE ~Tick
  <2>1. complete' = complete
    BY <1>2, ToldNext
  <2> QED BY <2>1, CoveredStays DEF Covered, Pursued
<1> QED BY <1>1, <1>2

(* The task succeeds only when every build the pipeline caused has ended    *)
(* well and was followed to its end: whichever jobs joined, were cut or     *)
(* took several causes, whatever Jenkins still queued, and whichever        *)
(* requests fail.  Three configurations are excluded: the results plug-in,  *)
(* the initialisation of a search whose connection is reset, after which a  *)
(* job can be done without children, and builds without causes if the task  *)
(* goes on after it failed.                                                 *)
THEOREM SuccessCovers ==
  ASSUME ~Plugin, CausesShown, <<"init", "reset">> \notin FaultKinds
  PROVE  Spec => []SuccessCoversPipeline
<1> DEFINE Inv == EndInv /\ (opts.pipeline => Pursued /\ Covered)
<1>1. Init => Inv
  BY EndInit, PursuedInit DEF Init, TrackerInit, Covered
<1>2. Inv /\ [Next]_vars => Inv'
  <2> SUFFICES ASSUME Inv, [Next]_vars PROVE Inv'
    OBVIOUS
  <2>1. EndInv' /\ (opts'.pipeline => opts.pipeline)
    BY EndNext, OptionsFall
  <2>2. ASSUME opts'.pipeline PROVE Pursued' /\ Covered'
    <3>1. ~opts.shouldFail /\ ~opts'.shouldFail /\ opts.pipeline
      BY <2>1, <2>2 DEF EndInv, Told
    <3>2. TypeInv /\ Told /\ Pursued /\ Covered
      BY <3>1 DEF EndInv
    <3>4. CASE exited
      <4>1. UNCHANGED vars
        BY <3>4, ExitIsLast
      <4>2. UNCHANGED <<builds, queued, allJobs, state, number, result, work, search, complete>>
        BY <4>1 DEF vars, serverVars, jobVars, queueVars
      <4> QED BY <3>2, <4>2 DEF Pursued, RootTracked, Grown, DoneIsOver, Covered, AllCovered,
              HasFollower, Wanted, Tracked, RootNumber
    <3>5. CASE ~exited
      <4>1. Known /\ LifeInv /\ History0 /\ TreeInv
        BY <3>1, <3>5 DEF EndInv, CausesShown, Known, HasCauses
      <4>2. TreeInv' /\ Lasting /\ Moves /\ LifeInv'
        BY <3>1, <4>1, TreeNext, LifeGoes DEF LifeInv, Denial
      <4>3. Live /\ CausesReal /\ JobsOK'
        BY <3>5, <4>1, <4>2 DEF LifeInv, Lawful, Live
      <4>4. Pursued'
        BY <2>2, <3>1, <3>2, <4>1, <4>2, <4>3, RootTrackedNext, GrownNext, DoneIsOverNext DEF Pursued
      <4>5. Covered'
        BY <3>1, <3>2, <4>1, <4>2, <4>3, CoveredNext
      <4> QED BY <4>4, <4>5
    <3> QED BY <3>4, <3>5
  <2> QED BY <2>1, <2>2
<1>3. Inv => SuccessCoversPipeline
  <2> SUFFICES ASSUME Inv, "Succeeded" \in verdicts, opts.pipeline
               PROVE  /\ \A id \in Ident : queued[id] = <<>>
                      /\ \A id \in Ident : \A n \in 1..Len(builds[id]) :
                           Wanted(id, n) =>
                             \E j \in Tracked :
                               /\ IdentOf[j] = id /\ number[j] = n /\ state[j] = "Done"
                               /\ result[j] = builds[id][n].result /\ result[j] \in Good
    BY DEF SuccessCoversPipeline, Wanted
  <2>1. AllCovered /\ DoneIsOver /\ Tracked \subseteq Job
    BY RangeTracked DEF EndInv, Told, Covered, Pursued, TypeInv
  <2> QED BY <2>1 DEF AllCovered, HasFollower, DoneIsOver
<1> HIDE DEF Inv
<1> QED BY <1>1, <1>2, <1>3, PTL DEF Spec

-----------------------------------------------------------------------------
(* Where the joins of a job lead.                                           *)
JoinOf(k) == IF k \in Tracked /\ state[k] = "Joined" THEN joined[k] ELSE k
Chain(j, m, f) == f = [i \in 0..m |-> IF i = 0 THEN j ELSE JoinOf(f[i - 1])]

LEMMA ChainExists ==
  ASSUME NEW j
  PROVE  \A m \in Nat : \E f : Chain(j, m, f)
<1> DEFINE P == {m \in Nat : \E f : Chain(j, m, f)}
<1>1. 0 \in P
  <2>1. Chain(j, 0, [i \in 0..0 |-> j])
    BY DEF Chain
  <2> QED BY <2>1
<1>2. ASSUME NEW m \in P PROVE m + 1 \in P
  <2>1. PICK f : Chain(j, m, f)
    OBVIOUS
  <2> DEFINE g == [i \in 0..(m + 1) |-> IF i <= m THEN f[i] ELSE JoinOf(f[m])]
  <2>2. ASSUME NEW i \in 0..(m + 1) PROVE g[i] = IF i = 0 THEN j ELSE JoinOf(g[i - 1])
    <3>1. m \in Nat
      OBVIOUS
    <3>2. CASE i <= m
      <4>1. g[i] = f[i] /\ i \in 0..m /\ (i # 0 => g[i - 1] = f[i - 1])
        BY <3>1, <3>2
      <4> QED BY <2>1, <4>1 DEF Chain
    <3>3. CASE i = m + 1
      <4>1. g[i] = JoinOf(f[m]) /\ g[i - 1] = f[m] /\ i # 0
        BY <3>1, <3>3
      <4> QED BY <4>1
    <3> QED BY <3>1, <3>2, <3>3
  <2>3. Chain(j, m + 1, g)
    BY <2>2 DEF Chain
  <2> QED BY <2>3
<1>3. P = Nat
  <2>1. P \in SUBSET Nat
    OBVIOUS
  <2> HIDE DEF P
  <2> QED BY <1>1, <1>2, <2>1, NatInductionSet
<1> QED BY <1>3

LEMMA WorkingChain ==
  ASSUME JobTypes, NEW j
  PROVE  \E f : /\ f[0] = j /\ WorkingJob(j) = f[Len(allJobs)] /\ Len(allJobs) \in Nat
                /\ \A i \in 1..Len(allJobs) : f[i] = JoinOf(f[i - 1])
<1> DEFINE f == CHOOSE f : f = [i \in 0..Len(allJobs) |->
                  IF i = 0 THEN j
                  ELSE LET k == f[i - 1]
                       IN  IF k \in Tracked /\ state[k] = "Joined" THEN joined[k] ELSE k]
<1>1. Len(allJobs) \in Nat
  BY LenProperties DEF JobTypes
<1>2. f = CHOOSE g : Chain(j, Len(allJobs), g)
  BY DEF Chain, JoinOf
<1>3. WorkingJob(j) = f[Len(allJobs)]
  BY DEF WorkingJob
<1> HIDE DEF f
<1>4. Chain(j, Len(allJobs), f)
  BY <1>1, <1>2, ChainExists
<1>5. f[0] = j /\ \A i \in 1..Len(allJobs) : f[i] = JoinOf(f[i - 1])
  BY <1>1, <1>4 DEF Chain
<1> QED BY <1>1, <1>3, <1>5

(* A job joins one that shares its build, and that has taken it or has an   *)
(* earlier cause.                                                           *)
LEMMA JoinShares ==
  ASSUME Sound, InOrder, NEW id \in Ident, NEW n, NEW p, Shares(p, id, n), state[p] = "Joined"
  PROVE  JoinOf(p) = joined[p] /\ Shares(joined[p], id, n) /\ Ahead(joined[p], p, n)
<1>1. p \in Job /\ p \in Tracked /\ IdentOf[p] = id
  BY DEF Shares
<1>2. PICK i : Ahead(joined[p], p, i)
  BY <1>1 DEF InOrder, JoinedAhead
<1>3. Shares(joined[p], id, i) /\ Shares(p, id, i)
  BY <1>1, <1>2 DEF Ahead
<1>4. i = n
  BY <1>3, OneShare DEF Sound
<1> QED BY <1>1, <1>2, <1>3, <1>4 DEF JoinOf

(* The joins along a chain end: they go to ever earlier causes of a build.  *)
LEMMA ChainEnds ==
  ASSUME Sound, InOrder, NEW id \in Ident, NEW n, NEW f, NEW m \in Nat, m = Len(allJobs),
         Shares(f[0], id, n), \A i \in 1..m : f[i] = JoinOf(f[i - 1])
  PROVE  Shares(f[m], id, n) /\ state[f[m]] # "Joined"
<1>1. \A i \in 0..m : Shares(f[i], id, n)
  <2> DEFINE P == {i \in Nat : i <= m => Shares(f[i], id, n)}
  <2>1. 0 \in P
    OBVIOUS
  <2>2. ASSUME NEW i \in P PROVE i + 1 \in P
    <3> SUFFICES ASSUME i + 1 <= m PROVE Shares(f[i + 1], id, n)
      OBVIOUS
    <3>1. Shares(f[i], id, n) /\ f[i + 1] = JoinOf(f[i])
      <4>1. i + 1 \in 1..m /\ (i + 1) - 1 = i /\ i <= m
        OBVIOUS
      <4> QED BY <4>1
    <3> QED BY <3>1, JoinShares DEF JoinOf
  <2>3. P = Nat
    <3>1. P \in SUBSET Nat
      OBVIOUS
    <3> HIDE DEF P
    <3> QED BY <2>1, <2>2, <3>1, NatInductionSet
  <2> QED BY <2>3
<1> SUFFICES ASSUME state[f[m]] = "Joined" PROVE FALSE
  BY <1>1
<1>2. \A i \in 0..m : state[f[i]] = "Joined"
  <2> DEFINE P == {i \in Nat : i <= m => state[f[m - i]] = "Joined"}
  <2>1. 0 \in P
    OBVIOUS
  <2>2. ASSUME NEW i \in P PROVE i + 1 \in P
    <3> SUFFICES ASSUME i + 1 <= m, state[f[m - (i + 1)]] # "Joined" PROVE FALSE
      OBVIOUS
    <3>1. i \in Nat /\ m - (i + 1) \in Nat
      OBVIOUS
    <3>2. PICK k \in Nat : k = m - (i + 1)
      BY <3>1
    <3>3. k + 1 = m - i /\ k + 1 \in 1..m /\ (k + 1) - 1 = k
      BY <3>1, <3>2
    <3>4. f[k + 1] = JoinOf(f[k]) /\ state[f[k]] # "Joined"
      BY <3>2, <3>3
    <3>5. f[k + 1] = f[k]
      BY <3>4 DEF JoinOf
    <3> QED BY <3>3, <3>4, <3>5
  <2>3. P = Nat
    <3>1. P \in SUBSET Nat
      OBVIOUS
    <3> HIDE DEF P
    <3> QED BY <2>1, <2>2, <3>1, NatInductionSet
  <2>4. ASSUME NEW i \in 0..m PROVE state[f[i]] = "Joined"
    <3>1. m - i \in Nat /\ m - i <= m /\ m - (m - i) = i
      OBVIOUS
    <3>2. m - i \in P
      BY <2>3, <3>1
    <3> QED BY <3>1, <3>2
  <2> QED BY <2>4
<1> DEFINE cs == builds[id][n].causes
           e == [i \in 0..m |-> CHOOSE x \in DOMAIN cs : cs[x] = ParentCause(f[i])]
<1>3. /\ n \in 1..Len(builds[id]) /\ DOMAIN cs \subseteq Nat
      /\ \A i \in 0..m : ParentCause(f[i]) \in Range(cs)
      /\ \A x, y \in DOMAIN cs : cs[x] = cs[y] => x = y
  <2>1. n \in 1..Len(builds[id]) /\ \A i \in 0..m : ParentCause(f[i]) \in Range(cs)
    BY <1>1 DEF Shares
  <2>2. cs \in Seq(Cause)
    BY <2>1, CausesType DEF Sound, TypeInv
  <2>3. DOMAIN cs \subseteq Nat
    BY <2>2, LenProperties
  <2>4. \A x, y \in DOMAIN cs : cs[x] = cs[y] => x = y
    BY <2>1, OneCause DEF Sound
  <2> QED BY <2>1, <2>3, <2>4
<1> HIDE DEF cs
<1>4. \A i \in 0..m : e[i] \in DOMAIN cs /\ cs[e[i]] = ParentCause(f[i])
  <2> SUFFICES ASSUME NEW i \in 0..m PROVE e[i] \in DOMAIN cs /\ cs[e[i]] = ParentCause(f[i])
    OBVIOUS
  <2>1. \E x \in DOMAIN cs : cs[x] = ParentCause(f[i])
    BY <1>3, RangeIsDomain
  <2> QED BY <2>1
<1> HIDE DEF e
<1>5. ASSUME NEW i \in Nat, i + 1 <= m PROVE e[i + 1] < e[i]
  <2>1. i \in 0..m /\ i + 1 \in 0..m /\ i + 1 \in 1..m /\ (i + 1) - 1 = i
    BY <1>5
  <2>2. PICK p, q : p = f[i] /\ q = f[i + 1]
    OBVIOUS
  <2>3. Shares(p, id, n) /\ state[p] = "Joined" /\ state[q] = "Joined" /\ q = JoinOf(p)
    BY <1>1, <1>2, <2>1, <2>2
  <2>4. Ahead(q, p, n) /\ q \in Job \ {Root} /\ IdentOf[p] = id
    <3>1. q = joined[p] /\ Shares(joined[p], id, n) /\ Ahead(joined[p], p, n)
      BY <2>3, JoinShares
    <3> QED BY <2>3, <3>1 DEF Shares
  <2>5. number[q] # n
    <3>1. n # 0
      BY <1>3, LenProperties DEF Sound, TypeInv, ServerTypeOK
    <3>2. number[q] # 0 => state[q] \in Ran
      BY <2>4 DEF Sound, JobsOK, JobOK
    <3> QED BY <2>3, <3>1, <3>2 DEF Ran, Running
  <2>6. Earlier(id, n, q, p)
    BY <2>4, <2>5 DEF Ahead
  <2>7. PICK x, y \in DOMAIN cs : x < y /\ cs[x] = ParentCause(q) /\ cs[y] = ParentCause(p)
    BY <2>6 DEF Earlier, cs
  <2>8. x = e[i + 1] /\ y = e[i]
    BY <1>3, <1>4, <2>1, <2>2, <2>7
  <2> QED BY <2>7, <2>8
<1>6. \A y \in 0..m : \A x \in 0..m : x < y => e[y] < e[x]
  <2> DEFINE P == {y \in Nat : y <= m => \A x \in 0..m : x < y => e[y] < e[x]}
  <2>1. 0 \in P
    OBVIOUS
  <2>2. ASSUME NEW y \in P PROVE y + 1 \in P
    <3> SUFFICES ASSUME y + 1 <= m, NEW x \in 0..m, x < y + 1 PROVE e[y + 1] < e[x]
      OBVIOUS
    <3>1. e[y + 1] < e[y] /\ y \in 0..m /\ y + 1 \in 0..m
      BY <1>5
    <3>2. e[x] \in Nat /\ e[y] \in Nat /\ e[y + 1] \in Nat
      BY <1>3, <1>4, <3>1
    <3>3. x = y \/ e[y] < e[x]
      BY <3>1
    <3> QED BY <3>1, <3>2, <3>3
  <2>3. P = Nat
    <3>1. P \in SUBSET Nat
      OBVIOUS
    <3> HIDE DEF P
    <3> QED BY <2>1, <2>2, <3>1, NatInductionSet
  <2> QED BY <2>3
<1> DEFINE h == [i \in 0..m |-> CHOOSE x \in 1..m : allJobs[x] = f[i]]
<1>7. \A i \in 0..m : h[i] \in 1..m /\ allJobs[h[i]] = f[i]
  <2> SUFFICES ASSUME NEW i \in 0..m PROVE h[i] \in 1..m /\ allJobs[h[i]] = f[i]
    OBVIOUS
  <2>1. f[i] \in Range(allJobs)
    BY <1>1 DEF Shares, Tracked
  <2>2. DOMAIN allJobs = 1..m
    BY LenProperties DEF Sound, TypeInv, JobTypes
  <2>3. \E x \in 1..m : allJobs[x] = f[i]
    BY <2>1, <2>2, RangeIsDomain
  <2> QED BY <2>3
<1>8. h \in [0..m -> 1..m]
  BY <1>7
<1> HIDE DEF h
<1>9. PICK x, y \in 0..m : x # y /\ h[x] = h[y]
  <2> DEFINE S == 0..m
             T == 1..m
  <2>1. IsFiniteSet(S) /\ Cardinality(S) = m + 1
    BY FS_Interval
  <2>2. IsFiniteSet(T) /\ Cardinality(T) = m
    <3>1. 1 \in Int /\ m \in Int
      OBVIOUS
    <3>2. IsFiniteSet(T) /\ Cardinality(T) = IF 1 > m THEN 0 ELSE m - 1 + 1
      BY <3>1, FS_Interval
    <3> QED BY <3>2
  <2>3. h \in [S -> T]
    BY <1>8
  <2> HIDE DEF S, T
  <2>4. Cardinality(T) < Cardinality(S)
    BY <2>1, <2>2
  <2>5. \E x, y \in S : x # y /\ h[x] = h[y]
    BY <2>1, <2>2, <2>3, <2>4, FS_PigeonHole
  <2> QED BY <2>5 DEF S
<1>10. f[x] = f[y]
  BY <1>7, <1>9
<1>11. e[x] = e[y]
  BY <1>3, <1>4, <1>10
<1>12. (x < y \/ y < x) /\ e[x] \in Nat /\ e[y] \in Nat
  BY <1>3, <1>4, <1>9
<1> QED BY <1>6, <1>11, <1>12
(* The joins of a job end, however long they are, at a job that shares its  *)
(* build: neither joined nor cut, since its parent ran.                     *)
LEMMA JoinedFollows ==
  ASSUME Sound, InOrder, NEW j \in Tracked, state[j] = "Joined"
  PROVE  \E n : /\ Shares(j, IdentOf[j], n) /\ Shares(WorkingJob(j), IdentOf[j], n)
                /\ state[WorkingJob(j)] \notin Lost
<1>1. PICK id : id = IdentOf[j] /\ id \in Ident /\ j \in Job
  BY RangeTracked, TreeAssumption DEF Sound, TypeInv
<1>2. PICK n : Shares(j, id, n)
  BY <1>1 DEF InOrder, JoinedAhead, Ahead
<1>3. PICK f : /\ f[0] = j /\ WorkingJob(j) = f[Len(allJobs)] /\ Len(allJobs) \in Nat
               /\ \A i \in 1..Len(allJobs) : f[i] = JoinOf(f[i - 1])
  BY WorkingChain DEF Sound, TypeInv
<1>4. PICK m \in Nat : m = Len(allJobs)
  BY <1>3
<1>5. Shares(f[m], id, n) /\ state[f[m]] # "Joined"
  BY <1>1, <1>2, <1>3, <1>4, ChainEnds
<1>6. PICK k : k = WorkingJob(j)
  OBVIOUS
<1>7. Shares(k, id, n) /\ state[k] # "Joined"
  BY <1>3, <1>4, <1>5, <1>6
<1>8. state[k] # "Cut"
  <2>1. k \in Job /\ state[ParentOf(k)] \in Ran
    BY <1>7 DEF Shares
  <2>2. state[k] = "Cut" => state[ParentOf(k)] \in {"Joined", "Cut"}
    BY <2>1 DEF Sound, JobsOK, JobOK, Below
  <2> QED BY <2>1, <2>2 DEF Ran, Running
<1> QED BY <1>1, <1>2, <1>6, <1>7, <1>8 DEF Lost

LEMMA OthersFollow ==
  ASSUME JobTypes, NEW j, state[j] # "Joined"
  PROVE  WorkingJob(j) = j
<1>1. PICK f : /\ f[0] = j /\ WorkingJob(j) = f[Len(allJobs)] /\ Len(allJobs) \in Nat
               /\ \A i \in 1..Len(allJobs) : f[i] = JoinOf(f[i - 1])
  BY WorkingChain
<1> DEFINE P == {i \in Nat : i <= Len(allJobs) => f[i] = j}
<1>2. 0 \in P
  BY <1>1
<1>3. ASSUME NEW i \in P PROVE i + 1 \in P
  <2> SUFFICES ASSUME i + 1 <= Len(allJobs) PROVE f[i + 1] = j
    OBVIOUS
  <2>1. i + 1 \in 1..Len(allJobs) /\ (i + 1) - 1 = i /\ f[i] = j
    BY <1>1
  <2> QED BY <1>1, <2>1 DEF JoinOf
<1>4. P = Nat
  <2>1. P \in SUBSET Nat
    OBVIOUS
  <2> HIDE DEF P
  <2> QED BY <1>2, <1>3, <2>1, NatInductionSet
<1> QED BY <1>1, <1>4

LEMMA TrackedFollows == TrackInv => FollowsItsCause
<1> SUFFICES ASSUME TrackInv, NEW j \in Tracked \ {Root}
             PROVE  /\ state[j] = "Joined" =>
                         /\ WorkingJob(j) \in Tracked \ {j}
                         /\ IdentOf[WorkingJob(j)] = IdentOf[j]
                         /\ state[WorkingJob(j)] \notin {"Joined", "Cut"}
                    /\ WorkingJob(j) \in Tracked /\ number[WorkingJob(j)] # 0 =>
                         ParentCause(j) \in Causes(IdentOf[WorkingJob(j)], number[WorkingJob(j)])
  BY DEF FollowsItsCause
<1>1. Sound /\ InOrder /\ JobTypes
  BY DEF TrackInv, LifeInv, Lawful, TypeInv, History0, TreeInv, Sound
<1>2. PICK k, id : k = WorkingJob(j) /\ id = IdentOf[j] /\ id \in Ident /\ j \in Job
  BY <1>1, RangeTracked, TreeAssumption
<1>3. CASE state[j] = "Joined"
  <2>1. PICK n : Shares(j, id, n) /\ Shares(k, id, n) /\ state[k] \notin Lost
    BY <1>1, <1>2, <1>3, JoinedFollows
  <2>2. k \in Tracked \ {j} /\ k \in Job \ {Root} /\ IdentOf[k] = id
    BY <1>3, <2>1 DEF Shares, Lost
  <2>3. n \in 1..Len(builds[id]) /\ ParentCause(j) \in Range(builds[id][n].causes)
    BY <2>1 DEF Shares
  <2>4. number[k] # 0 => number[k] = n
    <3>1. number[k] # 0 => Shares(k, id, number[k])
      BY <2>2 DEF TrackInv, TreeInv, InOrder, Numbered
    <3> QED BY <1>1, <1>2, <2>1, <3>1, OneShare DEF Sound
  <2>5. number[k] # 0 => ParentCause(j) \in Causes(id, number[k])
    BY <2>3, <2>4 DEF Causes
  <2> QED BY <1>2, <2>1, <2>2, <2>5 DEF Lost
<1>4. CASE state[j] # "Joined"
  <2>1. k = j
    BY <1>1, <1>2, <1>4, OthersFollow
  <2>2. number[j] # 0 => Shares(j, id, number[j])
    BY <1>2 DEF TrackInv, TreeInv, InOrder, Numbered
  <2>3. number[j] # 0 => ParentCause(j) \in Causes(id, number[j])
    BY <2>2 DEF Shares, Causes
  <2> QED BY <1>2, <1>4, <2>1, <2>3
<1> QED BY <1>3, <1>4

(* A job that was joined leads, however often its main jobs were joined     *)
(* themselves, to a job of its project that is neither joined nor cut, and  *)
(* the build that one follows was caused by the build of the first one's    *)
(* own parent.  So findWorkingJob ends, and shows the right build.          *)
THEOREM CauseFollowed ==
  ASSUME Plain, CausesShown
  PROVE  Spec => []FollowsItsCause
<1>1. Spec => []TrackInv
  BY TrackInvariant
<1> QED BY <1>1, TrackedFollows, PTL
=============================================================================
