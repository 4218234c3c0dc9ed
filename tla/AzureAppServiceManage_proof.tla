---------------------- MODULE AzureAppServiceManage_proof ----------------------
(***************************************************************************)
(* The safety of AzureAppServiceManage, for any web jobs and extensions,   *)
(* any limits of the retries and loops and any number of faults.           *)
(*                                                                         *)
(* The chain of requests of an action says what the action has still to    *)
(* achieve: for each thing a success stands for, either the request that   *)
(* brings it about is still to come, or the site has it (Goals).  That a   *)
(* request is not skipped is in the order of the chain (Shape), which the  *)
(* rest of a chain inherits.                                               *)
(***************************************************************************)
EXTENDS AzureAppServiceManage, Subsequences_proof, TLAPS

Places == {"site", "source", "target"} \cup Job \cup Extension
At(request) == <<request, "site">>

(* The requests of action a.                                               *)
Steps(a) ==
  CASE a \in {"start", "stop"} -> {"resourceGroup", a, "monitor", "ping"} \X {"site"}
    [] a = "restart" -> {"resourceGroup", "restart", "ping"} \X {"site"}
    [] a = "swap" ->
         ({"throw", "swap", "operation"} \X {"site"}) \cup ({"ping"} \X {"source", "target"})
    [] a = "startJobs" ->
         ({"resourceGroup", "credentials", "listJobs"} \X {"site"}) \cup ({"startJob"} \X Job)
    [] a = "stopJobs" ->
         ({"resourceGroup", "credentials", "listJobs"} \X {"site"}) \cup ({"stopJob"} \X Job)
    [] a = "install" ->
         ({"resourceGroup", "credentials", "listInstalled", "listAll", "getProcess", "kill",
           "pollProcess"} \X {"site"}) \cup ({"install"} \X Extension)
    [] a = "monitoring" ->
         ({"resourceGroup", "app", "insights", "profile", "credentials", "tag", "settings", "key",
           "alwaysOn", "webTests", "webTest"} \X {"site"}) \cup {<<"install", ApplicationInsights>>}

StatusRequests == {"credentials", "history"} \X {"site", "source", "target"}

(* The order in which requests come.                                       *)
Shape(t) ==
  /\ Ordered(t, At("start"), At("monitor")) /\ Ordered(t, At("stop"), At("monitor"))
  /\ \A e \in Extension : Ordered(t, <<"install", e>>, At("getProcess"))
  /\ Ordered(t, At("getProcess"), At("pollProcess"))
  /\ Ordered(t, At("tag"), At("webTests")) /\ Ordered(t, At("key"), At("webTests"))
  /\ Followed(t, At("swap"), At("operation")) /\ Once(t, At("swap"))
  /\ Adjacent(t, At("settings"), At("key")) /\ Adjacent(t, At("webTests"), At("webTest"))

(* What is achieved, or still to come in t, by each kind of action: r is   *)
(* the request that starts or stops, w the state wanted, st, tg, sw, ...   *)
(* are the variables of the site, f the faults.                            *)
Launched(t, r, w, st, tg, f) ==
  /\ Has(t, At(r)) \/ tg = w
  /\ Has(t, At("monitor")) \/ (tg = w /\ (st = w \/ f > 0))

SwapOver(t, sw) ==
  \/ Has(t, At("throw"))
  \/ /\ Has(t, At("swap")) \/ sw # << >>
     /\ Has(t, At("operation")) \/ Last(sw) = "good"

Started(t, rn) ==
  \A j \in Job : Has(t, At("listJobs")) \/ Has(t, <<"startJob", j>>) \/ j \in rn

Stopped(t, rn) ==
  \A j \in Job : Has(t, At("listJobs")) \/ Has(t, <<"stopJob", j>>) \/ j \notin rn

Loaded(t, ins, pr, ld) ==
  /\ Has(t, At("getProcess")) \/ (ins = Extension /\ (pr = "other" => ld = Extension))
  /\ Has(t, At("pollProcess")) \/ (ins = Extension /\ ld = Extension)

Extended(t, ins, pr, ld, fd) ==
  \/ Has(t, At("listInstalled"))
  \/ /\ \A e \in Extension : Has(t, <<"install", e>>) \/ e \in ins
     /\ fd = Extension \/ Loaded(t, ins, pr, ld)

Linked(t, lk, f) ==
  /\ Has(t, At("tag")) \/ "tag" \in lk
  /\ Has(t, At("key")) \/ "key" \in lk
  /\ Has(t, At("alwaysOn")) \/ "alwaysOn" \in lk \/ f > 0
  /\ Has(t, At("webTest")) \/ "webTest" \in lk \/ f > 0

(* What action a promises with t left.                                     *)
Goals(a, t, st, tg, sw, rn, ins, pr, ld, lk, fd, f) ==
  /\ a = "start" => Launched(t, "start", "running", st, tg, f)
  /\ a = "stop" => Launched(t, "stop", "stopped", st, tg, f)
  /\ a = "swap" => SwapOver(t, sw)
  /\ a = "startJobs" => Started(t, rn)
  /\ a = "stopJobs" => Stopped(t, rn)
  /\ a = "install" => Extended(t, ins, pr, ld, fd)
  /\ a = "monitoring" => Linked(t, lk, f)

GoalsNow(t) ==
  Goals(action, t, state, target, swaps, running, installed, process, loaded, links, found, faults)
GoalsNext(t) ==
  Goals(action, t, state', target', swaps', running', installed', process', loaded', links', found,
        faults')

ControlType ==
  /\ action \in Action /\ phase \in {"action", "status", "ended"}
  /\ todo = << >> <=> phase = "ended"
  /\ tries \in 0 .. RetryCount - 1 /\ repeats \in 0 .. KuduRetries
  /\ polls \in Nat /\ (polls < ProcessPolls \/ polls < OperationPolls)
  /\ found \subseteq Extension /\ failed \in BOOLEAN

SiteType ==
  /\ state \in {"running", "stopped"} /\ target \in {"running", "stopped"}
  /\ swaps \in Seq({"running", "good", "bad"})
  /\ running \subseteq Job /\ installed \subseteq Extension /\ loaded \subseteq installed
  /\ process \in {"down", "seen", "other"} /\ links \subseteq Link
  /\ faults \in 0 .. MaxFaults

(* The chain of requests, and what it has achieved.                        *)
Progress ==
  /\ phase = "action" =>
       todo \in Seq(Steps(action)) /\ Shape(todo) /\ GoalsNow(todo) /\ ~ failed
  /\ phase # "action" => todo \in Seq(StatusRequests) /\ (~ failed => GoalsNow(<< >>))

(* A swap that is still to come is the only one without a fault.           *)
SwapCount ==
  /\ Len(swaps) <= 1 + faults
  /\ phase = "action" /\ Has(todo, At("swap")) => Len(swaps) <= faults

IInv == ControlType /\ SiteType /\ Progress /\ SwapCount

------------------------------------------------------------------------------
(* The sequences of requests.                                              *)

(* SetToSeq gives a sequence of the elements of a finite set.              *)
LEMMA SetToSeqElements ==
  ASSUME NEW S, IsFiniteSet(S)
  PROVE  SetToSeq(S) \in Seq(S) /\ \A x : Has(SetToSeq(S), x) <=> x \in S
<1> DEFINE n == Cardinality(S)
           f == SetToSeq(S)
<1>1. n \in Nat /\ ExistsBijection(1 .. n, S)
  BY FS_CardinalityType
<1>2. PICK g : g \in Bijection(1 .. n, S)
  BY <1>1 DEF ExistsBijection
<1>3. g \in [1 .. n -> S] /\ IsInjective(g)
  BY <1>2 DEF Bijection, Injection
<1>4. f \in [1 .. n -> S] /\ IsInjective(f)
  BY <1>3 DEF SetToSeq
<1>5. IsFiniteSet(1 .. n) /\ Cardinality(1 .. n) = n
  <2>1. 1 \in Int /\ n \in Int
    BY <1>1
  <2>2. IsFiniteSet(1 .. n) /\ Cardinality(1 .. n) = IF 1 > n THEN 0 ELSE n - 1 + 1
    BY <2>1, FS_Interval
  <2> QED BY <1>1, <2>2
<1> HIDE DEF f
<1>6. f \in Surjection(1 .. n, S)
  <2>1. f \in Injection(1 .. n, S)
    BY <1>4 DEF Injection
  <2> QED BY <1>5, <2>1, FS_Injection
<1>7. f \in Seq(S) /\ DOMAIN f = 1 .. n
  BY <1>1, <1>4, SeqDef
<1>8. \A x \in S : \E i \in DOMAIN f : f[i] = x
  BY <1>6, <1>7 DEF Surjection
<1>9. \A i \in DOMAIN f : f[i] \in S
  BY <1>4
<1> QED BY <1>7, <1>8, <1>9 DEF Has, f

LEMMA OnEachElements ==
  ASSUME NEW request, NEW S, IsFiniteSet(S)
  PROVE  /\ OnEach(request, S) \in Seq({request} \X S)
         /\ \A x : Has(OnEach(request, S), x) <=> x \in {request} \X S
<1>1. {<<request, of>> : of \in S} = {request} \X S
  OBVIOUS
<1>2. IsFiniteSet({request} \X S)
  BY FS_Singleton, FS_Product
<1> QED BY <1>1, <1>2, SetToSeqElements DEF OnEach

LEMMA TailShape ==
  ASSUME NEW S, NEW t \in Seq(S), t # << >>, Shape(t)
  PROVE  Shape(Tail(t))
BY TailFacts, TailAdjacent, TailOnce DEF Shape


LEMMA PrefixShape ==
  ASSUME NEW S, NEW s \in Seq(S), NEW t \in Seq(S), Shape(t),
         \A r \in {"monitor", "getProcess", "pollProcess", "webTests", "swap", "settings"} :
           ~ Has(s, At(r))
  PROVE  s \o t \in Seq(S) /\ Shape(s \o t)
<1>1. ASSUME NEW x, NEW y, ~ Has(s, y), Ordered(t, x, y) PROVE Ordered(s \o t, x, y)
  <2>1. Ordered(s, x, y)
    BY <1>1 DEF Has, Ordered
  <2> QED BY <1>1, <2>1, ConcatFacts
<1>2. /\ Followed(s \o t, At("swap"), At("operation")) /\ Once(s \o t, At("swap"))
      /\ Adjacent(s \o t, At("settings"), At("key"))
      /\ Adjacent(s \o t, At("webTests"), At("webTest"))
  BY PrefixFacts DEF Shape
<1> QED BY <1>1, <1>2, ConcatFacts DEF Shape

LEMMA PlainRequests ==
  /\ Plain(<<"resourceGroup">>) = <<At("resourceGroup")>>
  /\ Plain(<<"throw">>) = <<At("throw")>>
  /\ Plain(<<"start", "monitor", "ping">>) = <<At("start"), At("monitor"), At("ping")>>
  /\ Plain(<<"stop", "monitor">>) = <<At("stop"), At("monitor")>>
  /\ Plain(<<"restart", "ping">>) = <<At("restart"), At("ping")>>
  /\ Plain(<<"swap", "operation">>) = <<At("swap"), At("operation")>>
  /\ Plain(<<"credentials", "listJobs">>) = <<At("credentials"), At("listJobs")>>
  /\ Plain(<<"credentials", "listInstalled">>) = <<At("credentials"), At("listInstalled")>>
  /\ Plain(<<"getProcess", "kill", "pollProcess">>)
       = <<At("getProcess"), At("kill"), At("pollProcess")>>
  /\ Plain(<<"listAll">>) = <<At("listAll")>>
  /\ Plain(<<"history">>) = <<At("history")>>
  /\ Plain(<<"app", "insights", "profile">>) = <<At("app"), At("insights"), At("profile")>>
  /\ Plain(<<"tag", "settings", "key", "alwaysOn", "webTests", "webTest">>)
       = <<At("tag"), At("settings"), At("key"), At("alwaysOn"), At("webTests"), At("webTest")>>
BY DEF Plain, At

LEMMA ShortShapes ==
  /\ Shape(<<At("throw")>>)
  /\ Shape(<<At("start"), At("monitor"), At("ping")>>)
  /\ Shape(<<At("stop"), At("monitor")>>)
  /\ Shape(<<At("restart"), At("ping")>>)
  /\ Shape(<<At("swap"), At("operation")>>)
  /\ Shape(<<At("credentials"), At("listJobs")>>)
  /\ Shape(<<At("credentials"), At("listInstalled")>>)
  /\ Shape(<<At("getProcess"), At("kill"), At("pollProcess")>>)
<1>1. Shape(<<At("throw")>>)
  BY DEF Shape, At, Ordered, Followed, Adjacent, Once
<1>2. Shape(<<At("start"), At("monitor"), At("ping")>>)
  BY DEF Shape, At, Ordered, Followed, Adjacent, Once
<1>3. Shape(<<At("stop"), At("monitor")>>)
  BY DEF Shape, At, Ordered, Followed, Adjacent, Once
<1>4. Shape(<<At("restart"), At("ping")>>)
  BY DEF Shape, At, Ordered, Followed, Adjacent, Once
<1>5. Shape(<<At("swap"), At("operation")>>)
  BY DEF Shape, At, Ordered, Followed, Adjacent, Once
<1>6. Shape(<<At("credentials"), At("listJobs")>>)
  BY DEF Shape, At, Ordered, Followed, Adjacent, Once
<1>7. Shape(<<At("credentials"), At("listInstalled")>>)
  BY DEF Shape, At, Ordered, Followed, Adjacent, Once
<1>8. Shape(<<At("getProcess"), At("kill"), At("pollProcess")>>)
  BY DEF Shape, At, Ordered, Followed, Adjacent, Once
<1> QED BY <1>1, <1>2, <1>3, <1>4, <1>5, <1>6, <1>7, <1>8

LEMMA LinkShape ==
  Shape(<<At("tag"), At("settings"), At("key"), At("alwaysOn"), At("webTests"), At("webTest")>>)
BY DEF Shape, At, Ordered, Followed, Adjacent, Once


(* More to come does no harm to what is promised.                          *)
LEMMA GoalsGrow ==
  ASSUME NEW a, NEW t, NEW u, \A x : Has(t, x) => Has(u, x),
         NEW st, NEW tg, NEW sw, NEW rn, NEW ins, NEW pr, NEW ld, NEW lk, NEW fd, NEW f,
         Goals(a, t, st, tg, sw, rn, ins, pr, ld, lk, fd, f)
  PROVE  Goals(a, u, st, tg, sw, rn, ins, pr, ld, lk, fd, f)
<1>1. a = "start" => Launched(u, "start", "running", st, tg, f)
  BY DEF Goals, Launched
<1>2. a = "stop" => Launched(u, "stop", "stopped", st, tg, f)
  BY DEF Goals, Launched
<1>3. a = "swap" => SwapOver(u, sw)
  BY DEF Goals, SwapOver
<1>4. a = "startJobs" => Started(u, rn)
  BY DEF Goals, Started
<1>5. a = "stopJobs" => Stopped(u, rn)
  BY DEF Goals, Stopped
<1>6. a = "install" => Extended(u, ins, pr, ld, fd)
  BY DEF Goals, Extended, Loaded
<1>7. a = "monitoring" => Linked(u, lk, f)
  BY DEF Goals, Linked
<1> QED BY <1>1, <1>2, <1>3, <1>4, <1>5, <1>6, <1>7 DEF Goals

(* What an action begins with promises all of it.                          *)
Promised(a, t) ==
  /\ a \in {"start", "stop"} => Has(t, At(a)) /\ Has(t, At("monitor"))
  /\ a = "swap" => Has(t, At("throw")) \/ (Has(t, At("swap")) /\ Has(t, At("operation")))
  /\ a \in {"startJobs", "stopJobs"} => Has(t, At("listJobs"))
  /\ a = "install" => Has(t, At("listInstalled"))
  /\ a = "monitoring" =>
       /\ Has(t, At("tag")) /\ Has(t, At("key"))
       /\ Has(t, At("alwaysOn")) /\ Has(t, At("webTest"))

LEMMA PromisedGoals ==
  ASSUME NEW a, NEW t, Promised(a, t),
         NEW st, NEW tg, NEW sw, NEW rn, NEW ins, NEW pr, NEW ld, NEW lk, NEW fd, NEW f
  PROVE  Goals(a, t, st, tg, sw, rn, ins, pr, ld, lk, fd, f)
<1>1. /\ a = "start" => Launched(t, "start", "running", st, tg, f)
      /\ a = "stop" => Launched(t, "stop", "stopped", st, tg, f)
  BY DEF Promised, Launched
<1>2. a = "swap" => SwapOver(t, sw)
  BY DEF Promised, SwapOver
<1>3. (a = "startJobs" => Started(t, rn)) /\ (a = "stopJobs" => Stopped(t, rn))
  BY DEF Promised, Started, Stopped
<1>4. a = "install" => Extended(t, ins, pr, ld, fd)
  BY DEF Promised, Extended
<1>5. a = "monitoring" => Linked(t, lk, f)
  BY DEF Promised, Linked
<1> QED BY <1>1, <1>2, <1>3, <1>4, <1>5 DEF Goals

LEMMA ActionsStart ==
  ASSUME NEW a \in {"start", "stop", "restart"}, NEW t \in Actions(a)
  PROVE  t \in Seq(Steps(a)) /\ t # << >> /\ Shape(t) /\ Promised(a, t)
<1>1. CASE a = "start"
  <2>1. t = <<At("start"), At("monitor"), At("ping")>>
    BY <1>1, PlainRequests DEF Actions
  <2>2. Steps(a) = {"resourceGroup", "start", "monitor", "ping"} \X {"site"}
    BY <1>1 DEF Steps
  <2>3. t \in Seq(Steps(a)) /\ t # << >>
    BY <2>1, <2>2 DEF At
  <2>4. Has(t, At("start")) /\ Has(t, At("monitor"))
    BY <2>1 DEF Has
  <2> QED BY <1>1, <2>1, <2>3, <2>4, ShortShapes DEF Promised
<1>2. CASE a = "stop"
  <2>1. t = <<At("stop"), At("monitor")>>
    BY <1>2, PlainRequests DEF Actions
  <2>2. Steps(a) = {"resourceGroup", "stop", "monitor", "ping"} \X {"site"}
    BY <1>2 DEF Steps
  <2>3. t \in Seq(Steps(a)) /\ t # << >>
    BY <2>1, <2>2 DEF At
  <2>4. Has(t, At("stop")) /\ Has(t, At("monitor"))
    BY <2>1 DEF Has
  <2> QED BY <1>2, <2>1, <2>3, <2>4, ShortShapes DEF Promised
<1>3. CASE a = "restart"
  <2>1. t = <<At("restart"), At("ping")>>
    BY <1>3, PlainRequests DEF Actions
  <2>2. Steps(a) = {"resourceGroup", "restart", "ping"} \X {"site"}
    BY <1>3 DEF Steps
  <2>3. t \in Seq(Steps(a)) /\ t # << >>
    BY <2>1, <2>2 DEF At
  <2> QED BY <1>3, <2>1, <2>3, ShortShapes DEF Promised
<1> QED BY <1>1, <1>2, <1>3

LEMMA ActionsKudu ==
  ASSUME NEW a \in {"startJobs", "stopJobs", "install"}, NEW t \in Actions(a)
  PROVE  t \in Seq(Steps(a)) /\ t # << >> /\ Shape(t) /\ Promised(a, t)
<1>1. CASE a \in {"startJobs", "stopJobs"}
  <2>1. t = <<At("credentials"), At("listJobs")>>
    BY <1>1, PlainRequests DEF Actions
  <2>2. At("credentials") \in Steps(a) /\ At("listJobs") \in Steps(a)
    BY <1>1 DEF Steps, At
  <2>3. t \in Seq(Steps(a)) /\ t # << >>
    BY <2>1, <2>2
  <2>4. Has(t, At("listJobs"))
    BY <2>1 DEF Has
  <2> QED BY <1>1, <2>1, <2>3, <2>4, ShortShapes DEF Promised
<1>2. CASE a = "install"
  <2>1. t = <<At("credentials"), At("listInstalled")>>
    BY <1>2, PlainRequests DEF Actions
  <2>2. At("credentials") \in Steps(a) /\ At("listInstalled") \in Steps(a)
    BY <1>2 DEF Steps, At
  <2>3. t \in Seq(Steps(a)) /\ t # << >>
    BY <2>1, <2>2
  <2>4. Has(t, At("listInstalled"))
    BY <2>1 DEF Has
  <2> QED BY <1>2, <2>1, <2>3, <2>4, ShortShapes DEF Promised
<1> QED BY <1>1, <1>2

LEMMA ActionsSwap ==
  ASSUME NEW t \in Actions("swap")
  PROVE  t \in Seq(Steps("swap")) /\ t # << >> /\ Shape(t) /\ Promised("swap", t)
<1> DEFINE s == <<At("swap"), At("operation")>>
           S == Steps("swap")
<1>1. Actions("swap") = {<<At("throw")>>, Both("ping") \o s}
  BY PlainRequests DEF Actions
<1>2. /\ At("throw") \in S /\ At("swap") \in S /\ At("operation") \in S
      /\ <<"ping", "source">> \in S /\ <<"ping", "target">> \in S
  BY DEF Steps, At
<1>3. CASE t = <<At("throw")>>
  <2>1. t \in Seq(S) /\ t # << >>
    BY <1>2, <1>3
  <2>2. Has(t, At("throw"))
    BY <1>3 DEF Has
  <2> QED BY <1>3, <2>1, <2>2, ShortShapes DEF Promised
<1>4. CASE t = Both("ping") \o s
  <2>1. Both("ping") = << <<"ping", "source">>, <<"ping", "target">> >>
    BY DEF Both
  <2>2. Both("ping") \in Seq(S) /\ s \in Seq(S)
    <3> HIDE DEF S
    <3>1. Both("ping") \in Seq(S)
      <4> DEFINE p == <<"ping", "source">>
                 q == <<"ping", "target">>
      <4>1. p \in S /\ q \in S /\ Both("ping") = <<p, q>>
        BY <1>2, <2>1
      <4> HIDE DEF p, q
      <4>2. <<p, q>> \in Seq(S)
        BY <4>1
      <4> QED BY <4>1, <4>2
    <3>2. s \in Seq(S)
      BY <1>2
    <3> QED BY <3>1, <3>2
  <2>3. \A x \in {"monitor", "getProcess", "pollProcess", "webTests", "swap", "settings"} :
          ~ Has(Both("ping"), At(x))
    BY <2>1 DEF Has, At
  <2>4. Has(s, At("swap")) /\ Has(s, At("operation")) /\ Shape(s)
    <3>1. Has(s, At("swap")) /\ Has(s, At("operation"))
      BY DEF Has
    <3> QED BY <3>1, ShortShapes
  <2> HIDE DEF s, S
  <2>5. t \in Seq(S) /\ Shape(t)
    BY <1>4, <2>2, <2>3, <2>4, PrefixShape
  <2>6. Has(t, At("swap")) /\ Has(t, At("operation"))
    BY <1>4, <2>2, <2>4, ConcatFacts
  <2>7. t # << >>
    BY <2>6, ShortSequences
  <2> QED BY <2>5, <2>6, <2>7 DEF Promised, S
<1> QED BY <1>1, <1>3, <1>4


LEMMA ActionsMonitoring ==
  ASSUME NEW t \in Actions("monitoring"), ManageAssumption
  PROVE  t \in Seq(Steps("monitoring")) /\ t # << >> /\ Shape(t) /\ Promised("monitoring", t)
<1> DEFINE s == <<At("app"), At("insights"), At("profile")>>
           k == <<At("credentials"), <<"install", ApplicationInsights>> >>
           u == <<At("tag"), At("settings"), At("key"), At("alwaysOn"), At("webTests"),
                  At("webTest")>>
           S == Steps("monitoring")
<1>1. t \in {s \o << >> \o u, s \o k \o u}
  BY PlainRequests DEF Actions, Monitoring, At
<1>2. /\ At("app") \in S /\ At("insights") \in S /\ At("profile") \in S
      /\ At("credentials") \in S /\ <<"install", ApplicationInsights>> \in S
      /\ At("tag") \in S /\ At("settings") \in S /\ At("key") \in S
      /\ At("alwaysOn") \in S /\ At("webTests") \in S /\ At("webTest") \in S
  BY DEF Steps, At
<1> HIDE DEF S
<1>3. s \in Seq(S) /\ k \in Seq(S) /\ << >> \in Seq(S)
  BY <1>2
<1>4. u \in Seq(S)
  BY <1>2
<1>5. \A r \in {"monitor", "getProcess", "pollProcess", "webTests", "swap", "settings"} :
        ~ Has(s, At(r)) /\ ~ Has(k, At(r)) /\ ~ Has(<< >>, At(r))
  BY DEF Has, At
<1>6. Has(u, At("tag")) /\ Has(u, At("key")) /\ Has(u, At("alwaysOn")) /\ Has(u, At("webTest"))
  <2>1. DOMAIN u = 1 .. 6
    OBVIOUS
  <2> QED BY <2>1 DEF Has
<1>7. Shape(u)
  BY LinkShape
<1> HIDE DEF s, k, u
<1>8. PICK v \in {<< >>, k} : t = s \o v \o u
  BY <1>1
<1>9. v \in Seq(S) /\ s \o v \in Seq(S)
  BY <1>3, <1>8, ConcatProperties
<1>10. \A r \in {"monitor", "getProcess", "pollProcess", "webTests", "swap", "settings"} :
         ~ Has(s \o v, At(r))
  BY <1>3, <1>5, <1>8, <1>9, ConcatFacts
<1>11. t \in Seq(S) /\ Shape(t)
  BY <1>4, <1>7, <1>8, <1>9, <1>10, PrefixShape
<1>12. \A x : Has(u, x) => Has(t, x)
  BY <1>4, <1>8, <1>9, ConcatFacts
<1>13. t # << >>
  BY <1>6, <1>12, ShortSequences
<1> QED BY <1>6, <1>11, <1>12, <1>13 DEF Promised, S

LEMMA ActionsGood ==
  ASSUME NEW a \in Action, NEW t \in Actions(a), ManageAssumption
  PROVE  t \in Seq(Steps(a)) /\ t # << >> /\ Shape(t) /\ Promised(a, t)
BY ActionsStart, ActionsKudu, ActionsSwap, ActionsMonitoring DEF Action

LEMMA BeginningsGood ==
  ASSUME NEW a \in Action, NEW t \in Beginnings(a), ManageAssumption
  PROVE  t \in Seq(Steps(a)) /\ t # << >> /\ Shape(t) /\ Promised(a, t)
<1>1. CASE t \in Actions(a)
  BY <1>1, ActionsGood
<1>2. CASE t \notin Actions(a)
  <2> DEFINE s == <<At("resourceGroup")>>
  <2>1. PICK u \in Actions(a) : t = s \o u
    BY <1>2, PlainRequests DEF Beginnings
  <2>2. a # "swap"
    BY <1>2 DEF Beginnings
  <2>3. u \in Seq(Steps(a)) /\ Shape(u) /\ Promised(a, u)
    BY ActionsGood
  <2>4. At("resourceGroup") \in Steps(a)
    BY <2>2 DEF Steps, At, Action
  <2>5. s \in Seq(Steps(a))
    BY <2>4
  <2>6. \A x : Has(s, x) <=> x = At("resourceGroup")
    BY DEF Has
  <2>7. \A r \in {"monitor", "getProcess", "pollProcess", "webTests", "swap", "settings"} :
          ~ Has(s, At(r))
    BY <2>6 DEF At
  <2> HIDE DEF s
  <2>8. t \in Seq(Steps(a)) /\ Shape(t)
    BY <2>1, <2>3, <2>5, <2>7, PrefixShape
  <2>9. \A x : Has(s, x) \/ Has(u, x) => Has(t, x)
    BY <2>1, <2>3, <2>5, ConcatFacts
  <2>10. Has(t, At("resourceGroup"))
    BY <2>6, <2>9
  <2>11. Promised(a, t)
    BY <2>3, <2>9 DEF Promised
  <2>12. t # << >>
    BY <2>10, ShortSequences
  <2> QED BY <2>8, <2>11, <2>12
<1> QED BY <1>1, <1>2


LEMMA IdleShape ==
  ASSUME NEW t,
         \A r \in {"monitor", "getProcess", "pollProcess", "webTests", "swap", "settings"} :
           ~ Has(t, At(r))
  PROVE  Shape(t)
BY DEF Shape, Has, Ordered, Followed, Adjacent, Once

LEMMA EachIdle ==
  ASSUME NEW request \in {"startJob", "stopJob", "install"}, NEW S, IsFiniteSet(S),
         NEW r \in {"monitor", "getProcess", "pollProcess", "webTests", "swap", "settings",
                    "listInstalled"}
  PROVE  ~ Has(OnEach(request, S), At(r))
<1>1. \A x : Has(OnEach(request, S), x) <=> x \in {request} \X S
  BY OnEachElements
<1>2. At(r) \notin {request} \X S
  BY DEF At
<1> QED BY <1>1, <1>2

(* What JobSteps and InstallSteps put in the place of the list they follow.*)
LEMMA JobStepsGood ==
  ASSUME action \in {"startJobs", "stopJobs"}, SiteType, ManageAssumption
  PROVE  /\ JobSteps \in Seq(Steps(action)) /\ Shape(JobSteps)
         /\ action = "startJobs" => Started(JobSteps, running)
         /\ action = "stopJobs" => Stopped(JobSteps, running)
<1> DEFINE r == IF action = "startJobs" THEN "startJob" ELSE "stopJob"
           S == IF action = "startJobs" THEN Job \ running ELSE running
<1>1. JobSteps = OnEach(r, S)
  BY DEF JobSteps
<1>2. S \subseteq Job /\ IsFiniteSet(S)
  <2>1. S \subseteq Job /\ IsFiniteSet(Job)
    BY DEF SiteType, ManageAssumption
  <2> QED BY <2>1, FS_Subset
<1>3. {r} \X S \subseteq Steps(action)
  BY <1>2 DEF Steps
<1>4. r \in {"startJob", "stopJob", "install"}
  OBVIOUS
<1>5. \A x : Has(JobSteps, x) <=> x \in {r} \X S
  <2> HIDE DEF r, S
  <2> QED BY <1>1, <1>2, OnEachElements
<1>6. JobSteps \in Seq({r} \X S) /\ Shape(JobSteps)
  <2> HIDE DEF r, S
  <2>1. JobSteps \in Seq({r} \X S)
    BY <1>1, <1>2, OnEachElements
  <2> QED BY <1>1, <1>2, <1>4, <2>1, EachIdle, IdleShape
<1>7. JobSteps \in Seq(Steps(action))
  <2> HIDE DEF r, S
  <2>1. Len(JobSteps) \in Nat /\ JobSteps \in [1 .. Len(JobSteps) -> {r} \X S]
    BY <1>6, LenProperties
  <2>2. JobSteps \in [1 .. Len(JobSteps) -> Steps(action)]
    BY <1>3, <2>1
  <2> QED BY <2>1, <2>2, SeqDef
<1>8. ASSUME action = "startJobs" PROVE Started(JobSteps, running)
  BY <1>5, <1>8 DEF Started
<1>9. ASSUME action = "stopJobs" PROVE Stopped(JobSteps, running)
  BY <1>5, <1>9 DEF Stopped
<1> QED BY <1>6, <1>7, <1>8, <1>9

LEMMA InstallStepsGood ==
  ASSUME action = "install", SiteType, ManageAssumption
  PROVE  /\ InstallSteps \in Seq(Steps(action)) /\ InstallSteps # << >> /\ Shape(InstallSteps)
         /\ Extended(InstallSteps, installed, process, loaded, installed)
<1> DEFINE M == Extension \ installed
           l == <<At("listAll")>>
           i == OnEach("install", M)
           k == Restart(M)
           S == Steps(action)
<1>1. InstallSteps = l \o i \o k
  BY PlainRequests DEF InstallSteps
<1>2. IsFiniteSet(M)
  BY FS_Subset DEF ManageAssumption
<1>3. \A x : Has(i, x) <=> x \in {"install"} \X M
  <2> HIDE DEF M
  <2> QED BY <1>2, OnEachElements
<1>4. {"install"} \X M \subseteq S
  BY DEF Steps
<1>5. i \in Seq(S)
  <2>1. i \in Seq({"install"} \X M)
    <3> HIDE DEF M
    <3> QED BY <1>2, OnEachElements
  <2> HIDE DEF i, M, S
  <2>2. Len(i) \in Nat /\ i \in [1 .. Len(i) -> {"install"} \X M]
    BY <2>1, LenProperties
  <2>3. i \in [1 .. Len(i) -> S]
    BY <1>4, <2>2
  <2> QED BY <2>2, <2>3, SeqDef
<1>6. /\ At("listAll") \in S /\ At("getProcess") \in S /\ At("kill") \in S
      /\ At("pollProcess") \in S
  BY DEF Steps, At
<1>7. k = IF M = {} THEN << >> ELSE <<At("getProcess"), At("kill"), At("pollProcess")>>
  BY PlainRequests DEF Restart
<1> HIDE DEF S, k
<1>8. l \in Seq(S)
  BY <1>6
<1>9. k \in Seq(S) /\ Shape(k)
  <2>1. CASE M = {}
    <3>1. k = << >>
      BY <1>7, <2>1
    <3>2. k \in Seq(S) /\ \A x : ~ Has(k, x)
      BY <3>1 DEF Has
    <3> QED BY <3>2, IdleShape
  <2>2. CASE M # {}
    <3>1. k = <<At("getProcess"), At("kill"), At("pollProcess")>>
      BY <1>7, <2>2
    <3>2. k \in Seq(S)
      BY <1>6, <3>1
    <3> QED BY <3>1, <3>2, ShortShapes
  <2> QED BY <2>1, <2>2
<1>10. M # {} => Has(k, At("getProcess")) /\ Has(k, At("pollProcess"))
  <2> SUFFICES ASSUME M # {} PROVE Has(k, At("getProcess")) /\ Has(k, At("pollProcess"))
    OBVIOUS
  <2>1. k = <<At("getProcess"), At("kill"), At("pollProcess")>>
    BY <1>7
  <2>2. DOMAIN k = {1, 2, 3} /\ k[1] = At("getProcess") /\ k[3] = At("pollProcess")
    BY <2>1
  <2> QED BY <2>2 DEF Has
<1>11. \A x : Has(l, x) <=> x = At("listAll")
  BY DEF Has
<1>12. \A r \in {"monitor", "getProcess", "pollProcess", "webTests", "swap", "settings"} :
         ~ Has(l, At(r)) /\ ~ Has(i, At(r))
  BY <1>3, <1>11 DEF At
<1> HIDE DEF l, i, k
<1>13. /\ l \o i \in Seq(S)
       /\ \A x : Has(l \o i, x) <=> Has(l, x) \/ Has(i, x)
  BY <1>5, <1>8, ConcatFacts
<1>14. InstallSteps \in Seq(S) /\ Shape(InstallSteps)
  BY <1>1, <1>9, <1>12, <1>13, PrefixShape
<1>15. \A x : Has(InstallSteps, x) <=> Has(l, x) \/ Has(i, x) \/ Has(k, x)
  BY <1>1, <1>9, <1>13, ConcatFacts
<1>16. Has(InstallSteps, At("listAll"))
  BY <1>11, <1>15
<1>17. InstallSteps # << >>
  BY <1>16, ShortSequences
<1>18. \A e \in Extension : Has(InstallSteps, <<"install", e>>) \/ e \in installed
  BY <1>3, <1>15
<1>19. installed = Extension \/ Loaded(InstallSteps, installed, process, loaded)
  BY <1>10, <1>15 DEF Loaded, SiteType
<1> QED BY <1>14, <1>17, <1>18, <1>19 DEF Extended, S


------------------------------------------------------------------------------
(* What becomes of the goals.                                              *)

(* Request x of action a has brought about what it is for, so that nothing *)
(* is lost when it is dropped.                                             *)
Met(a, x, st, tg, sw, rn, ins, pr, lk, f) ==
  /\ x \notin {At("throw"), At("listJobs"), At("listInstalled")}
  /\ x = At("start") => tg = "running"
  /\ x = At("stop") => tg = "stopped"
  /\ x = At("monitor") =>
       /\ a = "start" => st = "running" \/ f > 0
       /\ a = "stop" => st = "stopped" \/ f > 0
  /\ x = At("swap") => sw # << >>
  /\ x = At("operation") => Last(sw) = "good"
  /\ \A j \in Job : (x = <<"startJob", j>> => j \in rn) /\ (x = <<"stopJob", j>> => j \notin rn)
  /\ \A e \in Extension : x = <<"install", e>> => e \in ins
  /\ x = At("getProcess") => pr # "other"
  /\ x = At("pollProcess") => pr = "other"
  /\ (x = At("tag") => "tag" \in lk) /\ (x = At("key") => "key" \in lk)
  /\ x = At("alwaysOn") => "alwaysOn" \in lk \/ f > 0
  /\ x = At("webTest") => "webTest" \in lk \/ f > 0

MetNext(x) ==
  Met(action, x, state', target', swaps', running', installed', process', links', faults')

LEMMA LaunchedDrop ==
  ASSUME NEW S, NEW t \in Seq(S), t # << >>, Shape(t), NEW r \in {"start", "stop"},
         NEW w, NEW st, NEW tg, NEW f, Launched(t, r, w, st, tg, f),
         t[1] = At(r) => tg = w, t[1] = At("monitor") => st = w \/ f > 0
  PROVE  Launched(Tail(t), r, w, st, tg, f)
<1>1. ASSUME NEW x, t[1] # x PROVE Has(t, x) => Has(Tail(t), x)
  BY <1>1, TailFacts
<1>2. t[1] = At("monitor") => ~ Has(t, At(r))
  <2>1. Ordered(t, At(r), At("monitor"))
    BY DEF Shape
  <2> QED BY <2>1, TailFacts
<1> QED BY <1>1, <1>2 DEF Launched

LEMMA ExtendedDrop ==
  ASSUME NEW S, NEW t \in Seq(S), t # << >>, Shape(t),
         NEW ins \in SUBSET Extension, NEW pr, NEW ld, NEW fd, Extended(t, ins, pr, ld, fd),
         t[1] # At("listInstalled"), \A e \in Extension : t[1] = <<"install", e>> => e \in ins,
         t[1] = At("getProcess") => pr # "other", t[1] = At("pollProcess") => pr = "other"
  PROVE  Extended(Tail(t), ins, pr, ld, fd)
<1>1. \A x : Has(t, x) /\ t[1] # x => Has(Tail(t), x)
  BY TailFacts
<1>2. CASE Has(t, At("listInstalled"))
  BY <1>1, <1>2 DEF Extended
<1>3. CASE ~ Has(t, At("listInstalled"))
  <2>1. \A e \in Extension : Has(t, <<"install", e>>) \/ e \in ins
    BY <1>3 DEF Extended
  <2>2. \A e \in Extension : Has(Tail(t), <<"install", e>>) \/ e \in ins
    BY <1>1, <2>1
  <2>3. ASSUME Loaded(t, ins, pr, ld) PROVE Loaded(Tail(t), ins, pr, ld)
    <3>1. CASE t[1] = At("getProcess")
      <4>1. ASSUME NEW e \in Extension PROVE ~ Has(t, <<"install", e>>)
        <5>1. Ordered(t, <<"install", e>>, At("getProcess"))
          BY DEF Shape
        <5> QED BY <3>1, <5>1, TailFacts
      <4>2. ins = Extension
        BY <2>1, <4>1
      <4>3. t[1] # At("pollProcess")
        BY <3>1 DEF At
      <4> QED BY <1>1, <2>3, <3>1, <4>2, <4>3 DEF Loaded
    <3>2. CASE t[1] = At("pollProcess")
      <4>1. Ordered(t, At("getProcess"), At("pollProcess"))
        BY DEF Shape
      <4>2. ~ Has(t, At("getProcess"))
        BY <3>2, <4>1, TailFacts
      <4> QED BY <2>3, <3>2, <4>2 DEF Loaded
    <3>3. CASE t[1] # At("getProcess") /\ t[1] # At("pollProcess")
      BY <1>1, <2>3, <3>3 DEF Loaded
    <3> QED BY <3>1, <3>2, <3>3
  <2> QED BY <1>3, <2>2, <2>3 DEF Extended
<1> QED BY <1>2, <1>3

(* The goals without a request that is met.                                *)
LEMMA GoalsDrop ==
  ASSUME NEW S, NEW t \in Seq(S), t # << >>, Shape(t), NEW a,
         NEW st, NEW tg, NEW sw, NEW rn, NEW ins \in SUBSET Extension, NEW pr, NEW ld, NEW lk,
         NEW fd, NEW f, Goals(a, t, st, tg, sw, rn, ins, pr, ld, lk, fd, f),
         Met(a, t[1], st, tg, sw, rn, ins, pr, lk, f)
  PROVE  Goals(a, Tail(t), st, tg, sw, rn, ins, pr, ld, lk, fd, f)
<1>1. \A x : Has(t, x) /\ t[1] # x => Has(Tail(t), x)
  BY TailFacts
<1>2. ASSUME a = "start" PROVE Launched(Tail(t), "start", "running", st, tg, f)
  <2>1. Launched(t, "start", "running", st, tg, f)
    BY <1>2 DEF Goals
  <2>2. /\ t[1] = At("start") => tg = "running"
        /\ t[1] = At("monitor") => st = "running" \/ f > 0
    BY <1>2 DEF Met
  <2> QED BY <2>1, <2>2, LaunchedDrop
<1>3. ASSUME a = "stop" PROVE Launched(Tail(t), "stop", "stopped", st, tg, f)
  <2>1. Launched(t, "stop", "stopped", st, tg, f)
    BY <1>3 DEF Goals
  <2>2. /\ t[1] = At("stop") => tg = "stopped"
        /\ t[1] = At("monitor") => st = "stopped" \/ f > 0
    BY <1>3 DEF Met
  <2> QED BY <2>1, <2>2, LaunchedDrop
<1>4. a = "swap" => SwapOver(Tail(t), sw)
  BY <1>1 DEF Goals, Met, SwapOver
<1>5. a = "startJobs" => Started(Tail(t), rn)
  BY <1>1 DEF Goals, Met, Started
<1>6. a = "stopJobs" => Stopped(Tail(t), rn)
  BY <1>1 DEF Goals, Met, Stopped
<1>7. ASSUME a = "install" PROVE Extended(Tail(t), ins, pr, ld, fd)
  <2>1. Extended(t, ins, pr, ld, fd)
    BY <1>7 DEF Goals
  <2>2. /\ t[1] # At("listInstalled") /\ \A e \in Extension : t[1] = <<"install", e>> => e \in ins
        /\ t[1] = At("getProcess") => pr # "other"
        /\ t[1] = At("pollProcess") => pr = "other"
    BY DEF Met
  <2> QED BY <2>1, <2>2, ExtendedDrop
<1>8. a = "monitoring" => Linked(Tail(t), lk, f)
  BY <1>1 DEF Goals, Met, Linked
<1> QED BY <1>2, <1>3, <1>4, <1>5, <1>6, <1>7, <1>8 DEF Goals

(* Continuous monitoring is over with the web tests, whatever is left.     *)
LEMMA GoalsWarned ==
  ASSUME NEW S, NEW t \in Seq(S), t # << >>, Shape(t), NEW a, a = "monitoring",
         t[1] = At("webTests"),
         NEW st, NEW tg, NEW sw, NEW rn, NEW ins, NEW pr, NEW ld, NEW lk,
         NEW fd, NEW f, f > 0, Goals(a, t, st, tg, sw, rn, ins, pr, ld, lk, fd, f)
  PROVE  Goals(a, << >>, st, tg, sw, rn, ins, pr, ld, lk, fd, f)
<1>1. Ordered(t, At("tag"), At("webTests")) /\ Ordered(t, At("key"), At("webTests"))
  BY DEF Shape
<1>2. ~ Has(t, At("tag")) /\ ~ Has(t, At("key"))
  BY <1>1, TailFacts
<1>3. Linked(<< >>, lk, f)
  BY <1>2 DEF Goals, Linked
<1> QED BY <1>3 DEF Goals


(* What the kind of a request says of the action and of its subject.       *)
LEMMA StepFacts ==
  ASSUME NEW a \in Action, NEW r \in Steps(a)
  PROVE  /\ a = "start" => r[1] # "stop"
         /\ a = "stop" => r[1] # "start"
         /\ r[1] = "startJob" => r[2] \in Job /\ a = "startJobs"
         /\ r[1] = "stopJob" => a = "stopJobs"
         /\ r[1] = "install" => r[2] \in Extension
         /\ r[1] = "swap" => r = At("swap")
<1>1. CASE a \in {"start", "stop", "restart"}
  BY <1>1 DEF Steps
<1>2. CASE a = "swap"
  BY <1>2 DEF Steps, At
<1>3. CASE a \in {"startJobs", "stopJobs"}
  BY <1>3 DEF Steps
<1>4. CASE a \in {"install", "monitoring"}
  BY <1>4, ManageAssumption DEF Steps, ManageAssumption
<1> QED BY <1>1, <1>2, <1>3, <1>4 DEF Action

(* A request that the site carries out brings nothing in danger.           *)
LEMMA CarryOutOK ==
  ASSUME ControlType, SiteType, phase = "action", todo \in Seq(Steps(action)), todo # << >>,
         Shape(todo), GoalsNow(todo), CarryOut, faults' \in Nat, faults' >= faults
  PROVE  /\ GoalsNext(todo)
         /\ state' \in {"running", "stopped"} /\ target' \in {"running", "stopped"}
         /\ swaps' \in Seq({"running", "good", "bad"})
         /\ running' \subseteq Job /\ installed' \subseteq Extension /\ loaded' \subseteq installed'
         /\ process' \in {"down", "seen", "other"} /\ links' \subseteq Link
<1>1. todo[1] \in Steps(action) /\ action \in Action /\ Request = todo[1][1] /\ faults \in Nat
  BY TailFacts DEF ControlType, SiteType, Request
<1>2. /\ action = "start" => Request # "stop"
      /\ action = "stop" => Request # "start"
      /\ Request = "startJob" => todo[1][2] \in Job /\ action = "startJobs"
      /\ Request = "stopJob" => action = "stopJobs"
      /\ Request = "install" => todo[1][2] \in Extension
      /\ Request = "swap" => todo[1] = At("swap")
  BY <1>1, StepFacts
<1>3. running' \subseteq Job /\ installed' \subseteq Extension
  BY <1>2 DEF SiteType, CarryOut
<1>4. installed \subseteq installed' /\ loaded' = loaded /\ state' = state /\ links \subseteq links'
  BY DEF CarryOut
<1>5. swaps' \in Seq({"running", "good", "bad"})
  <2>1. CASE swaps' = swaps
    BY <2>1 DEF SiteType
  <2>2. CASE swaps' = Append(swaps, "running")
    BY <2>2, AppendProperties DEF SiteType
  <2> QED BY <2>1, <2>2 DEF CarryOut
<1>6. /\ target' \in {"running", "stopped"} /\ process' \in {"down", "seen", "other"}
      /\ links' \subseteq Link
  BY DEF CarryOut, SiteType
<1>7. action = "start" => Launched(todo, "start", "running", state', target', faults')
  <2>1. action = "start" => target' \in {target, "running"}
    BY <1>2 DEF CarryOut
  <2> QED BY <1>1, <1>4, <2>1 DEF GoalsNow, Goals, Launched
<1>8. action = "stop" => Launched(todo, "stop", "stopped", state', target', faults')
  <2>1. action = "stop" => target' \in {target, "stopped"}
    BY <1>2 DEF CarryOut
  <2> QED BY <1>1, <1>4, <2>1 DEF GoalsNow, Goals, Launched
<1>9. action = "swap" => SwapOver(todo, swaps')
  <2>1. CASE Request = "swap"
    <3>1. Followed(todo, At("swap"), At("operation"))
      BY DEF Shape
    <3>2. Has(todo, At("operation"))
      BY <1>2, <2>1, <3>1, TailFacts
    <3>3. Has(todo, At("swap"))
      <4>1. 1 \in DOMAIN todo
        BY LenProperties, EmptySeq
      <4> QED BY <1>2, <2>1, <4>1 DEF Has
    <3> QED BY <3>2, <3>3 DEF SwapOver
  <2>2. CASE Request # "swap"
    BY <2>2 DEF CarryOut, GoalsNow, Goals
  <2> QED BY <2>1, <2>2
<1>10. action = "startJobs" => Started(todo, running')
  <2>1. action = "startJobs" => running \subseteq running'
    BY <1>2 DEF CarryOut
  <2> QED BY <2>1 DEF GoalsNow, Goals, Started
<1>11. action = "stopJobs" => Stopped(todo, running')
  <2>1. action = "stopJobs" => running' \subseteq running
    BY <1>2 DEF CarryOut
  <2> QED BY <2>1 DEF GoalsNow, Goals, Stopped
<1>12. action = "install" => Extended(todo, installed', process', loaded', found)
  <2>1. process' \in {process, "down"}
    BY DEF CarryOut
  <2>2. installed = Extension => installed' = Extension
    BY <1>3, <1>4
  <2>3. Loaded(todo, installed, process, loaded) => Loaded(todo, installed', process', loaded')
    BY <1>4, <2>1, <2>2 DEF Loaded
  <2> QED BY <1>4, <2>3 DEF GoalsNow, Goals, Extended
<1>13. action = "monitoring" => Linked(todo, links', faults')
  BY <1>1, <1>4 DEF GoalsNow, Goals, Linked
<1>14. GoalsNext(todo)
  BY <1>7, <1>8, <1>9, <1>10, <1>11, <1>12, <1>13 DEF GoalsNext, Goals
<1>15. loaded' \subseteq installed' /\ state' \in {"running", "stopped"}
  BY <1>4 DEF SiteType
<1> QED BY <1>3, <1>5, <1>6, <1>14, <1>15

(* In the last part there is nothing for the site to do.                   *)
LEMMA CarryOutLast ==
  ASSUME todo \in Seq(StatusRequests), todo # << >>, CarryOut
  PROVE  UNCHANGED siteVars
<1>1. Request \in {"credentials", "history"}
  BY TailFacts DEF StatusRequests, Request
<1>2. UNCHANGED <<target, swaps, running, installed, process, state, loaded>>
  BY <1>1 DEF CarryOut
<1>3. links' = links
  BY <1>1 DEF CarryOut, Link
<1> QED BY <1>2, <1>3 DEF siteVars

LEMMA GoalsStay ==
  ASSUME NEW t, GoalsNow(t), UNCHANGED siteVars, faults \in Nat, faults' \in Nat, faults' >= faults
  PROVE  GoalsNext(t)
<1>1. /\ state' = state /\ target' = target /\ swaps' = swaps /\ running' = running
      /\ installed' = installed /\ process' = process /\ loaded' = loaded /\ links' = links
  BY DEF siteVars
<1>2. faults > 0 => faults' > 0
  OBVIOUS
<1>3. /\ action = "start" => Launched(t, "start", "running", state', target', faults')
      /\ action = "stop" => Launched(t, "stop", "stopped", state', target', faults')
  BY <1>1, <1>2 DEF GoalsNow, Goals, Launched
<1>4. action = "monitoring" => Linked(t, links', faults')
  BY <1>1, <1>2 DEF GoalsNow, Goals, Linked
<1> QED BY <1>1, <1>3, <1>4 DEF GoalsNow, GoalsNext, Goals

(* What the site does by itself: it goes on.                               *)
Settling == StateSettles \/ SwapEnds \/ ProcessEnds \/ ProcessStarts

LEMMA SettlingOK ==
  ASSUME NEW t, SiteType, GoalsNow(t), Settling
  PROVE  GoalsNext(t)
<1>1. CASE StateSettles
  <2>1. /\ state' = target /\ target' = target /\ faults' = faults
        /\ UNCHANGED <<swaps, running, installed, process, loaded, links>>
    BY <1>1 DEF StateSettles
  <2>2. /\ action = "start" => Launched(t, "start", "running", state', target', faults')
        /\ action = "stop" => Launched(t, "stop", "stopped", state', target', faults')
    BY <2>1 DEF GoalsNow, Goals, Launched
  <2> QED BY <2>1, <2>2 DEF GoalsNow, GoalsNext, Goals
<1>2. CASE SwapEnds
  <2>1. UNCHANGED <<state, target, running, installed, process, loaded, links, faults>>
    BY <1>2 DEF SwapEnds
  <2>2. SwapOver(t, swaps) => SwapOver(t, swaps')
    BY <1>2 DEF SwapEnds, Swapping, SwapOver
  <2> QED BY <2>1, <2>2 DEF GoalsNow, GoalsNext, Goals
<1>3. CASE ProcessEnds
  <2>1. UNCHANGED <<state, target, swaps, running, installed, loaded, links>>
    BY <1>3 DEF ProcessEnds
  <2>2. process' = "down" /\ faults' = faults + 1 /\ faults \in Nat
    BY <1>3 DEF ProcessEnds, SiteType
  <2>3. /\ action = "start" => Launched(t, "start", "running", state', target', faults')
        /\ action = "stop" => Launched(t, "stop", "stopped", state', target', faults')
    BY <2>1, <2>2 DEF GoalsNow, Goals, Launched
  <2>4. action = "monitoring" => Linked(t, links', faults')
    BY <2>1, <2>2 DEF GoalsNow, Goals, Linked
  <2>5. action = "install" => Extended(t, installed', process', loaded', found)
    BY <2>1, <2>2 DEF GoalsNow, Goals, Extended, Loaded
  <2> QED BY <2>1, <2>3, <2>4, <2>5 DEF GoalsNow, GoalsNext, Goals
<1>4. CASE ProcessStarts
  <2>1. UNCHANGED <<state, target, swaps, running, installed, links, faults>>
    BY <1>4 DEF ProcessStarts
  <2>2. process' = "other" /\ loaded' = installed
    BY <1>4 DEF ProcessStarts
  <2>3. action = "install" => Extended(t, installed', process', loaded', found)
    BY <2>1, <2>2 DEF GoalsNow, Goals, Extended, Loaded
  <2> QED BY <2>1, <2>3 DEF GoalsNow, GoalsNext, Goals
<1> QED BY <1>1, <1>2, <1>3, <1>4 DEF Settling


------------------------------------------------------------------------------
(* The control of the task.                                                *)

(* What the site has become in this step is what the chain says it is.     *)
Kept ==
  /\ phase = "action" => GoalsNext(todo)
  /\ phase # "action" /\ ~ failed => GoalsNext(<< >>)

(* The limits, once this request is done with.                             *)
LEMMA NewRequestOK ==
  ASSUME ControlType, ManageAssumption, NewRequest
  PROVE  /\ action' \in Action
         /\ tries' \in 0 .. RetryCount - 1 /\ repeats' \in 0 .. KuduRetries
         /\ polls' \in Nat /\ polls' < ProcessPolls
BY RetryAssumption DEF ControlType, ManageAssumption, NewRequest

LEMMA StatusStepsOK ==
  ASSUME NEW r PROVE StatusSteps(r) \in Seq(StatusRequests)
<1>1. ASSUME NEW request \in {"credentials", "history"} PROVE Both(request) \in Seq(StatusRequests)
  <2> DEFINE p == <<request, "source">>
             q == <<request, "target">>
  <2>1. p \in StatusRequests /\ q \in StatusRequests /\ Both(request) = <<p, q>>
    BY DEF StatusRequests, Both
  <2> HIDE DEF p, q
  <2>2. <<p, q>> \in Seq(StatusRequests)
    BY <2>1
  <2> QED BY <2>1, <2>2
<1>2. Both("credentials") \o Both("history") \in Seq(StatusRequests)
  BY <1>1, ConcatProperties
<1>3. <<At("history")>> \in Seq(StatusRequests) /\ << >> \in Seq(StatusRequests)
  BY DEF StatusRequests, At
<1> QED BY <1>2, <1>3, PlainRequests DEF StatusSteps

LEMMA LeaveOK ==
  ASSUME ControlType, Progress, ManageAssumption, todo # << >>,
         NEW success \in BOOLEAN, Leave(success),
         phase = "action" /\ success => GoalsNext(<< >>),
         phase # "action" /\ ~ failed => GoalsNext(<< >>)
  PROVE  ControlType' /\ Progress'
<1> DEFINE steps == IF phase = "action" THEN StatusSteps(Request) ELSE << >>
<1>1. /\ NewRequest /\ todo' = steps /\ phase' = (IF steps = << >> THEN "ended" ELSE "status")
      /\ failed' = (failed \/ ~ success) /\ found' = found /\ action' = action
  BY DEF Leave, NewRequest
<1>2. steps \in Seq(StatusRequests)
  BY StatusStepsOK
<1> HIDE DEF steps
<1>3. ControlType'
  <2>1. todo' = << >> <=> phase' = "ended"
    BY <1>1
  <2>2. phase' \in {"action", "status", "ended"}
    BY <1>1
  <2>3. found' \subseteq Extension /\ failed' \in BOOLEAN
    BY <1>1 DEF ControlType
  <2> QED BY <1>1, <2>1, <2>2, <2>3, NewRequestOK DEF ControlType
<1>4. ~ failed' => GoalsNext(<< >>)
  BY <1>1 DEF Progress
<1>5. phase' # "action" /\ todo' \in Seq(StatusRequests)
  BY <1>1, <1>2
<1>6. GoalsNow(<< >>)' <=> GoalsNext(<< >>)
  BY <1>1 DEF GoalsNow, GoalsNext
<1> QED BY <1>3, <1>4, <1>5, <1>6 DEF Progress

LEMMA ContinueOK ==
  ASSUME ControlType, Progress, ManageAssumption, todo # << >>, NEW steps, Continue(steps),
         phase = "action" => steps \in Seq(Steps(action)) /\ Shape(steps) /\ GoalsNext(steps),
         phase # "action" => steps \in Seq(StatusRequests) /\ (~ failed => GoalsNext(<< >>))
  PROVE  ControlType' /\ Progress'
<1>1. CASE steps = << >>
  BY <1>1, LeaveOK DEF Continue
<1>2. CASE steps # << >>
  <2>1. /\ NewRequest /\ todo' = steps /\ phase' = phase /\ found' = found /\ failed' = failed
        /\ action' = action
    BY <1>2 DEF Continue, NewRequest
  <2>2. todo' # << >> /\ phase' # "ended"
    BY <1>2, <2>1 DEF ControlType
  <2>3. ControlType'
    BY <2>1, <2>2, NewRequestOK DEF ControlType
  <2>4. GoalsNow(todo)' <=> GoalsNext(steps)
    BY <2>1 DEF GoalsNow, GoalsNext
  <2>5. GoalsNow(<< >>)' <=> GoalsNext(<< >>)
    BY <2>1 DEF GoalsNow, GoalsNext
  <2> QED BY <2>1, <2>3, <2>4, <2>5 DEF Progress
<1> QED BY <1>1, <1>2

LEMMA MoveOnOK ==
  ASSUME ControlType, Progress, ManageAssumption, todo # << >>, MoveOn, Kept,
         installed' \subseteq Extension, phase = "action" => MetNext(todo[1])
  PROVE  ControlType' /\ Progress'
<1>1. CASE phase = "action"
  <2>1. todo \in Seq(Steps(action)) /\ Shape(todo) /\ GoalsNext(todo)
    BY <1>1 DEF Progress, Kept
  <2>2. Tail(todo) \in Seq(Steps(action)) /\ Shape(Tail(todo))
    BY <2>1, TailFacts, TailShape
  <2>3. GoalsNext(Tail(todo))
    BY <1>1, <2>1, GoalsDrop DEF GoalsNext, MetNext
  <2> QED BY <1>1, <2>2, <2>3, ContinueOK DEF MoveOn
<1>2. CASE phase # "action"
  <2>1. todo \in Seq(StatusRequests) /\ (~ failed => GoalsNext(<< >>))
    BY <1>2 DEF Progress, Kept
  <2>2. Tail(todo) \in Seq(StatusRequests)
    BY <2>1, TailFacts
  <2> QED BY <1>2, <2>1, <2>2, ContinueOK DEF MoveOn
<1> QED BY <1>1, <1>2

LEMMA RaiseOK ==
  ASSUME ControlType, Progress, ManageAssumption, todo # << >>, Raise, Kept
  PROVE  ControlType' /\ Progress'
<1>1. (phase = "status") \in BOOLEAN
  OBVIOUS
<1>2. phase = "action" /\ (phase = "status") => GoalsNext(<< >>)
  OBVIOUS
<1> QED BY <1>1, <1>2, LeaveOK DEF Raise, Kept

(* The same request goes on.                                               *)
LEMMA StayOK ==
  ASSUME Progress, Kept, UNCHANGED <<action, phase, todo, found, failed>>
  PROVE  Progress'
<1>1. GoalsNow(todo)' <=> GoalsNext(todo)
  BY DEF GoalsNow, GoalsNext
<1>2. GoalsNow(<< >>)' <=> GoalsNext(<< >>)
  BY DEF GoalsNow, GoalsNext
<1> QED BY <1>1, <1>2 DEF Progress, Kept

LEMMA NextRoundOK ==
  ASSUME ControlType, Progress, ManageAssumption, todo # << >>, NextRound, Kept
  PROVE  ControlType' /\ Progress'
<1>1. CASE polls + 1 < ProcessPolls /\ Again
  <2>1. ControlType'
    BY <1>1, RetryAssumption DEF ControlType, Again, ManageAssumption
  <2>2. UNCHANGED <<action, phase, todo, found, failed>>
    BY <1>1 DEF Again
  <2> QED BY <2>1, <2>2, StayOK
<1>2. CASE Raise
  BY <1>2, RaiseOK
<1> QED BY <1>1, <1>2 DEF NextRound

(* What becomes of the chain when a request is answered: only a request    *)
(* that is accepted, or whose failure is a warning, is dropped.            *)
LEMMA AnsweredOK ==
  ASSUME ControlType, Progress, ManageAssumption, todo # << >>, Kept,
         NEW answer, Answered(answer), installed' \subseteq Extension, faults' \in Nat,
         answer = "accepted" /\ phase = "action" => MetNext(todo[1]),
         answer # "accepted" /\ Request \in {"alwaysOn", "webTests", "webTest"} => faults' > 0
  PROVE  ControlType' /\ Progress'
<1>1. CASE MayResend(answer) /\ tries' = tries + 1 /\ UNCHANGED repeats
           /\ UNCHANGED <<action, phase, todo, polls, found, failed>>
  <2>1. tries + 1 < RetryCount
    BY <1>1 DEF MayResend, MayRetry
  <2>2. ControlType'
    BY <1>1, <2>1, RetryAssumption DEF ControlType
  <2> QED BY <1>1, <2>2, StayOK
<1>2. CASE MayRepeat(answer) /\ tries' = 0 /\ repeats' = repeats + 1
           /\ UNCHANGED <<action, phase, todo, polls, found, failed>>
  <2>1. repeats < 1 \/ repeats < KuduRetries
    BY <1>2 DEF MayRepeat
  <2>2. ControlType'
    BY <1>2, <2>1, RetryAssumption DEF ControlType, ManageAssumption
  <2> QED BY <1>2, <2>2, StayOK
<1>3. phase = "action" => todo[1] \in Steps(action) /\ action \in Action
  BY TailFacts DEF Progress, ControlType
<1>4. phase # "action" => Request \in {"credentials", "history"}
  BY TailFacts DEF Progress, StatusRequests, Request
<1>5. CASE Accepted(answer) /\ MoveOn
  <2>1. CASE answer = "accepted"
    BY <1>5, <2>1, MoveOnOK
  <2>2. CASE answer # "accepted"
    <3>1. Request = "kill"
      BY <1>5, <2>2 DEF Accepted
    <3>2. MetNext(todo[1])
      BY <3>1 DEF MetNext, Met, At, Request
    <3> QED BY <1>5, <3>2, MoveOnOK
  <2> QED BY <2>1, <2>2
<1>6. CASE answer # "accepted" /\ GiveUp
  <2>1. CASE Request \in {"ping", "alwaysOn", "history", "webTest"}
    <3>1. MoveOn
      BY <1>6, <2>1 DEF GiveUp
    <3>2. Request \in {"alwaysOn", "webTest"} => faults' > 0
      BY <1>6
    <3>3. MetNext(todo[1])
      BY <2>1, <3>2 DEF MetNext, Met, At, Request
    <3> QED BY <3>1, <3>3, MoveOnOK
  <2>2. CASE Request = "webTests"
    <3>1. Leave(TRUE)
      BY <1>6, <2>2 DEF GiveUp
    <3>2. phase = "action" /\ faults' > 0
      BY <1>4, <1>6, <2>2
    <3>3. action = "monitoring" /\ todo[1] = At("webTests")
      BY <1>3, <2>2, <3>2, ManageAssumption DEF Steps, Action, At, Request
    <3>4. GoalsNext(<< >>)
      <4>1. todo \in Seq(Steps(action)) /\ Shape(todo) /\ GoalsNext(todo)
        BY <3>2 DEF Progress, Kept
      <4> QED BY <3>2, <3>3, <4>1, GoalsWarned DEF GoalsNext
    <3> QED BY <3>1, <3>2, <3>4, LeaveOK
  <2>3. CASE Request = "pollProcess"
    BY <1>6, <2>3, NextRoundOK DEF GiveUp
  <2>4. CASE Request \notin {"ping", "alwaysOn", "history", "webTest", "webTests", "pollProcess"}
    <3>1. Raise
      BY <1>6, <2>4 DEF GiveUp
    <3> QED BY <3>1, RaiseOK
  <2> QED BY <2>1, <2>2, <2>3, <2>4
<1> QED BY <1>1, <1>2, <1>5, <1>6 DEF Answered


------------------------------------------------------------------------------
(* The steps.                                                              *)

Inv == ControlType /\ SiteType /\ Progress

LEMMA Unchanged ==
  ASSUME SiteType, UNCHANGED siteVars, faults' \in 0 .. MaxFaults, faults' >= faults, Progress
  PROVE  SiteType' /\ Kept /\ installed' \subseteq Extension
<1>1. SiteType'
  BY DEF SiteType, siteVars
<1>2. faults \in Nat /\ faults' \in Nat
  BY DEF SiteType
<1>3. Kept
  BY <1>2, GoalsStay DEF Kept, Progress
<1>4. installed' \subseteq Extension
  BY DEF SiteType, siteVars
<1> QED BY <1>1, <1>3, <1>4

LEMMA CarriedOut ==
  ASSUME Inv, todo # << >>, CarryOut, faults' \in 0 .. MaxFaults, faults' >= faults
  PROVE  SiteType' /\ Kept /\ installed' \subseteq Extension
<1>1. CASE phase = "action"
  <2>1. todo \in Seq(Steps(action)) /\ Shape(todo) /\ GoalsNow(todo)
    BY <1>1 DEF Inv, Progress
  <2>2. faults' \in Nat
    OBVIOUS
  <2>3. GoalsNext(todo)
    BY <1>1, <2>1, <2>2, CarryOutOK DEF Inv
  <2>4. SiteType' /\ installed' \subseteq Extension
    BY <1>1, <2>1, <2>2, CarryOutOK DEF Inv, SiteType
  <2> QED BY <1>1, <2>3, <2>4 DEF Kept
<1>2. CASE phase # "action"
  <2>1. UNCHANGED siteVars
    BY <1>2, CarryOutLast DEF Inv, Progress
  <2> QED BY <2>1, Unchanged DEF Inv
<1> QED BY <1>1, <1>2

LEMMA RequestFailsOK ==
  ASSUME Inv, ManageAssumption, RequestFails PROVE Inv'
<1>1. PICK answer \in Fault \cup {"timeout"} :
        Answered(answer) /\ (UNCHANGED siteVars \/ CarryOut)
  BY DEF RequestFails
<1>2. /\ todo # << >> /\ faults' \in 0 .. MaxFaults /\ faults' >= faults /\ faults' > 0
      /\ faults' \in Nat
  BY ManageAssumption DEF RequestFails, Inv, SiteType, ManageAssumption
<1>3. SiteType' /\ Kept /\ installed' \subseteq Extension
  BY <1>1, <1>2, Unchanged, CarriedOut DEF Inv
<1>4. answer # "accepted"
  BY <1>1 DEF Fault, Retriable, Thrown
<1>5. ControlType' /\ Progress'
  BY <1>1, <1>2, <1>3, <1>4, AnsweredOK DEF Inv
<1> QED BY <1>3, <1>5 DEF Inv

(* Steps in which neither the site nor the faults change.                  *)
LEMMA Quiet ==
  ASSUME Inv, UNCHANGED <<siteVars, faults>>
  PROVE  SiteType' /\ Kept /\ installed' \subseteq Extension /\ faults' \in Nat
<1>1. faults' \in 0 .. MaxFaults /\ faults' >= faults /\ faults' \in Nat
  BY DEF Inv, SiteType
<1> QED BY <1>1, Unchanged DEF Inv

LEMMA KuduIsDownOK ==
  ASSUME Inv, ManageAssumption, KuduIsDown PROVE Inv'
<1>1. SiteType' /\ Kept /\ installed' \subseteq Extension /\ faults' \in Nat
  BY Quiet DEF KuduIsDown
<1>2. todo # << >> /\ Answered("busy") /\ Request \notin {"alwaysOn", "webTests", "webTest"}
  BY DEF KuduIsDown, ToKudu
<1>3. ControlType' /\ Progress'
  <2>1. "busy" # "accepted"
    OBVIOUS
  <2> QED BY <1>1, <1>2, <2>1, AnsweredOK DEF Inv
<1> QED BY <1>1, <1>3 DEF Inv

LEMMA RequestServedOK ==
  ASSUME Inv, ManageAssumption, RequestServed PROVE Inv'
<1>1. /\ todo # << >> /\ CarryOut /\ MoveOn /\ faults' \in 0 .. MaxFaults /\ faults' >= faults
      /\ Request \notin {"monitor", "swap", "operation", "listJobs", "listInstalled", "settings",
                         "webTests", "getProcess", "pollProcess", "throw"}
  BY DEF RequestServed, Served, Inv, SiteType
<1>2. SiteType' /\ Kept /\ installed' \subseteq Extension
  BY <1>1, CarriedOut
<1>3. MetNext(todo[1])
  <2>1. /\ todo[1] \notin {At("throw"), At("listJobs"), At("listInstalled"), At("monitor"),
                           At("swap"), At("operation"), At("getProcess"), At("pollProcess")}
        /\ todo[1] = At("start") => target' = "running"
        /\ todo[1] = At("stop") => target' = "stopped"
    BY <1>1 DEF CarryOut, Request, At
  <2>2. ASSUME NEW j \in Job
        PROVE  /\ todo[1] = <<"startJob", j>> => j \in running'
               /\ todo[1] = <<"stopJob", j>> => j \notin running'
    BY <1>1 DEF CarryOut, Request
  <2>3. ASSUME NEW e \in Extension PROVE todo[1] = <<"install", e>> => e \in installed'
    BY <1>1 DEF CarryOut, Request
  <2>4. /\ (todo[1] = At("tag") => "tag" \in links') /\ (todo[1] = At("key") => "key" \in links')
        /\ todo[1] = At("alwaysOn") => "alwaysOn" \in links'
        /\ todo[1] = At("webTest") => "webTest" \in links'
    <3>1. Request \in Link => Request \in links'
      BY <1>1 DEF CarryOut
    <3> QED BY <3>1 DEF Request, At, Link
  <2> QED BY <2>1, <2>2, <2>3, <2>4 DEF MetNext, Met
<1>4. ControlType' /\ Progress'
  BY <1>1, <1>2, <1>3, MoveOnOK DEF Inv
<1> QED BY <1>2, <1>4 DEF Inv

LEMMA MonitoredOK ==
  ASSUME Inv, ManageAssumption, Monitored PROVE Inv'
<1>1. /\ todo # << >> /\ Request = "monitor" /\ UNCHANGED siteVars
      /\ faults' \in 0 .. MaxFaults /\ faults' >= faults /\ faults \in Nat
  BY ManageAssumption DEF Monitored, UnderWay, Inv, SiteType, ManageAssumption
<1>2. SiteType' /\ Kept /\ installed' \subseteq Extension
  BY <1>1, Unchanged DEF Inv
<1>3. CASE MoveOn /\ (state = Wanted \/ faults' = faults + 1)
  <2>1. /\ action = "start" => state' = "running" \/ faults' > 0
        /\ action = "stop" => state' = "stopped" \/ faults' > 0
    BY <1>1, <1>3 DEF Wanted, siteVars
  <2>2. MetNext(todo[1])
    BY <1>1, <2>1 DEF MetNext, Met, At, Request
  <2>3. ControlType' /\ Progress'
    BY <1>1, <1>2, <1>3, <2>2, MoveOnOK DEF Inv
  <2> QED BY <1>2, <2>3 DEF Inv
<1>4. CASE /\ tries' = 0 /\ repeats' = 0
           /\ UNCHANGED <<action, phase, todo, polls, found, failed, faults>>
  <2>1. ControlType'
    BY <1>4, ManageAssumption, RetryAssumption DEF Inv, ControlType, ManageAssumption
  <2>2. Progress'
    BY <1>2, <1>4, StayOK DEF Inv
  <2> QED BY <1>2, <2>1, <2>2 DEF Inv
<1> QED BY <1>3, <1>4 DEF Monitored

LEMMA SwappedOK ==
  ASSUME Inv, ManageAssumption, Swapped PROVE Inv'
<1>1. todo # << >> /\ Request = "swap" /\ faults' \in Nat /\ faults' >= faults
      /\ faults' \in 0 .. MaxFaults
  BY DEF Swapped, UnderWay, Inv, SiteType
<1>2. MetNext(todo[1])
  <2>1. Append(swaps, "running") # << >>
    BY AppendProperties, EmptySeq DEF Inv, SiteType
  <2>2. swaps' # << >>
    BY <1>1, <2>1 DEF Swapped, Swapping, CarryOut, siteVars
  <2> QED BY <1>1, <2>2 DEF MetNext, Met, At, Request
<1>3. PICK answer \in {"busy", "accepted"} : Answered(answer) /\ (UNCHANGED siteVars \/ CarryOut)
  BY DEF Swapped
<1>4. SiteType' /\ Kept /\ installed' \subseteq Extension
  BY <1>1, <1>3, Unchanged, CarriedOut DEF Inv
<1>5. ControlType' /\ Progress'
  BY <1>1, <1>2, <1>3, <1>4, AnsweredOK DEF Inv
<1> QED BY <1>4, <1>5 DEF Inv

LEMMA OperationPolledOK ==
  ASSUME Inv, ManageAssumption, OperationPolled PROVE Inv'
<1>1. SiteType' /\ Kept /\ installed' \subseteq Extension /\ faults' \in Nat
  BY Quiet DEF OperationPolled
<1>2. todo # << >> /\ Request = "operation" /\ swaps' = swaps
  BY DEF OperationPolled, UnderWay, siteVars
<1>3. CASE Last(swaps) = "good" /\ MoveOn
  <2>1. MetNext(todo[1])
    BY <1>2, <1>3 DEF MetNext, Met, At, Request
  <2>2. ControlType' /\ Progress'
    BY <1>1, <1>2, <1>3, <2>1, MoveOnOK DEF Inv
  <2> QED BY <1>1, <2>2 DEF Inv
<1>4. CASE Raise
  BY <1>1, <1>2, <1>4, RaiseOK DEF Inv
<1>5. CASE polls + 1 < OperationPolls /\ Again
  <2>1. ControlType'
    BY <1>5, RetryAssumption DEF Inv, ControlType, Again, ManageAssumption
  <2>2. Progress'
    BY <1>1, <1>5, StayOK DEF Inv, Again
  <2> QED BY <1>1, <2>1, <2>2 DEF Inv
<1> QED BY <1>3, <1>4, <1>5 DEF OperationPolled

(* The request under way belongs to its action.                            *)
LEMMA WhoseRequest ==
  ASSUME Inv, todo # << >>, ManageAssumption
  PROVE  /\ Request \notin {"credentials", "history"} => phase = "action"
         /\ Request = "listJobs" => action \in {"startJobs", "stopJobs"}
         /\ Request = "listInstalled" => action = "install"
         /\ Request \in {"settings", "webTests", "getProcess", "pollProcess", "throw"} =>
              todo[1] = At(Request)
<1>1. phase = "action" => todo[1] \in Steps(action) /\ action \in Action
  BY TailFacts DEF Inv, Progress, ControlType
<1>2. phase # "action" => todo[1] \in StatusRequests
  BY TailFacts DEF Inv, Progress
<1>3. Request \notin {"credentials", "history"} => phase = "action"
  BY <1>2 DEF StatusRequests, Request
<1>4. Request = "listJobs" => action \in {"startJobs", "stopJobs"}
  BY <1>1, <1>3 DEF Steps, Action, Request
<1>5. Request = "listInstalled" => action = "install"
  BY <1>1, <1>3 DEF Steps, Action, Request
<1>6. Request \in {"settings", "webTests", "getProcess", "pollProcess", "throw"} =>
        todo[1] = At(Request)
  BY <1>1, <1>3 DEF Steps, Action, Request, At
<1> QED BY <1>3, <1>4, <1>5, <1>6

LEMMA JobsListedOK ==
  ASSUME Inv, ManageAssumption, JobsListed PROVE Inv'
<1>1. SiteType' /\ Kept /\ installed' \subseteq Extension /\ faults' \in Nat
  BY Quiet DEF JobsListed
<1>2. todo # << >> /\ Request = "listJobs" /\ Continue(JobSteps) /\ running' = running
  BY DEF JobsListed, UnderWay, siteVars
<1>3. phase = "action" /\ action \in {"startJobs", "stopJobs"}
  BY <1>2, WhoseRequest
<1>4. /\ JobSteps \in Seq(Steps(action)) /\ Shape(JobSteps)
      /\ action = "startJobs" => Started(JobSteps, running)
      /\ action = "stopJobs" => Stopped(JobSteps, running)
  BY <1>3, JobStepsGood DEF Inv
<1>5. GoalsNext(JobSteps)
  BY <1>2, <1>3, <1>4 DEF GoalsNext, Goals
<1>6. ControlType' /\ Progress'
  BY <1>2, <1>3, <1>4, <1>5, ContinueOK DEF Inv
<1> QED BY <1>1, <1>6 DEF Inv

LEMMA ExtensionsListedOK ==
  ASSUME Inv, ManageAssumption, ExtensionsListed PROVE Inv'
<1>1. SiteType'
  BY Quiet DEF ExtensionsListed
<1>2. /\ todo # << >> /\ Request = "listInstalled" /\ NewRequest /\ todo' = InstallSteps
      /\ found' = installed /\ UNCHANGED <<phase, failed>> /\ action' = action
      /\ UNCHANGED <<installed, process, loaded>>
  BY DEF ExtensionsListed, UnderWay, siteVars, NewRequest
<1>3. phase = "action" /\ action = "install"
  BY <1>2, WhoseRequest
<1>4. /\ InstallSteps \in Seq(Steps(action)) /\ InstallSteps # << >> /\ Shape(InstallSteps)
      /\ Extended(InstallSteps, installed, process, loaded, installed)
  BY <1>3, InstallStepsGood DEF Inv
<1>5. ControlType'
  <2>1. installed \subseteq Extension
    BY DEF Inv, SiteType
  <2> QED BY <1>2, <1>3, <1>4, <2>1, NewRequestOK DEF Inv, ControlType
<1>6. GoalsNow(todo)'
  BY <1>2, <1>3, <1>4 DEF GoalsNow, Goals
<1>7. Progress'
  BY <1>2, <1>3, <1>4, <1>6 DEF Inv, Progress
<1> QED BY <1>1, <1>5, <1>7 DEF Inv

LEMMA LinkSoughtOK ==
  ASSUME Inv, ManageAssumption, LinkSought PROVE Inv'
<1>1. SiteType' /\ Kept /\ installed' \subseteq Extension /\ faults' \in Nat
  BY Quiet DEF LinkSought
<1>2. /\ todo # << >> /\ Request \in {"settings", "webTests"} /\ links' = links
      /\ Continue(IF todo[2][1] \in links THEN Tail(Tail(todo)) ELSE Tail(todo))
  BY DEF LinkSought, UnderWay, siteVars
<1>3. phase = "action" /\ todo[1] \in {At("settings"), At("webTests")}
  BY <1>2, WhoseRequest
<1>4. todo \in Seq(Steps(action)) /\ Shape(todo) /\ GoalsNext(todo)
  BY <1>1, <1>3 DEF Inv, Progress, Kept
<1>5. /\ Tail(todo) # << >> /\ Tail(todo)[1] = todo[2]
      /\ todo[2] \in {At("key"), At("webTest")}
  <2>1. /\ Adjacent(todo, At("settings"), At("key"))
        /\ Adjacent(todo, At("webTests"), At("webTest"))
    BY <1>4 DEF Shape
  <2> QED BY <1>2, <1>3, <1>4, <2>1, TailAdjacent
<1>6. /\ Tail(todo) \in Seq(Steps(action)) /\ Shape(Tail(todo))
  BY <1>2, <1>4, TailFacts, TailShape
<1>7. GoalsNext(Tail(todo))
  <2>1. MetNext(todo[1])
    BY <1>3 DEF MetNext, Met, At
  <2> QED BY <1>1, <1>2, <1>4, <2>1, GoalsDrop DEF GoalsNext, MetNext
<1>8. CASE todo[2][1] \in links
  <2>1. Tail(Tail(todo)) \in Seq(Steps(action)) /\ Shape(Tail(Tail(todo)))
    BY <1>5, <1>6, TailFacts, TailShape
  <2>2. MetNext(Tail(todo)[1])
    BY <1>2, <1>5, <1>8 DEF MetNext, Met, At
  <2>3. GoalsNext(Tail(Tail(todo)))
    BY <1>1, <1>5, <1>6, <1>7, <2>2, GoalsDrop DEF GoalsNext, MetNext
  <2>4. ControlType' /\ Progress'
    BY <1>2, <1>3, <1>8, <2>1, <2>3, ContinueOK DEF Inv
  <2> QED BY <1>1, <2>4 DEF Inv
<1>9. CASE todo[2][1] \notin links
  <2>1. ControlType' /\ Progress'
    BY <1>2, <1>3, <1>6, <1>7, <1>9, ContinueOK DEF Inv
  <2> QED BY <1>1, <2>1 DEF Inv
<1> QED BY <1>8, <1>9

LEMMA ProcessReadOK ==
  ASSUME Inv, ManageAssumption, ProcessRead PROVE Inv'
<1>1. /\ todo # << >> /\ Request = "getProcess" /\ process' = "seen" /\ MoveOn
      /\ UNCHANGED <<state, target, swaps, running, installed, loaded, links, faults>>
  BY DEF ProcessRead, UnderWay
<1>2. SiteType' /\ installed' \subseteq Extension
  BY <1>1 DEF Inv, SiteType
<1>3. phase = "action" /\ todo[1] = At("getProcess")
  BY <1>1, WhoseRequest
<1>4. Has(todo, At("getProcess"))
  <2>1. 1 \in DOMAIN todo
    BY <1>1, <1>3, LenProperties, EmptySeq DEF Inv, Progress
  <2> QED BY <1>3, <2>1 DEF Has
<1>5. Kept
  <2>1. GoalsNow(todo)
    BY <1>3 DEF Inv, Progress
  <2>2. action = "install" => Extended(todo, installed', process', loaded', found)
    BY <1>1, <1>4, <2>1 DEF GoalsNow, Goals, Extended, Loaded
  <2>3. GoalsNext(todo)
    BY <1>1, <2>1, <2>2 DEF GoalsNow, GoalsNext, Goals
  <2> QED BY <1>3, <2>3 DEF Kept
<1>6. MetNext(todo[1])
  BY <1>1, <1>3 DEF MetNext, Met, At
<1>7. ControlType' /\ Progress'
  BY <1>1, <1>2, <1>5, <1>6, MoveOnOK DEF Inv
<1> QED BY <1>2, <1>7 DEF Inv

LEMMA ProcessPolledOK ==
  ASSUME Inv, ManageAssumption, ProcessPolled PROVE Inv'
<1>1. SiteType' /\ Kept /\ installed' \subseteq Extension /\ faults' \in Nat
  BY Quiet DEF ProcessPolled
<1>2. todo # << >> /\ Request = "pollProcess" /\ process # "down" /\ process' = process
  BY DEF ProcessPolled, UnderWay, Served, siteVars, ToKudu
<1>3. CASE NextRound
  BY <1>1, <1>2, <1>3, NextRoundOK DEF Inv
<1>4. CASE process # "seen" /\ MoveOn
  <2>1. process' = "other"
    BY <1>2, <1>4 DEF Inv, SiteType
  <2>2. MetNext(todo[1])
    BY <1>2, <2>1 DEF MetNext, Met, At, Request
  <2>3. ControlType' /\ Progress'
    BY <1>1, <1>2, <1>4, <2>2, MoveOnOK DEF Inv
  <2> QED BY <1>1, <2>3 DEF Inv
<1> QED BY <1>3, <1>4 DEF ProcessPolled

LEMMA ThrowsOK ==
  ASSUME Inv, ManageAssumption, Throws PROVE Inv'
<1>1. SiteType' /\ Kept
  BY Quiet DEF Throws
<1>2. todo # << >> /\ Raise
  BY DEF Throws, UnderWay
<1> QED BY <1>1, <1>2, RaiseOK DEF Inv

LEMMA SettlingInv ==
  ASSUME Inv, ManageAssumption, Settling PROVE Inv'
<1>1. UNCHANGED taskVars
  BY DEF Settling, StateSettles, SwapEnds, ProcessEnds, ProcessStarts
<1>2. SiteType'
  <2>1. CASE StateSettles
    BY <2>1 DEF StateSettles, Inv, SiteType
  <2>2. CASE SwapEnds
    <3>1. PICK result \in {"good", "bad"} : swaps' = [swaps EXCEPT ![Len(swaps)] = result]
      BY <2>2 DEF SwapEnds
    <3>2. swaps \in Seq({"running", "good", "bad"}) /\ swaps # << >>
      BY <2>2 DEF SwapEnds, Swapping, Inv, SiteType
    <3>3. Len(swaps) \in 1 .. Len(swaps)
      BY <3>2, LenProperties, EmptySeq
    <3>4. swaps' \in Seq({"running", "good", "bad"})
      BY <3>1, <3>2, <3>3, ExceptSeq
    <3> QED BY <2>2, <3>4 DEF SwapEnds, Inv, SiteType
  <2>3. CASE ProcessEnds
    BY <2>3 DEF ProcessEnds, Inv, SiteType, ManageAssumption
  <2>4. CASE ProcessStarts
    BY <2>4 DEF ProcessStarts, Inv, SiteType
  <2> QED BY <2>1, <2>2, <2>3, <2>4 DEF Settling
<1>3. Kept
  BY SettlingOK DEF Inv, Progress, Kept
<1>4. ControlType' /\ Progress'
  <2>1. ControlType'
    BY <1>1 DEF taskVars, Inv, ControlType
  <2> QED BY <1>1, <1>3, <2>1, StayOK DEF taskVars, Inv
<1> QED BY <1>2, <1>4 DEF Inv


LEMMA NextOK ==
  ASSUME Inv, ManageAssumption, [Next]_vars PROVE Inv'
<1>1. CASE Task
  BY <1>1, RequestFailsOK, KuduIsDownOK, RequestServedOK, MonitoredOK, SwappedOK,
     OperationPolledOK, JobsListedOK, ExtensionsListedOK, LinkSoughtOK, ProcessReadOK,
     ProcessPolledOK, ThrowsOK DEF Task
<1>2. CASE Settling
  BY <1>2, SettlingInv
<1>3. CASE UNCHANGED vars
  BY <1>3 DEF vars, taskVars, siteVars, Inv, ControlType, SiteType, Progress, GoalsNow
<1> QED BY <1>1, <1>2, <1>3 DEF Next, Settling

------------------------------------------------------------------------------
(* How many swaps there are.                                               *)

(* A request to swap does not come back.                                   *)
NoNewSwap ==
  phase' = "action" => phase = "action" /\ (Has(todo', At("swap")) => Has(todo, At("swap")))

LEMMA LeaveNoSwap ==
  ASSUME NEW success, Leave(success) PROVE NoNewSwap
BY DEF Leave, NoNewSwap

LEMMA MoveOnNoSwap ==
  ASSUME Inv, todo # << >>, MoveOn PROVE NoNewSwap
<1>1. CASE Leave(TRUE)
  BY <1>1, LeaveNoSwap
<1>2. CASE todo' = Tail(todo) /\ phase' = phase
  <2>1. phase = "action" => \A x : Has(Tail(todo), x) => Has(todo, x)
    BY TailFacts DEF Inv, Progress
  <2> QED BY <1>2, <2>1 DEF NoNewSwap
<1> QED BY <1>1, <1>2 DEF MoveOn, Continue

LEMMA NextRoundNoSwap ==
  ASSUME NextRound PROVE NoNewSwap
<1>1. CASE Again
  BY <1>1 DEF Again, NoNewSwap
<1>2. CASE Raise
  BY <1>2, LeaveNoSwap DEF Raise
<1> QED BY <1>1, <1>2 DEF NextRound

LEMMA AnsweredNoSwap ==
  ASSUME Inv, todo # << >>, NEW answer, Answered(answer) PROVE NoNewSwap
<1>1. CASE UNCHANGED <<phase, todo>>
  BY <1>1 DEF NoNewSwap
<1>2. CASE MoveOn
  BY <1>2, MoveOnNoSwap
<1>3. CASE GiveUp
  <2>1. MoveOn \/ Leave(TRUE) \/ NextRound \/ Raise
    BY <1>3 DEF GiveUp
  <2> QED BY <2>1, MoveOnNoSwap, LeaveNoSwap, NextRoundNoSwap DEF Raise
<1> QED BY <1>1, <1>2, <1>3 DEF Answered

LEMMA TaskNoSwap ==
  ASSUME Inv, ManageAssumption, Task PROVE NoNewSwap
<1> USE DEF UnderWay
<1>1. CASE RequestFails
  BY <1>1, AnsweredNoSwap DEF RequestFails
<1>2. CASE KuduIsDown
  BY <1>2, AnsweredNoSwap DEF KuduIsDown
<1>3. CASE RequestServed
  BY <1>3, MoveOnNoSwap DEF RequestServed, Served
<1>4. CASE Monitored
  BY <1>4, MoveOnNoSwap DEF Monitored, NoNewSwap
<1>5. CASE Swapped
  BY <1>5, AnsweredNoSwap DEF Swapped
<1>6. CASE OperationPolled
  <2>1. todo # << >> /\ (MoveOn \/ Raise \/ Again)
    BY <1>6 DEF OperationPolled
  <2> QED BY <2>1, MoveOnNoSwap, LeaveNoSwap DEF Raise, Again, NoNewSwap
<1>7. CASE JobsListed \/ ExtensionsListed
  <2>1. action' = action /\ phase = "action" /\ action \in {"startJobs", "stopJobs", "install"}
    <3>1. todo # << >> /\ Request \in {"listJobs", "listInstalled"}
      BY <1>7 DEF JobsListed, ExtensionsListed
    <3>2. action' = action
      BY <1>7 DEF JobsListed, ExtensionsListed, Continue, Leave, NewRequest
    <3> QED BY <3>1, <3>2, WhoseRequest
  <2>2. Inv'
    BY <1>7, JobsListedOK, ExtensionsListedOK
  <2>3. phase' = "action" => todo' \in Seq(Steps(action))
    BY <2>1, <2>2 DEF Inv, Progress
  <2>4. At("swap") \notin Steps(action)
    BY <2>1 DEF Steps, At
  <2>5. phase' = "action" => ~ Has(todo', At("swap"))
    BY <2>3, <2>4, ElementOfSeq, LenProperties DEF Has
  <2> QED BY <2>1, <2>5 DEF NoNewSwap
<1>8. CASE LinkSought
  <2>1. todo # << >> /\ (Continue(Tail(Tail(todo))) \/ MoveOn)
    BY <1>8 DEF LinkSought, MoveOn
  <2>2. phase = "action"
    BY <1>8, WhoseRequest DEF LinkSought
  <2>3. todo \in Seq(Steps(action)) /\ Tail(todo) \in Seq(Steps(action))
    BY <2>1, <2>2, TailFacts DEF Inv, Progress
  <2>4. Tail(todo) # << >>
    <3>1. /\ Adjacent(todo, At("settings"), At("key"))
          /\ Adjacent(todo, At("webTests"), At("webTest"))
      BY <2>2 DEF Inv, Progress, Shape
    <3>2. todo[1] \in {At("settings"), At("webTests")}
      BY <1>8, WhoseRequest DEF LinkSought
    <3> QED BY <2>1, <2>3, <3>1, <3>2, TailAdjacent
  <2>5. \A x : Has(Tail(Tail(todo)), x) => Has(todo, x)
    BY <2>1, <2>3, <2>4, TailFacts
  <2>6. CASE Continue(Tail(Tail(todo)))
    BY <2>2, <2>5, <2>6, LeaveNoSwap DEF Continue, NoNewSwap
  <2> QED BY <2>1, <2>6, MoveOnNoSwap
<1>9. CASE ProcessRead
  BY <1>9, MoveOnNoSwap DEF ProcessRead
<1>10. CASE ProcessPolled
  BY <1>10, MoveOnNoSwap, NextRoundNoSwap DEF ProcessPolled
<1>11. CASE Throws
  BY <1>11, LeaveNoSwap DEF Throws, Raise
<1> QED BY <1>1, <1>2, <1>3, <1>4, <1>5, <1>6, <1>7, <1>8, <1>9, <1>10, <1>11 DEF Task

(* The request for a swap stands for one.                                  *)
LEMMA SwapIsDue ==
  ASSUME Inv, SwapCount, ManageAssumption, todo # << >>, Request = "swap"
  PROVE  /\ Len(swaps) <= faults
         /\ phase = "action" /\ ~ Has(Tail(todo), At("swap"))
<1>1. phase = "action"
  BY WhoseRequest
<1>2. todo \in Seq(Steps(action)) /\ action \in Action /\ Shape(todo)
  BY <1>1 DEF Inv, Progress, ControlType
<1>3. todo[1] \in Steps(action)
  BY <1>2, TailFacts
<1>4. todo[1] = At("swap")
  BY <1>2, <1>3 DEF Steps, Action, At, Request
<1>5. 1 \in DOMAIN todo
  BY <1>2, LenProperties, EmptySeq
<1>6. Has(todo, At("swap"))
  BY <1>4, <1>5 DEF Has
<1>7. ~ Has(Tail(todo), At("swap"))
  BY <1>2, <1>4, TailOnce DEF Shape
<1> QED BY <1>1, <1>6, <1>7 DEF SwapCount

LEMMA SwapCountOK ==
  ASSUME Inv, SwapCount, ManageAssumption, [Next]_vars PROVE SwapCount'
<1>1. /\ swaps \in Seq({"running", "good", "bad"}) /\ Len(swaps) \in Nat /\ faults \in Nat
      /\ Len(Append(swaps, "running")) = Len(swaps) + 1
  BY AppendProperties, LenProperties DEF Inv, SiteType
<1>2. ASSUME NoNewSwap, Len(swaps') = Len(swaps), faults' \in {faults, faults + 1}
      PROVE  SwapCount'
  BY <1>1, <1>2 DEF SwapCount, NoNewSwap
<1>3. CASE RequestFails
  <2>1. NoNewSwap /\ todo # << >> /\ faults' = faults + 1
    BY <1>3, TaskNoSwap DEF Task, RequestFails
  <2>2. swaps' = swaps \/ (Request = "swap" /\ swaps' = Append(swaps, "running"))
    BY <1>3 DEF RequestFails, siteVars, CarryOut
  <2>3. CASE swaps' = swaps
    BY <1>2, <2>1, <2>3
  <2>4. CASE Request = "swap" /\ swaps' = Append(swaps, "running")
    <3>1. Len(swaps) <= faults
      BY <2>1, <2>4, SwapIsDue
    <3>2. Len(swaps') <= faults'
      BY <1>1, <2>1, <2>4, <3>1
    <3>3. Len(swaps') \in Nat
      BY <1>1, <2>4
    <3> QED BY <1>1, <2>1, <3>2, <3>3 DEF SwapCount
  <2> QED BY <2>2, <2>3, <2>4
<1>4. CASE Swapped
  <2>1. NoNewSwap /\ todo # << >> /\ faults' = faults /\ Request = "swap"
    BY <1>4, TaskNoSwap DEF Task, Swapped, UnderWay
  <2>2. CASE UNCHANGED siteVars
    BY <1>2, <2>1, <2>2 DEF siteVars
  <2>3. CASE Answered("accepted") /\ CarryOut
    <3>1. ~ MayResend("accepted") /\ ~ MayRepeat("accepted")
      BY DEF MayResend, MayRepeat, MayRetry, Retriable
    <3>2. MoveOn
      BY <2>3, <3>1 DEF Answered
    <3>3. Len(swaps) <= faults /\ ~ Has(Tail(todo), At("swap"))
      BY <2>1, SwapIsDue
    <3>4. phase' = "action" => todo' = Tail(todo)
      BY <3>2 DEF MoveOn, Continue, Leave
    <3>5. Len(swaps') \in {Len(swaps), Len(swaps) + 1}
      BY <1>1, <2>3 DEF CarryOut
    <3>6. Len(swaps') <= 1 + faults'
      BY <1>1, <2>1, <3>3, <3>5
    <3> QED BY <3>3, <3>4, <3>6 DEF SwapCount
  <2> QED BY <1>4, <2>2, <2>3 DEF Swapped
<1>5. CASE Task /\ ~ RequestFails /\ ~ Swapped
  <2>1. NoNewSwap
    BY <1>5, TaskNoSwap
  <2>2. swaps' = swaps /\ faults' \in {faults, faults + 1}
    <3>1. CASE RequestServed
      BY <3>1 DEF RequestServed, CarryOut
    <3>2. CASE Monitored
      BY <3>2 DEF Monitored, siteVars
    <3>3. CASE ~ RequestServed /\ ~ Monitored
      BY <1>5, <3>3 DEF Task, KuduIsDown, OperationPolled, JobsListed, ExtensionsListed,
         LinkSought, ProcessRead, ProcessPolled, Throws, siteVars
    <3> QED BY <3>1, <3>2, <3>3
  <2> QED BY <1>2, <2>1, <2>2
<1>6. CASE Settling
  <2>1. NoNewSwap
    BY <1>6 DEF Settling, StateSettles, SwapEnds, ProcessEnds, ProcessStarts, taskVars, NoNewSwap
  <2>2. faults' \in {faults, faults + 1}
    BY <1>6 DEF Settling, StateSettles, SwapEnds, ProcessEnds, ProcessStarts
  <2>3. CASE SwapEnds
    <3>1. PICK result \in {"good", "bad"} : swaps' = [swaps EXCEPT ![Len(swaps)] = result]
      BY <2>3 DEF SwapEnds
    <3>2. Len(swaps) \in 1 .. Len(swaps)
      BY <1>1, <2>3, EmptySeq DEF SwapEnds, Swapping
    <3>3. Len(swaps') = Len(swaps)
      BY <1>1, <3>1, <3>2, ExceptSeq
    <3> QED BY <1>2, <2>1, <2>2, <3>3
  <2>4. CASE ~ SwapEnds
    BY <1>2, <1>6, <2>1, <2>2, <2>4 DEF Settling, StateSettles, ProcessEnds, ProcessStarts
  <2> QED BY <2>3, <2>4
<1>7. CASE UNCHANGED vars
  BY <1>2, <1>7 DEF vars, taskVars, siteVars, NoNewSwap
<1> QED BY <1>3, <1>4, <1>5, <1>6, <1>7 DEF Next, Settling

------------------------------------------------------------------------------
(* The invariant and the theorems.                                         *)

LEMMA InitOK ==
  ASSUME Init, ManageAssumption PROVE IInv
<1>1. action \in Action /\ todo \in Beginnings(action) /\ phase = "action" /\ ~ failed
  BY DEF Init
<1>2. /\ todo \in Seq(Steps(action)) /\ todo # << >> /\ Shape(todo) /\ Promised(action, todo)
  BY <1>1, BeginningsGood
<1>3. GoalsNow(todo)
  BY <1>2, PromisedGoals DEF GoalsNow
<1>4. ControlType
  <2>1. /\ tries = 0 /\ repeats = 0 /\ polls = 0 /\ found = {} /\ failed = FALSE
        /\ ProcessPolls \in Nat \ {0} /\ KuduRetries \in Nat \ {0}
    BY DEF Init, ManageAssumption
  <2>2. todo = << >> <=> phase = "ended"
    BY <1>1, <1>2
  <2>3. 0 \in 0 .. RetryCount - 1 /\ 0 \in 0 .. KuduRetries /\ 0 < ProcessPolls
    BY <2>1, RetryAssumption
  <2>4. /\ tries \in 0 .. RetryCount - 1 /\ repeats \in 0 .. KuduRetries
        /\ polls \in Nat /\ polls < ProcessPolls
    BY <2>1, <2>3
  <2>5. found \subseteq Extension /\ failed \in BOOLEAN
    BY <2>1
  <2> QED BY <1>1, <2>2, <2>4, <2>5 DEF ControlType
<1>5. SiteType
  <2>1. swaps \in Seq({"running", "good", "bad"})
    BY DEF Init
  <2>2. links \subseteq Link
    BY DEF Init, Link
  <2> QED BY <2>1, <2>2 DEF Init, SiteType, ManageAssumption
<1>6. SwapCount
  <2>1. Len(swaps) = 0 /\ faults = 0
    BY DEF Init
  <2> QED BY <2>1 DEF SwapCount
<1> QED BY <1>1, <1>2, <1>3, <1>4, <1>5, <1>6 DEF IInv, Progress

LEMMA IsInvariant == Spec => []IInv
<1>1. Init => IInv
  BY InitOK, ManageAssumption
<1>2. IInv /\ [Next]_vars => IInv'
  <2> SUFFICES ASSUME IInv, [Next]_vars PROVE IInv'
    OBVIOUS
  <2>1. Inv /\ SwapCount
    BY DEF IInv, Inv
  <2> QED BY <2>1, NextOK, SwapCountOK, ManageAssumption DEF IInv, Inv
<1> QED BY <1>1, <1>2, PTL DEF Spec

LEMMA StepsAreRequests ==
  ASSUME NEW a \in Action, ManageAssumption
  PROVE  Steps(a) \subseteq Requests \X Places
BY DEF Steps, Action, Requests, Places, ManageAssumption

LEMMA SeqOfMore ==
  ASSUME NEW S, NEW T, S \subseteq T, NEW t \in Seq(S) PROVE t \in Seq(T)
<1>1. Len(t) \in Nat /\ t \in [1 .. Len(t) -> S]
  BY LenProperties
<1>2. t \in [1 .. Len(t) -> T]
  BY <1>1
<1> QED BY <1>1, <1>2, SeqDef

(* The variables have their types; in particular the requests left are     *)
(* none exactly when the task has ended, tries, repeats and polls stay     *)
(* within their limits, and a process of Kudu is never loaded with more    *)
(* than is installed.                                                      *)
THEOREM TypeCorrect == Spec => []TypeOK
<1>1. IInv => TypeOK
  <2> SUFFICES ASSUME IInv PROVE TypeOK
    OBVIOUS
  <2>1. todo \in Seq(Requests \X Places)
    <3>1. CASE phase = "action"
      <4>1. action \in Action /\ todo \in Seq(Steps(action))
        BY <3>1 DEF IInv, ControlType, Progress
      <4> QED BY <4>1, StepsAreRequests, SeqOfMore, ManageAssumption
    <3>2. CASE phase # "action"
      <4>1. todo \in Seq(StatusRequests)
        BY <3>2 DEF IInv, Progress
      <4>2. StatusRequests \subseteq Requests \X Places
        BY DEF StatusRequests, Requests, Places
      <4> QED BY <4>1, <4>2, SeqOfMore
    <3> QED BY <3>1, <3>2
  <2> QED BY <2>1 DEF IInv, ControlType, SiteType, TypeOK, Places
<1> QED BY <1>1, IsInvariant, PTL

(* A task that ends without failure has done what its action is for: the   *)
(* state, the jobs, the extensions and the links whichever requests were   *)
(* lost, repeated or ignored, and a swap in a run in which nothing failed. *)
(* A swap that had to be repeated ended well the last time, no more.       *)
THEOREM SuccessReal == Spec => []SuccessIsReal
<1>1. IInv => SuccessIsReal
  <2> SUFFICES ASSUME IInv, phase = "ended", ~ failed
               PROVE  /\ action \in {"start", "stop"} =>
                           target = Wanted /\ (state = Wanted \/ faults > 0)
                      /\ action = "swap" =>
                           Last(swaps) = "good" /\ (faults = 0 => swaps = <<"good">>)
                      /\ action = "startJobs" => running = Job
                      /\ action = "stopJobs" => running = {}
                      /\ action = "install" =>
                           installed = Extension /\ Extension \ found \subseteq loaded
                      /\ action = "monitoring" =>
                           {"tag", "key"} \subseteq links /\ (faults = 0 => links = Link)
    BY DEF SuccessIsReal
  <2>1. GoalsNow(<< >>)
    BY DEF IInv, Progress
  <2>2. \A x : ~ Has(<< >>, x)
    BY ShortSequences
  <2>3. action \in {"start", "stop"} => target = Wanted /\ (state = Wanted \/ faults > 0)
    BY <2>1, <2>2 DEF GoalsNow, Goals, Launched, Wanted
  <2>4. ASSUME action = "swap"
        PROVE  Last(swaps) = "good" /\ (faults = 0 => swaps = <<"good">>)
    <3>1. Last(swaps) = "good" /\ swaps # << >>
      BY <2>1, <2>2, <2>4 DEF GoalsNow, Goals, SwapOver
    <3>2. swaps \in Seq({"running", "good", "bad"}) /\ Len(swaps) \in Nat /\ Len(swaps) <= 1 + faults
      BY LenProperties DEF IInv, SiteType, SwapCount
    <3>3. ASSUME faults = 0 PROVE swaps = <<"good">>
      <4>1. Len(swaps) = 1
        <5>1. Len(swaps) \in Nat \ {0}
          BY <3>1, <3>2, EmptySeq
        <5>2. PICK n \in Nat \ {0} : n = Len(swaps)
          BY <5>1
        <5>3. n <= 1 + 0
          BY <3>2, <3>3, <5>2
        <5>4. n = 1
          BY <5>3
        <5> QED BY <5>2, <5>4
      <4>2. swaps = <<swaps[1]>> /\ Last(swaps) = swaps[1]
        BY <3>2, <4>1 DEF Last
      <4> QED BY <3>1, <4>2
    <3> QED BY <3>1, <3>3
  <2>5. /\ action = "startJobs" => running = Job
        /\ action = "stopJobs" => running = {}
    BY <2>1, <2>2 DEF GoalsNow, Goals, Started, Stopped, IInv, SiteType
  <2>6. action = "install" => installed = Extension /\ Extension \ found \subseteq loaded
    BY <2>1, <2>2 DEF GoalsNow, Goals, Extended, Loaded, IInv, SiteType
  <2>7. action = "monitoring" => {"tag", "key"} \subseteq links /\ (faults = 0 => links = Link)
    <3> SUFFICES ASSUME action = "monitoring"
                 PROVE  {"tag", "key"} \subseteq links /\ (faults = 0 => links = Link)
      OBVIOUS
    <3>1. Linked(<< >>, links, faults)
      BY <2>1 DEF GoalsNow, Goals
    <3>2. "tag" \in links /\ "key" \in links
      BY <2>2, <3>1 DEF Linked
    <3>3. faults = 0 => "alwaysOn" \in links /\ "webTest" \in links
      BY <2>2, <3>1 DEF Linked
    <3>4. links \subseteq Link
      BY DEF IInv, SiteType
    <3> QED BY <3>2, <3>3, <3>4 DEF Link
  <2> QED BY <2>3, <2>4, <2>5, <2>6, <2>7
<1> QED BY <1>1, IsInvariant, PTL

(* However often a request to swap is sent again, there is at most one     *)
(* swap more than there are faults.                                        *)
THEOREM SwapsBounded == Spec => []SwappedOnce
<1>1. IInv => SwappedOnce
  BY DEF IInv, SwapCount, SwappedOnce
<1> QED BY <1>1, IsInvariant, PTL

=============================================================================
