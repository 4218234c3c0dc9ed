------------------------- MODULE WebAppDeployment_proof -------------------------
(***************************************************************************)
(* The safety of WebAppDeployment, for any limits of the retries and loops *)
(* and any number of requests that fail.                                   *)
(*                                                                         *)
(* What is left of a phase is a suffix of one of the many sequences that   *)
(* Steps allows, with pings and updates of settings put before it.  The    *)
(* invariant speaks of such suffixes by three relations that a suffix      *)
(* inherits: which requests there still are, which of two comes first, and *)
(* which is followed by which.                                             *)
(***************************************************************************)
EXTENDS WebAppDeployment, Subsequences_proof, TLAPS

(* The requests of a deployment: those that put the package on the site,   *)
(* and the rest.                                                           *)
Others ==
  {"settings", "putSettings", "publishing", "monitor", "warmup", "configuration", "throw",
   "listDir", "createPath", "patch", "ping", "url"}
Shelter == {"offline", "online"}
Follow == {"post", "poll", "details"}
Keys(p) ==
  CASE p = "zip" -> Shelter \cup Follow
    [] p \in {"war", "linux"} -> Follow
    [] p = "runFromZip" -> {"post"}
    [] p = "extract" -> Shelter \cup {"extract"}
    [] p \in {"webDeploy", "profile"} -> {"msdeploy"}
    [] p = "container" -> {"image"}

PreNames == {"ping", "resourceGroup", "credentials"}
ScriptNames == {"offline", "upload", "command", "pollFile", "logs"}
CleanupNames == {"uploadDelete", "deleteLogs", "deleteFolder", "online"}
StatusNames == {"annotation", "url", "history", "manifest"}

(* What is left of the deployment by options o.                            *)
Chain(o, t) ==
  /\ t \in Seq(Others \cup Keys(o.provider))
  /\ Ordered(t, "offline", "post") /\ Ordered(t, "post", "poll")
  /\ Ordered(t, "post", "details") /\ Ordered(t, "poll", "details") /\ Ordered(t, "poll", "online")
  /\ Followed(t, "offline", "online") /\ Followed(t, "msdeploy", "throw")
  /\ Has(t, "offline") => o.offline

(* Deployments d that have not ended.                                      *)
Runs(d) == d # << >> /\ Last(d) = "running"
Over(d) == d # << >> /\ Last(d) = "good"
Ran(sc) == \E i \in DOMAIN sc : sc[i] \in {"good", "silent"}

(* The request after which the package is on the site.                     *)
Final(p) ==
  CASE p \in Posting \ {"runFromZip"} -> "details"
    [] p = "runFromZip" -> "post"
    [] p = "extract" -> "extract"
    [] p \in {"webDeploy", "profile"} -> "throw"
    [] p = "container" -> "image"

(* The deployment with t left, the deployments d and the offline file off: *)
(* either what puts the package on the site is still to come, or it is     *)
(* there.                                                                  *)
DeployOK(o, t, d, off) ==
  /\ Chain(o, t)
  /\ off => Has(t, "online")
  /\ o.provider = "zip" /\ o.offline /\ Has(t, "post") => off \/ Has(t, "offline")
  /\ o.provider \in Posting \ {"runFromZip"} =>
       /\ Has(t, "post") \/ d # << >>
       /\ Has(t, "poll") \/ (~ Has(t, "post") /\ ~ Runs(d))
       /\ Has(t, "details") \/ ~ Has(t, "post")
  /\ Has(t, Final(o.provider)) \/ Over(d)

(* Phase p with t left; sc are the runs of the script.                     *)
Good(p, o, t, d, off, sc, th, fl) ==
  /\ p = "pre" => t \in Seq(PreNames) /\ d = << >> /\ ~ off /\ sc = << >> /\ ~ th /\ ~ fl
  /\ p = "deploy" => DeployOK(o, t, d, off) /\ sc = << >> /\ ~ th /\ ~ fl
  /\ p = "script" =>
       /\ t \in Seq(ScriptNames) /\ (Has(t, "offline") => o.offline)
       /\ Over(d) /\ (Has(t, "logs") \/ Ran(sc)) /\ ~ th /\ ~ fl
  /\ p = "cleanup" =>
       /\ t \in Seq(CleanupNames)
       /\ Over(d) /\ (off => Has(t, "online")) /\ (th \/ Ran(sc)) /\ ~ fl
  /\ p = "finish" =>
       t \in Seq({"scm"}) /\ Over(d) /\ ~ off /\ (o.script => Ran(sc)) /\ ~ th /\ ~ fl
  /\ p \in {"status", "ended"} =>
       /\ t \in Seq(StatusNames) /\ (sc # << >> => Over(d))
       /\ ~ fl => Over(d) /\ ~ off /\ (o.script => Ran(sc))

(* The site, in every phase.                                               *)
Site(o, d, off, sc, out) ==
  /\ o.provider = "zip" /\ o.offline /\ Runs(d) => off
  /\ off => o.offline
  /\ o.provider \in Posting => \A i \in DOMAIN d : i < Len(d) => d[i] # "running"
  /\ o.provider \in {"webDeploy", "profile", "container"} => \A i \in DOMAIN d : d[i] # "running"
  /\ out # "none" => \E i \in DOMAIN sc : sc[i] = out

ControlType ==
  /\ opts \in Options
  /\ phase \in {"pre", "deploy", "script", "cleanup", "finish", "status", "ended"}
  /\ todo \in Seq(Requests) /\ (todo = << >> <=> phase = "ended")
  /\ tries \in 0 .. RetryCount - 1 /\ repeats \in 0 .. KuduRetries
  /\ polls \in Nat /\ (polls < FilePolls \/ polls < MonitorPolls)
  /\ thrown \in BOOLEAN /\ failed \in BOOLEAN

SiteType ==
  /\ offline \in BOOLEAN /\ deployments \in Seq({"running", "good", "bad"})
  /\ scripts \in Seq({"running"} \cup Outcome) /\ output \in {"none"} \cup Outcome
  /\ faults \in 0 .. MaxFaults

(* What a request waits for is the deployment or script it has started.    *)
Owned(t, w, d, sc) ==
  /\ w \in Nat
  /\ w # 0 => /\ t # << >>
              /\ \/ t[1] \in {"post", "extract"} /\ w = Len(d)
                 \/ t[1] = "command" /\ w = Len(sc)

IInv ==
  /\ ControlType /\ SiteType /\ Owned(todo, own, deployments, scripts)
  /\ Site(opts, deployments, offline, scripts, output)
  /\ Good(phase, opts, todo, deployments, offline, scripts, thrown, failed)


------------------------------------------------------------------------------
(* The sequences of a deployment.                                          *)

LEMMA KeysAreOther ==
  ASSUME NEW o \in Options
  PROVE  /\ o.provider \in Provider
         /\ Keys(o.provider) \cap Others = {}
         /\ Keys(o.provider) \subseteq Shelter \cup Follow \cup {"extract", "msdeploy", "image"}
<1>1. o.provider \in Provider
  BY DEF Options
<1> QED BY <1>1 DEF Provider, Posting, Keys, Others, Shelter, Follow

LEMMA ChainPadded ==
  ASSUME NEW o \in Options, NEW m, Chain(o, m), NEW a \in Seq(Others)
  PROVE  /\ Chain(o, a \o m) /\ Chain(o, m \o a)
         /\ \A x : Has(m, x) => Has(a \o m, x) /\ Has(m \o a, x)
<1> DEFINE S == Others \cup Keys(o.provider)
<1>1. a \in Seq(S) /\ m \in Seq(S)
  <2>1. Others \subseteq S
    OBVIOUS
  <2> QED BY <2>1, SeqMonotonic DEF Chain
<1>2. \A x : Has(a, x) => x \in Others
  BY LenProperties, ElementOfSeq DEF Has
<1> HIDE DEF S
<1>3. \A x, y : x \notin Others => Ordered(a, x, y) /\ Followed(a, x, y)
  BY <1>2 DEF Has, Ordered, Followed
<1>4. \A x, y : x \notin Others /\ y \notin Others /\ Ordered(m, x, y) =>
                  Ordered(a \o m, x, y) /\ Ordered(m \o a, x, y)
  BY <1>1, <1>2, <1>3, ConcatFacts
<1>5. \A x, y : x \notin Others /\ Followed(m, x, y) =>
                  Followed(a \o m, x, y) /\ Followed(m \o a, x, y)
  BY <1>1, <1>3, ConcatFacts
<1>6. /\ \A x : Has(m, x) => Has(a \o m, x) /\ Has(m \o a, x)
      /\ \A x : Has(a \o m, x) \/ Has(m \o a, x) => Has(m, x) \/ x \in Others
      /\ a \o m \in Seq(S) /\ m \o a \in Seq(S)
  BY <1>1, <1>2, ConcatFacts
<1>7. {"offline", "online", "post", "poll", "details", "msdeploy"} \cap Others = {}
  BY DEF Others
<1> QED BY <1>4, <1>5, <1>6, <1>7 DEF Chain, S

(* What the sequence of a provider must have in it at the beginning.       *)
Whole(o, t) ==
  /\ Chain(o, t) /\ Has(t, Final(o.provider))
  /\ o.provider \in Posting \ {"runFromZip"} => Has(t, "post") /\ Has(t, "poll") /\ Has(t, "details")
  /\ o.provider = "zip" /\ o.offline => Has(t, "offline")

LEMMA SyncIsWhole ==
  ASSUME opts \in Options
  PROVE  Whole(opts, Sync)
<1> DEFINE off == Sheltered("offline")
           on == Sheltered("online")
           post == <<"post", "poll", "details">>
           S == Others \cup Keys(opts.provider)
<1>1. opts.provider \in Provider
  BY DEF Options
<1>2. \A x, y : /\ Has(off, x) <=> x = "offline" /\ opts.offline
                /\ Has(on, x) <=> x = "online" /\ opts.offline
                /\ x # y => Ordered(off, x, y) /\ Ordered(on, x, y)
                /\ x # "offline" => Followed(off, x, y)
                /\ x # "online" => Followed(on, x, y)
  BY ShortSequences DEF Sheltered
<1>3. DOMAIN post = 1 .. 3 /\ post[1] = "post" /\ post[2] = "poll" /\ post[3] = "details"
  OBVIOUS
<1> HIDE DEF off, on, post
<1>4. \A x : Has(post, x) <=> x \in Follow
  BY <1>3 DEF Has, Follow
<1>5. /\ \A x, y : x \notin Follow => Ordered(post, x, y) /\ Ordered(post, y, x) /\ Followed(post, x, y)
      /\ Ordered(post, "post", "poll") /\ Ordered(post, "post", "details") /\ Ordered(post, "poll", "details")
  BY <1>3 DEF Ordered, Followed, Follow
<1>6. CASE opts.provider = "zip"
  <2>1. off \in Seq(S) /\ on \in Seq(S) /\ post \in Seq(S)
    BY <1>6, ShortSequences DEF Keys, Shelter, Follow, off, on, post, Sheltered
  <2> DEFINE begin == off \o post
  <2>2. /\ begin \in Seq(S)
        /\ \A x : Has(begin, x) <=> (x = "offline" /\ opts.offline) \/ x \in Follow
        /\ Ordered(begin, "offline", "post") /\ Ordered(begin, "post", "poll")
        /\ Ordered(begin, "post", "details") /\ Ordered(begin, "poll", "details")
        /\ Ordered(begin, "poll", "online") /\ Followed(begin, "msdeploy", "throw")
    <3>1. \A x : Has(begin, x) <=> (x = "offline" /\ opts.offline) \/ x \in Follow
      <4>1. \A x : Has(begin, x) <=> Has(off, x) \/ Has(post, x)
        BY <2>1, ConcatFacts
      <4> QED BY <4>1, <1>2, <1>4
    <3>2. \A x, y : /\ Ordered(off, x, y) /\ Ordered(post, x, y) /\ ~ (Has(off, y) /\ Has(post, x))
                         => Ordered(begin, x, y)
                    /\ Followed(off, x, y) /\ Followed(post, x, y) => Followed(begin, x, y)
      BY <2>1, ConcatFacts
    <3> HIDE DEF begin
    <3> QED BY <2>1, <3>1, <3>2, <1>2, <1>4, <1>5, ConcatFacts DEF Follow, begin
  <2> HIDE DEF begin
  <2>3. \A x : Has(begin \o on, x) <=> Has(begin, x) \/ Has(on, x)
    BY <2>1, <2>2, ConcatFacts
  <2>4. \A x, y : /\ Ordered(begin, x, y) /\ Ordered(on, x, y) /\ ~ (Has(begin, y) /\ Has(on, x))
                       => Ordered(begin \o on, x, y)
                  /\ (Followed(begin, x, y) \/ Has(on, y)) /\ Followed(on, x, y)
                       => Followed(begin \o on, x, y)
    BY <2>1, <2>2, ConcatFacts
  <2>5. begin \o on \in Seq(S)
    BY <2>1, <2>2, ConcatFacts
  <2>6. Followed(begin, "offline", "online") \/ Has(on, "online")
    <3>1. ~ opts.offline => ~ Has(begin, "offline")
      BY <2>2 DEF Follow
    <3>2. ~ Has(begin, "offline") => Followed(begin, "offline", "online")
      BY DEF Has, Followed
    <3> QED BY <3>1, <3>2, <1>2
  <2>7. Chain(opts, begin \o on)
    BY <1>2, <2>2, <2>3, <2>4, <2>5, <2>6 DEF Chain, S, Follow
  <2>8. Sync = begin \o on
    BY <1>6 DEF Sync, begin, on, off, post
  <2>9. Final(opts.provider) = "details"
    BY <1>6 DEF Final, Posting
  <2> QED BY <1>6, <2>2, <2>3, <2>7, <2>8, <2>9 DEF Whole, Follow
<1>7. CASE opts.provider \in {"war", "linux"}
  <2>1. Sync = post /\ post \in Seq(S)
    BY <1>7, ShortSequences DEF Sync, Keys, Follow, post
  <2>2. Chain(opts, post)
    BY <1>4, <1>5, <2>1 DEF Chain, S, Follow
  <2> QED BY <1>4, <1>7, <2>1, <2>2 DEF Whole, Final, Posting, Follow
<1>8. CASE opts.provider = "runFromZip"
  <2>1. Sync = <<"post">> /\ <<"post">> \in Seq(S)
    BY <1>8, ShortSequences DEF Sync, Keys
  <2>2. Chain(opts, <<"post">>)
    BY <2>1, ShortSequences DEF Chain, S
  <2> QED BY <1>8, <2>1, <2>2, ShortSequences DEF Whole, Final, Posting
<1>9. CASE opts.provider = "extract"
  <2>1. off \in Seq(S) /\ on \in Seq(S) /\ <<"extract">> \in Seq(S)
    BY <1>9, ShortSequences DEF Keys, Shelter, off, on, Sheltered
  <2> DEFINE begin == off \o <<"extract">>
  <2>2. /\ begin \in Seq(S)
        /\ \A x : Has(begin, x) <=> (x = "offline" /\ opts.offline) \/ x = "extract"
        /\ Followed(begin, "msdeploy", "throw")
    <3>1. /\ begin \in Seq(S)
          /\ \A x : Has(begin, x) <=> Has(off, x) \/ Has(<<"extract">>, x)
      BY <2>1, ConcatFacts
    <3>2. \A x : Has(begin, x) <=> (x = "offline" /\ opts.offline) \/ x = "extract"
      BY <1>2, <3>1, ShortSequences
    <3> HIDE DEF begin
    <3>3. ~ Has(begin, "msdeploy")
      BY <3>2
    <3> QED BY <3>1, <3>2, <3>3 DEF Has, Followed
  <2> HIDE DEF begin
  <2>3. /\ begin \o on \in Seq(S)
        /\ \A x : Has(begin \o on, x) <=>
             (x = "offline" /\ opts.offline) \/ x = "extract" \/ (x = "online" /\ opts.offline)
        /\ Followed(begin \o on, "msdeploy", "throw")
    BY <1>2, <2>1, <2>2, ConcatFacts
  <2>4. \A x, y : ~ Has(begin \o on, x) \/ ~ Has(begin \o on, y) => Ordered(begin \o on, x, y)
    BY DEF Has, Ordered
  <2>5. Followed(begin \o on, "offline", "online")
    <3>1. CASE opts.offline
      <4>1. Has(on, "online") /\ Followed(on, "offline", "online")
        BY <3>1, <1>2
      <4> QED BY <4>1, <2>1, <2>2, ConcatFacts
    <3>2. CASE ~ opts.offline
      <4>1. ~ Has(begin \o on, "offline")
        BY <3>2, <2>3
      <4> QED BY <4>1 DEF Has, Followed
    <3> QED BY <3>1, <3>2
  <2>6. Chain(opts, begin \o on)
    BY <2>3, <2>4, <2>5 DEF Chain, S
  <2>7. Sync = begin \o on
    BY <1>9 DEF Sync, begin, on, off
  <2> QED BY <1>9, <2>3, <2>6, <2>7 DEF Whole, Final, Posting
<1>10. CASE opts.provider \in {"webDeploy", "profile"}
  <2> DEFINE runs == [i \in 1 .. DeployRetries |-> "msdeploy"]
  <2>1. runs \in Seq(S) /\ <<"throw">> \in Seq(S) /\ <<"url">> \in Seq(Others)
    <3>1. DeployRetries \in Nat /\ "msdeploy" \in S /\ "throw" \in S /\ "url" \in Others
      BY <1>10, WebAppAssumption DEF Keys, Others
    <3> QED BY <3>1, ShortSequences
  <2>2. \A x : Has(runs, x) => x = "msdeploy"
    BY DEF Has
  <2> HIDE DEF runs, S
  <2>3. /\ Attempts \in Seq(S)
        /\ \A x : Has(Attempts, x) => x \in {"msdeploy", "throw"}
        /\ Has(Attempts, "throw") /\ Followed(Attempts, "msdeploy", "throw")
    <3>1. Attempts = runs \o <<"throw">>
      BY DEF Attempts, runs
    <3>2. Has(<<"throw">>, "throw") /\ Followed(<<"throw">>, "msdeploy", "throw")
      BY ShortSequences
    <3>3. \A x : Has(<<"throw">>, x) => x = "throw"
      BY ShortSequences
    <3>4. \A x : Has(Attempts, x) <=> Has(runs, x) \/ Has(<<"throw">>, x)
      BY <2>1, <3>1, ConcatFacts
    <3>5. Attempts \in Seq(S) /\ Followed(Attempts, "msdeploy", "throw")
      BY <2>1, <3>1, <3>2, ConcatFacts
    <3> QED BY <2>2, <3>2, <3>3, <3>4, <3>5
  <2>4. \A x, y : ~ Has(Attempts, x) => Ordered(Attempts, x, y) /\ Followed(Attempts, x, y)
    BY DEF Has, Ordered, Followed
  <2>5. Chain(opts, Attempts)
    BY <2>3, <2>4 DEF Chain, S
  <2>6. Chain(opts, <<"url">> \o Attempts) /\ Has(<<"url">> \o Attempts, "throw")
    BY <2>1, <2>3, <2>5, ChainPadded
  <2>7. Sync = Attempts \/ Sync = <<"url">> \o Attempts
    BY <1>10 DEF Sync
  <2> QED BY <1>10, <2>3, <2>5, <2>6, <2>7 DEF Whole, Final, Posting
<1>11. CASE opts.provider = "container"
  <2>1. Sync = <<"image">> /\ <<"image">> \in Seq(S)
    BY <1>11, ShortSequences DEF Sync, Keys
  <2>2. Chain(opts, <<"image">>)
    BY <2>1, ShortSequences DEF Chain, S
  <2> QED BY <1>11, <2>1, <2>2, ShortSequences DEF Whole, Final, Posting
<1> QED BY <1>1, <1>6, <1>7, <1>8, <1>9, <1>10, <1>11 DEF Provider, Posting


LEMMA OtherSteps ==
  ASSUME opts \in Options
  PROVE  /\ Preparations \subseteq Seq(Others) /\ Startups \subseteq Seq(Others)
         /\ \A read : Configurations(read) \subseteq Seq(Others)
<1>1. opts.provider \in Provider
  BY DEF Options
<1>2. \A a, b, c \in Others :
        << >> \in Seq(Others) /\ <<a>> \in Seq(Others) /\ <<a, b>> \in Seq(Others) /\ <<a, b, c>> \in Seq(Others)
  BY ShortSequences
<1>3. \A s, t \in Seq(Others) : s \o t \in Seq(Others)
  BY ConcatProperties
<1>4. Update \in Seq(Others) /\ <<"settings">> \in Seq(Others) /\ << >> \in Seq(Others)
  BY <1>2 DEF Update, Others
<1>5. \A read : Settings(read) \subseteq Seq(Others)
  BY <1>3, <1>4 DEF Settings
<1>6. Located \subseteq Seq(Others)
  BY <1>2 DEF Located, Others
<1>7. Startups \subseteq Seq(Others)
  BY <1>2 DEF Startups, Others
<1>8. ASSUME NEW read, NEW x \in Configurations(read) PROVE x \in Seq(Others)
  <2>1. <<"patch">> \in Seq(Others)
    BY <1>2 DEF Others
  <2>2. \/ x \in {<< >>} \/ x \in Settings(read)
        \/ x \in {s \o c : s \in {<< >>} \cup Settings(read), c \in {<< >>, <<"patch">>}}
    BY <1>8 DEF Configurations
  <2>3. CASE x \in {s \o c : s \in {<< >>} \cup Settings(read), c \in {<< >>, <<"patch">>}}
    <3>1. PICK s \in {<< >>} \cup Settings(read), c \in {<< >>, <<"patch">>} : x = s \o c
      BY <2>3
    <3>2. s \in Seq(Others) /\ c \in Seq(Others)
      BY <1>4, <1>5, <2>1
    <3> QED BY <1>3, <3>1, <3>2
  <2> QED BY <1>4, <1>5, <2>2, <2>3
<1>9. ASSUME NEW x \in Preparations PROVE x \in Seq(Others)
  <2> DEFINE fresh == {<<"settings">>, <<"settings">> \o Update}
             updating == {<<"settings", "warmup">>, <<"settings">> \o Update}
             located == {l \o s : l \in Located, s \in fresh}
  <2>1. updating \subseteq Seq(Others) /\ fresh \subseteq Seq(Others)
    BY <1>2, <1>3, <1>4 DEF Others
  <2>2. ASSUME NEW l \in Located, NEW s \in fresh PROVE l \o s \in Seq(Others)
    <3>1. l \in Seq(Others) /\ s \in Seq(Others)
      BY <1>6, <2>1
    <3> QED BY <1>3, <3>1
  <2>3. /\ <<"warmup">> \in Seq(Others) /\ <<"throw">> \in Seq(Others)
        /\ <<"settings", "throw">> \in Seq(Others)
    BY <1>2 DEF Others
  <2>4. Settings(FALSE) = fresh
    BY DEF Settings
  <2>5. CASE opts.provider \in {"zip", "runFromZip"}
    <3>1. Preparations = updating
      <4>1. CASE opts.provider = "zip"
        BY <4>1 DEF Preparations
      <4>2. CASE opts.provider = "runFromZip"
        BY <4>2 DEF Preparations
      <4> QED BY <2>5, <4>1, <4>2
    <3> QED BY <1>9, <2>1, <3>1
  <2>6. opts.provider = "war" => Preparations = {<<"warmup">>}
    BY DEF Preparations
  <2>7. opts.provider = "linux" => Preparations = {<<"warmup">>} \cup updating
    BY DEF Preparations
  <2>8. opts.provider = "extract" => Preparations = located
    BY DEF Preparations, Settings
  <2>9. opts.provider = "webDeploy" => Preparations = located \cup {<<"settings", "throw">>}
    BY DEF Preparations, Settings
  <2>10. opts.provider = "profile" => Preparations = {<< >>, <<"throw">>}
    BY DEF Preparations
  <2>11. opts.provider = "container" => Preparations = {<< >>} \cup fresh
    BY DEF Preparations, Settings
  <2>12. ASSUME x \in located PROVE x \in Seq(Others)
    <3>1. PICK l \in Located, s \in fresh : x = l \o s
      BY <2>12
    <3> QED BY <2>2, <3>1
  <2> HIDE DEF fresh, updating, located
  <2>13. CASE opts.provider \in {"war", "linux"}
    BY <1>9, <2>1, <2>3, <2>6, <2>7, <2>13
  <2>14. CASE opts.provider \in {"extract", "webDeploy"}
    BY <1>9, <2>3, <2>8, <2>9, <2>12, <2>14
  <2>15. CASE opts.provider \in {"profile", "container"}
    BY <1>4, <1>9, <2>1, <2>3, <2>10, <2>11, <2>15
  <2> QED BY <1>1, <2>5, <2>13, <2>14, <2>15 DEF Provider, Posting
<1> QED BY <1>7, <1>8, <1>9

LEMMA DeployingIsWhole ==
  ASSUME opts \in Options, NEW t \in Deploying
  PROVE  Whole(opts, t) /\ t # << >>
<1>1. PICK p \in Preparations :
        \E s \in Startups, c \in Configurations(Contains(p, "settings")) : t = p \o Sync \o s \o c
  BY DEF Deploying
<1>2. PICK s \in Startups, c \in Seq(Others) : t = p \o Sync \o s \o c
  BY <1>1, OtherSteps
<1>3. p \in Seq(Others) /\ s \in Seq(Others)
  BY OtherSteps
<1>4. ASSUME NEW m, Whole(opts, m), NEW a \in Seq(Others)
      PROVE  Whole(opts, a \o m) /\ Whole(opts, m \o a)
  BY <1>4, ChainPadded DEF Whole
<1>5. Whole(opts, t)
  <2>1. Whole(opts, p \o Sync)
    BY <1>4, <1>3, SyncIsWhole
  <2>2. Whole(opts, (p \o Sync) \o s)
    BY <1>4, <1>3, <2>1
  <2> QED BY <1>2, <1>4, <2>2
<1>6. t # << >>
  BY <1>5 DEF Whole, Has
<1> QED BY <1>5, <1>6

LEMMA DeploymentStarts ==
  ASSUME NEW o \in Options, NEW t, Whole(o, t), NEW d, d = << >>, NEW off, ~ off
  PROVE  DeployOK(o, t, d, off)
BY DEF Whole, DeployOK, Runs

------------------------------------------------------------------------------
(* What a request does to the rest of its deployment.                      *)

LEMMA ProviderKeys ==
  ASSUME NEW o \in Options, NEW x \in Others \cup Keys(o.provider)
  PROVE  /\ x \in Follow => o.provider \in Posting
         /\ x \in {"poll", "details"} => o.provider \in Posting \ {"runFromZip"}
         /\ x \in Shelter => o.provider \in {"zip", "extract"}
         /\ x = "extract" => o.provider = "extract"
         /\ x = "msdeploy" => o.provider \in {"webDeploy", "profile"}
         /\ x = "image" => o.provider = "container"
<1>1. o.provider \in Provider
  BY DEF Options
<1> QED BY <1>1 DEF Keys, Others, Shelter, Follow, Provider, Posting

LEMMA ChainSuffix ==
  ASSUME NEW o, NEW t, Chain(o, t), NEW k \in 0 .. Len(t), NEW u, u = SubSeq(t, k + 1, Len(t))
  PROVE  Chain(o, u)
<1>1. PICK S : S = Others \cup Keys(o.provider)
  OBVIOUS
<1>2. t \in Seq(S)
  BY <1>1 DEF Chain
<1>3. u \in Seq(S)
  BY <1>2, SuffixElements
<1>4. ASSUME NEW x PROVE Has(u, x) => Has(t, x)
  BY <1>2, SuffixHas
<1>5. ASSUME NEW x, NEW y PROVE Ordered(t, x, y) => Ordered(u, x, y)
  BY <1>2, SuffixOrdered
<1>6. ASSUME NEW x, NEW y PROVE Followed(t, x, y) => Followed(u, x, y)
  BY <1>2, SuffixFollowed
<1> QED BY <1>1, <1>3, <1>4, <1>5, <1>6 DEF Chain

LEMMA ChainRest ==
  ASSUME NEW o \in Options, NEW t, Chain(o, t), t # << >>
  PROVE  /\ Chain(o, Tail(t)) /\ t[1] \in Others \cup Keys(o.provider)
         /\ \A x : Has(Tail(t), x) => Has(t, x)
         /\ \A x : Has(t, x) /\ t[1] # x => Has(Tail(t), x)
<1>1. t \in Seq(Others \cup Keys(o.provider))
  BY DEF Chain
<1> QED BY <1>1, TailFacts DEF Chain

(* Requests that have nothing to do with the package.                      *)
LEMMA OtherOver ==
  ASSUME NEW o \in Options, NEW t, NEW d, NEW off, DeployOK(o, t, d, off), t # << >>,
         t[1] \in Others, t[1] # "throw"
  PROVE  DeployOK(o, Tail(t), d, off)
<1>1. \A x \in Shelter \cup Follow \cup {"extract", "msdeploy", "image", "throw"} :
        Has(Tail(t), x) <=> Has(t, x)
  BY ChainRest DEF DeployOK, Others, Shelter, Follow
<1>2. o.provider \in Provider
  BY DEF Options
<1>3. Final(o.provider) \in Shelter \cup Follow \cup {"extract", "msdeploy", "image", "throw"}
  BY <1>2 DEF Final, Provider, Posting, Follow
<1>4. Chain(o, Tail(t))
  BY ChainRest DEF DeployOK
<1> QED BY <1>1, <1>3, <1>4 DEF DeployOK, Shelter, Follow

LEMMA FinalKey ==
  ASSUME NEW o \in Options
  PROVE  /\ Final(o.provider) \notin Shelter /\ Final(o.provider) # "poll"
         /\ o.provider \in Posting \ {"runFromZip"} => Final(o.provider) = "details"
         /\ o.provider = "runFromZip" => Final(o.provider) = "post"
         /\ o.provider = "extract" => Final(o.provider) = "extract"
         /\ o.provider \in {"webDeploy", "profile"} => Final(o.provider) = "throw"
         /\ o.provider = "container" => Final(o.provider) = "image"
<1>1. o.provider \in Provider
  BY DEF Options
<1> QED BY <1>1 DEF Final, Provider, Posting, Shelter

(* The site goes offline, and comes online again when nothing runs.        *)
LEMMA ShelterOver ==
  ASSUME NEW o \in Options, NEW t, NEW d, NEW off, DeployOK(o, t, d, off), t # << >>
  PROVE  /\ t[1] = "offline" =>
              o.offline /\ DeployOK(o, t, d, TRUE) /\ DeployOK(o, Tail(t), d, TRUE)
         /\ t[1] = "online" =>
              /\ DeployOK(o, t, d, FALSE) /\ DeployOK(o, Tail(t), d, FALSE)
              /\ o.provider = "zip" => ~ Runs(d)
<1>1. /\ Chain(o, Tail(t)) /\ t[1] \in Others \cup Keys(o.provider)
      /\ \A x : Has(Tail(t), x) => Has(t, x)
      /\ \A x : Has(t, x) /\ t[1] # x => Has(Tail(t), x)
  BY ChainRest DEF DeployOK
<1>2. t \in Seq(Others \cup Keys(o.provider)) /\ Chain(o, t)
  BY DEF DeployOK, Chain
<1>3. Has(t, t[1])
  <2>1. 1 \in DOMAIN t
    BY <1>2, LenProperties, EmptySeq
  <2> QED BY <2>1 DEF Has
<1>4. CASE t[1] = "offline"
  <2>1. Has(Tail(t), "online") /\ Has(t, "online") /\ o.offline
    BY <1>1, <1>2, <1>3, <1>4, TailFacts DEF Chain
  <2>2. \A x : x # "offline" => (Has(Tail(t), x) <=> Has(t, x))
    BY <1>1, <1>4
  <2>3. Final(o.provider) # "offline"
    BY FinalKey DEF Shelter
  <2> QED BY <1>1, <1>4, <2>1, <2>2, <2>3 DEF DeployOK
<1>5. CASE t[1] = "online"
  <2>1. o.provider \in {"zip", "extract"}
    BY <1>1, <1>5, ProviderKeys DEF Shelter
  <2>2. \A x : x # "online" => (Has(Tail(t), x) <=> Has(t, x))
    BY <1>1, <1>5
  <2>3. o.provider = "zip" => ~ Has(t, "poll") /\ ~ Has(t, "post") /\ ~ Runs(d)
    <3>1. ~ Has(t, "poll")
      BY <1>2, <1>5, TailFacts DEF Chain
    <3> QED BY <3>1 DEF DeployOK, Posting
  <2>4. Final(o.provider) # "online"
    BY FinalKey DEF Shelter
  <2> QED BY <1>1, <1>5, <2>1, <2>2, <2>3, <2>4 DEF DeployOK
<1> QED BY <1>4, <1>5


Deployment == {"running", "good", "bad"}

LEMMA Appended ==
  ASSUME NEW d \in Seq(Deployment), NEW x \in Deployment, NEW e, e = Append(d, x)
  PROVE  /\ e \in Seq(Deployment) /\ Len(e) = Len(d) + 1 /\ e # << >> /\ Last(e) = x
         /\ DOMAIN e = DOMAIN d \cup {Len(e)}
         /\ \A i \in DOMAIN d : e[i] = d[i] /\ i < Len(e)
         /\ \A i \in DOMAIN d : i = Len(d) \/ i < Len(d)
<1>1. e \in Seq(Deployment) /\ Len(e) = Len(d) + 1 /\ e # << >> /\ e[Len(d) + 1] = x
      /\ \A i \in 1 .. Len(d) : e[i] = d[i]
  BY AppendProperties
<1>2. Len(d) \in Nat /\ DOMAIN d = 1 .. Len(d) /\ DOMAIN e = 1 .. Len(e)
  BY <1>1, LenProperties
<1>3. Last(e) = x
  BY <1>1 DEF Last
<1> QED BY <1>1, <1>2, <1>3

LEMMA HasEnded ==
  ASSUME NEW d \in Seq(Deployment), NEW i \in DOMAIN d, d[i] = "running",
         NEW x \in {"good", "bad"}, NEW e, e = [d EXCEPT ![i] = x]
  PROVE  /\ e \in Seq(Deployment) /\ Len(e) = Len(d) /\ DOMAIN e = DOMAIN d /\ d # << >> /\ e # << >>
         /\ \A j \in DOMAIN e : e[j] = "running" => d[j] = "running"
         /\ Runs(e) => Runs(d)
         /\ Over(d) => Over(e)
<1>1. x \in Deployment /\ DOMAIN d = 1 .. Len(d) /\ Len(d) \in Nat /\ i \in 1 .. Len(d)
  BY LenProperties DEF Deployment
<1>2. /\ e \in Seq(Deployment) /\ Len(e) = Len(d)
      /\ \A j \in 1 .. Len(d) : e[j] = IF j = i THEN x ELSE d[j]
  BY <1>1, ExceptSeq
<1>3. DOMAIN e = DOMAIN d
  OBVIOUS
<1>4. Len(d) # 0
  BY <1>1
<1>5. d # << >> /\ e # << >>
  BY <1>2, <1>4, EmptySeq
<1>6. Len(d) \in DOMAIN d
  BY <1>1, <1>4
<1> QED BY <1>1, <1>2, <1>3, <1>5, <1>6 DEF Runs, Over, Last

LEMMA FirstIsThere ==
  ASSUME NEW o, NEW t, Chain(o, t), t # << >>
  PROVE  Has(t, t[1]) /\ t \in Seq(Others \cup Keys(o.provider))
<1>1. t \in Seq(Others \cup Keys(o.provider))
  BY DEF Chain
<1>2. 1 \in DOMAIN t
  BY <1>1, LenProperties, EmptySeq
<1> QED BY <1>1, <1>2 DEF Has

(* The package is posted, its deployment polled and read.                  *)
LEMMA PostAccepted ==
  ASSUME NEW o \in Options, NEW t, NEW d \in Seq(Deployment), NEW off, DeployOK(o, t, d, off),
         t # << >>, t[1] = "post", NEW e, e = Append(d, "running")
  PROVE  /\ o.provider = "zip" /\ o.offline => off
         /\ DeployOK(o, t, e, off)
         /\ o.provider # "runFromZip" => DeployOK(o, Tail(t), e, off)
         /\ Over(d) => DeployOK(o, Tail(t), d, off)
<1>1. /\ Chain(o, t) /\ Chain(o, Tail(t)) /\ o.provider \in Posting
      /\ \A x : x # "post" => (Has(Tail(t), x) <=> Has(t, x))
      /\ Has(t, "post") /\ t \in Seq(Others \cup Keys(o.provider))
  <2>1. t[1] \in Others \cup Keys(o.provider) => o.provider \in Posting
    BY ProviderKeys DEF Follow
  <2> QED BY <2>1, ChainRest, FirstIsThere DEF DeployOK
<1>2. ~ Has(t, "offline")
  BY <1>1, TailFacts DEF Chain
<1>3. e # << >>
  BY Appended DEF Deployment
<1>4. o.provider \in Posting \ {"runFromZip"} => Has(t, "poll") /\ Has(t, "details")
  BY <1>1 DEF DeployOK
<1>5. Has(Tail(t), "post") => Has(t, "post")
  BY <1>1
<1>6. Over(d) => d # << >> /\ ~ Runs(d)
  BY DEF Over, Runs
<1> QED BY <1>1, <1>2, <1>3, <1>4, <1>5, <1>6, FinalKey DEF DeployOK, Posting

LEMMA PollOver ==
  ASSUME NEW o \in Options, NEW t, NEW d, NEW off, DeployOK(o, t, d, off), t # << >>,
         t[1] = "poll", ~ Runs(d)
  PROVE  DeployOK(o, Tail(t), d, off)
<1>1. /\ Chain(o, t) /\ Chain(o, Tail(t)) /\ o.provider \in Posting \ {"runFromZip"}
      /\ \A x : x # "poll" => (Has(Tail(t), x) <=> Has(t, x))
      /\ t \in Seq(Others \cup Keys(o.provider))
  <2>1. t[1] \in Others \cup Keys(o.provider) => o.provider \in Posting \ {"runFromZip"}
    BY ProviderKeys
  <2> QED BY <2>1, ChainRest, FirstIsThere DEF DeployOK
<1>2. ~ Has(t, "post")
  BY <1>1, TailFacts DEF Chain
<1> QED BY <1>1, <1>2, FinalKey DEF DeployOK

LEMMA DetailsOver ==
  ASSUME NEW o \in Options, NEW t, NEW d \in Seq(Deployment), NEW off, DeployOK(o, t, d, off),
         t # << >>, t[1] = "details", Last(d) # "bad"
  PROVE  DeployOK(o, Tail(t), d, off)
<1>1. /\ Chain(o, t) /\ Chain(o, Tail(t)) /\ o.provider \in Posting \ {"runFromZip"}
      /\ \A x : x # "details" => (Has(Tail(t), x) <=> Has(t, x))
      /\ t \in Seq(Others \cup Keys(o.provider))
  <2>1. t[1] \in Others \cup Keys(o.provider) => o.provider \in Posting \ {"runFromZip"}
    BY ProviderKeys
  <2> QED BY <2>1, ChainRest, FirstIsThere DEF DeployOK
<1>2. ~ Has(t, "post") /\ ~ Has(t, "poll")
  BY <1>1, TailFacts DEF Chain
<1>3. d # << >> /\ ~ Runs(d)
  BY <1>1, <1>2 DEF DeployOK
<1>4. Over(d)
  <2>1. Len(d) \in 1 .. Len(d)
    BY <1>3, LenProperties, EmptySeq
  <2> QED BY <1>3, <2>1, ElementOfSeq DEF Over, Runs, Last, Deployment
<1> QED BY <1>1, <1>2, <1>3, <1>4 DEF DeployOK

(* A package is extracted, or an image is set.                             *)
LEMMA ExtractOver ==
  ASSUME NEW o \in Options, NEW t, NEW d \in Seq(Deployment), NEW off, DeployOK(o, t, d, off),
         t # << >>, t[1] = "extract"
  PROVE  /\ DeployOK(o, t, Append(d, "running"), off)
         /\ Over(d) => DeployOK(o, Tail(t), d, off)
<1>1. /\ Chain(o, t) /\ Chain(o, Tail(t)) /\ o.provider = "extract"
      /\ \A x : x # "extract" => (Has(Tail(t), x) <=> Has(t, x))
      /\ Has(t, "extract")
  <2>1. t[1] \in Others \cup Keys(o.provider) => o.provider = "extract"
    BY ProviderKeys
  <2> QED BY <2>1, ChainRest, FirstIsThere DEF DeployOK
<1> QED BY <1>1, FinalKey DEF DeployOK, Posting

LEMMA ImageOver ==
  ASSUME NEW o \in Options, NEW t, NEW d \in Seq(Deployment), NEW off, DeployOK(o, t, d, off),
         t # << >>, t[1] = "image", NEW e, e = Append(d, "good")
  PROVE  DeployOK(o, t, e, off) /\ DeployOK(o, Tail(t), e, off)
<1>1. /\ Chain(o, t) /\ Chain(o, Tail(t)) /\ o.provider = "container"
      /\ \A x : x # "image" => (Has(Tail(t), x) <=> Has(t, x))
  <2>1. t[1] \in Others \cup Keys(o.provider) => o.provider = "container"
    BY ProviderKeys
  <2> QED BY <2>1, ChainRest DEF DeployOK
<1>2. Over(e)
  BY Appended DEF Deployment, Over
<1> QED BY <1>1, <1>2 DEF DeployOK, Posting

(* A run of msdeploy ends; u is what is left after a good one, and s comes *)
(* before the next attempt.                                                *)
LEMMA AttemptOver ==
  ASSUME NEW o \in Options, NEW t, NEW d \in Seq(Deployment), NEW off, DeployOK(o, t, d, off),
         t # << >>, t[1] = "msdeploy"
  PROVE  /\ \A k \in 0 .. Len(t) : DeployOK(o, SubSeq(t, k + 1, Len(t)), Append(d, "good"), off)
         /\ \A s \in Seq(Others) : DeployOK(o, s \o Tail(t), Append(d, "bad"), off)
<1>1. /\ Chain(o, t) /\ Chain(o, Tail(t)) /\ o.provider \in {"webDeploy", "profile"}
      /\ t \in Seq(Others \cup Keys(o.provider))
  <2>1. t[1] \in Others \cup Keys(o.provider) => o.provider \in {"webDeploy", "profile"}
    BY ProviderKeys
  <2> QED BY <2>1, ChainRest, FirstIsThere DEF DeployOK
<1>2. ~ off
  <2>1. Has(t, "online") => "online" \in Others \cup Keys(o.provider)
    BY <1>1, LenProperties, ElementOfSeq DEF Has
  <2>2. "online" \notin Others \cup Keys(o.provider)
    BY <1>1, ProviderKeys DEF Shelter
  <2> QED BY <2>1, <2>2 DEF DeployOK
<1>3. o.provider \notin Posting /\ Final(o.provider) = "throw"
  BY <1>1, FinalKey DEF Posting
<1>4. ASSUME NEW k \in 0 .. Len(t) PROVE DeployOK(o, SubSeq(t, k + 1, Len(t)), Append(d, "good"), off)
  <2>1. Chain(o, SubSeq(t, k + 1, Len(t)))
    BY <1>1, ChainSuffix
  <2>2. Over(Append(d, "good"))
    BY Appended DEF Deployment, Over
  <2> QED BY <1>1, <1>2, <1>3, <2>1, <2>2 DEF DeployOK, Posting
<1>5. ASSUME NEW s \in Seq(Others) PROVE DeployOK(o, s \o Tail(t), Append(d, "bad"), off)
  <2>1. Has(Tail(t), "throw")
    BY <1>1, TailFacts DEF Chain
  <2>2. Chain(o, s \o Tail(t)) /\ Has(s \o Tail(t), "throw")
    BY <1>1, <2>1, ChainPadded
  <2> QED BY <1>1, <1>2, <1>3, <2>2 DEF DeployOK, Posting
<1> QED BY <1>4, <1>5

LEMMA EndingKeeps ==
  ASSUME NEW o, NEW t, NEW d \in Seq(Deployment), NEW off, DeployOK(o, t, d, off),
         NEW i \in DOMAIN d, d[i] = "running", NEW x \in {"good", "bad"}
  PROVE  DeployOK(o, t, [d EXCEPT ![i] = x], off)
<1>1. /\ [d EXCEPT ![i] = x] # << >>
      /\ Runs([d EXCEPT ![i] = x]) => Runs(d)
      /\ Over(d) => Over([d EXCEPT ![i] = x])
  BY HasEnded
<1> QED BY <1>1 DEF DeployOK


------------------------------------------------------------------------------
(* The phases.                                                             *)

Active == {"offline", "online", "post", "extract", "image", "command"}

(* A request that does nothing to the site, nor is waited for, is over.    *)
LEMMA RestGood ==
  ASSUME NEW p, NEW o \in Options, NEW t, NEW d, NEW off, NEW sc, NEW th, NEW fl,
         Good(p, o, t, d, off, sc, th, fl), t # << >>,
         t[1] \notin Shelter \cup Follow \cup {"extract", "image", "msdeploy", "throw", "logs"}
  PROVE  Good(p, o, Tail(t), d, off, sc, th, fl)
<1>1. ASSUME NEW S, t \in Seq(S)
      PROVE  /\ Tail(t) \in Seq(S)
             /\ \A x : Has(Tail(t), x) => Has(t, x)
             /\ \A x : Has(t, x) /\ t[1] # x => Has(Tail(t), x)
  BY <1>1, TailFacts
<1>2. ASSUME p = "deploy" PROVE DeployOK(o, Tail(t), d, off)
  <2>1. DeployOK(o, t, d, off)
    BY <1>2 DEF Good
  <2>2. t[1] \in Others \cup Keys(o.provider)
    BY <2>1, ChainRest DEF DeployOK
  <2>3. t[1] \in Others
    BY <2>2, KeysAreOther
  <2> QED BY <2>1, <2>3, OtherOver
<1>3. ASSUME p = "script" PROVE Has(t, "offline") \/ ~ Has(Tail(t), "offline")
  BY <1>1, <1>3 DEF Good
<1>4. ASSUME p = "script", Has(t, "logs") PROVE Has(Tail(t), "logs")
  BY <1>1, <1>4 DEF Good
<1>5. ASSUME p = "cleanup", Has(t, "online") PROVE Has(Tail(t), "online")
  BY <1>1, <1>5 DEF Good, Shelter
<1> QED BY <1>1, <1>2, <1>3, <1>4, <1>5 DEF Good

LEMMA StatusType ==
  ASSUME opts \in Options, NEW request, NEW success
  PROVE  StatusSteps(request, success) \in Seq(StatusNames)
<1>1. \A a, b, c \in StatusNames : << >> \in Seq(StatusNames) /\ <<a>> \in Seq(StatusNames) /\ <<a, b>> \in Seq(StatusNames)
  BY ShortSequences
<1>2. \A s, t \in Seq(StatusNames) : s \o t \in Seq(StatusNames)
  BY ConcatProperties
<1>3. /\ << >> \in Seq(StatusNames) /\ <<"url">> \in Seq(StatusNames) /\ <<"manifest">> \in Seq(StatusNames)
      /\ <<"annotation", "url">> \in Seq(StatusNames) /\ <<"annotation", "history">> \in Seq(StatusNames)
  BY <1>1 DEF StatusNames
<1> DEFINE url == IF ProfileUnread THEN <<"url">> ELSE << >>
           more == IF success /\ opts.provider \in Posting \ {"runFromZip"} THEN <<"manifest">> ELSE << >>
<1>4. url \in Seq(StatusNames) /\ more \in Seq(StatusNames)
  BY <1>3
<1>5. <<"annotation", "history">> \o url \o more \in Seq(StatusNames)
  <2> HIDE DEF url, more
  <2>1. <<"annotation", "history">> \o url \in Seq(StatusNames)
    BY <1>2, <1>3, <1>4
  <2> QED BY <1>2, <1>4, <2>1
<1>6. \/ StatusSteps(request, success) \in {<< >>, <<"annotation", "url">>, <<"url">>}
      \/ StatusSteps(request, success) = <<"annotation", "history">> \o url \o more
  BY DEF StatusSteps
<1> QED BY <1>3, <1>5, <1>6

LEMMA NamesAreRequests ==
  /\ PreNames \cup ScriptNames \cup CleanupNames \cup StatusNames \cup {"scm"} \subseteq Requests
  /\ \A o \in Options : Others \cup Keys(o.provider) \subseteq Requests
<1>1. ASSUME NEW o \in Options PROVE Others \cup Keys(o.provider) \subseteq Requests
  BY <1>1, KeysAreOther DEF Others, Shelter, Follow, Requests
<1>2. PreNames \cup ScriptNames \cup CleanupNames \cup StatusNames \cup {"scm"} \subseteq Requests
  BY DEF PreNames, ScriptNames, CleanupNames, StatusNames, Requests
<1> QED BY <1>1, <1>2

LEMMA ShelteredFacts ==
  ASSUME NEW request, NEW S, request \in S
  PROVE  /\ Sheltered(request) \in Seq(S)
         /\ \A x : Has(Sheltered(request), x) <=> x = request /\ opts.offline
BY ShortSequences DEF Sheltered

LEMMA ScriptBegins ==
  ASSUME opts \in Options, NEW t \in Steps("script")
  PROVE  /\ t \in Seq(ScriptNames) /\ t # << >> /\ Has(t, "logs")
         /\ Has(t, "offline") => opts.offline
<1> DEFINE script == <<"upload", "upload", "command", "logs">>
           off == Sheltered("offline")
<1>1. t = off \o script
  BY DEF Steps
<1>2. off \in Seq(ScriptNames) /\ \A x : Has(off, x) <=> x = "offline" /\ opts.offline
  <2>1. "offline" \in ScriptNames
    BY DEF ScriptNames
  <2> QED BY <2>1, ShelteredFacts
<1>3. script \in Seq(ScriptNames) /\ Has(script, "logs") /\ ~ Has(script, "offline")
  <2>1. /\ DOMAIN script = 1 .. 4 /\ script[1] = "upload" /\ script[2] = "upload"
        /\ script[3] = "command" /\ script[4] = "logs"
    OBVIOUS
  <2>2. script \in Seq(ScriptNames)
    BY DEF ScriptNames
  <2> HIDE DEF script
  <2> QED BY <2>1, <2>2 DEF Has
<1> HIDE DEF script, off
<1>4. t \in Seq(ScriptNames) /\ \A x : Has(t, x) <=> Has(off, x) \/ Has(script, x)
  BY <1>1, <1>2, <1>3, ConcatFacts
<1>5. t # << >>
  BY <1>3, <1>4, ShortSequences
<1> QED BY <1>2, <1>3, <1>4, <1>5

LEMMA CleanupBegins ==
  ASSUME NEW t \in Steps("cleanup")
  PROVE  t \in Seq(CleanupNames) /\ t # << >> /\ (opts.offline => Has(t, "online"))
<1> DEFINE clean == <<"uploadDelete", "deleteLogs", "deleteFolder">>
           on == Sheltered("online")
<1>1. t = clean \o on
  BY DEF Steps
<1>2. on \in Seq(CleanupNames) /\ \A x : Has(on, x) <=> x = "online" /\ opts.offline
  <2>1. "online" \in CleanupNames
    BY DEF CleanupNames
  <2> QED BY <2>1, ShelteredFacts
<1>3. clean \in Seq(CleanupNames) /\ Has(clean, "uploadDelete")
  <2>1. DOMAIN clean = 1 .. 3 /\ clean[1] = "uploadDelete"
    OBVIOUS
  <2>2. clean \in Seq(CleanupNames)
    BY ShortSequences DEF CleanupNames
  <2> HIDE DEF clean
  <2> QED BY <2>1, <2>2 DEF Has
<1> HIDE DEF clean, on
<1>4. t \in Seq(CleanupNames) /\ \A x : Has(t, x) <=> Has(clean, x) \/ Has(on, x)
  BY <1>1, <1>2, <1>3, ConcatFacts
<1>5. t # << >>
  BY <1>3, <1>4, ShortSequences
<1> QED BY <1>2, <1>3, <1>4, <1>5


------------------------------------------------------------------------------
(* The control: to the next request, to the next phase, or to a handler.   *)

Counters ==
  /\ tries' \in 0 .. RetryCount - 1 /\ repeats' \in 0 .. KuduRetries
  /\ polls' \in Nat /\ (polls' < FilePolls \/ polls' < MonitorPolls)

LEMMA NewRequestOK ==
  ASSUME NewRequest
  PROVE  Counters /\ own' = 0 /\ opts' = opts
BY RetryAssumption, WebAppAssumption DEF NewRequest, Counters

(* The end of the task's phases, with a result of its own or not.          *)
Reached ==
  /\ phase' \in {"pre", "deploy", "script", "cleanup", "finish", "status", "ended"}
  /\ todo' \in Seq(Requests) /\ (todo' = << >> <=> phase' = "ended")
  /\ failed' \in BOOLEAN
  /\ Good(phase', opts, todo', deployments', offline', scripts', thrown', failed')

LEMMA ReportOK ==
  ASSUME opts \in Options, NEW success \in BOOLEAN, Report(success),
         scripts' # << >> => Over(deployments'),
         success => Over(deployments') /\ ~ offline' /\ (opts.script => Ran(scripts'))
  PROVE  Reached
<1> DEFINE steps == StatusSteps(todo[1], success)
<1>1. steps \in Seq(StatusNames)
  BY StatusType
<1>2. phase' = (IF steps = << >> THEN "ended" ELSE "status") /\ todo' = steps /\ failed' = ~ success
  BY DEF Report
<1> HIDE DEF steps
<1>3. steps \in Seq(Requests)
  BY <1>1, NamesAreRequests, SeqMonotonic
<1>4. phase' \in {"status", "ended"} /\ (phase' = "ended" <=> todo' = << >>) /\ todo' \in Seq(StatusNames)
  BY <1>1, <1>2
<1> QED BY <1>2, <1>3, <1>4 DEF Reached, Good

LEMMA EndOK ==
  ASSUME End, failed \in BOOLEAN, UNCHANGED thrown, phase = "status", NEW t,
         Good(phase, opts, t, deployments', offline', scripts', thrown, failed)
  PROVE  Reached
<1>1. << >> \in Seq(Requests) /\ << >> \in Seq(StatusNames)
  BY EmptySeq
<1> QED BY <1>1 DEF End, Reached, Good

LEMMA NothingLeft ==
  ASSUME NEW x
  PROVE  ~ Has(<< >>, x)
BY ShortSequences

LEMMA LeaveOK ==
  ASSUME ControlType, Leave, UNCHANGED thrown, offline' \in BOOLEAN, offline' => opts.offline,
         Good(phase, opts, << >>, deployments', offline', scripts', thrown, failed)
  PROVE  Reached
<1>1. opts \in Options /\ failed \in BOOLEAN /\ thrown \in BOOLEAN
  BY DEF ControlType
<1>2. CASE phase = "pre" /\ Begin("deploy")
  <2>1. todo' \in Deploying /\ phase' = "deploy" /\ failed' = failed
    BY <1>2 DEF Begin, Steps
  <2>2. Whole(opts, todo') /\ todo' # << >>
    BY <1>1, <2>1, DeployingIsWhole
  <2>3. todo' \in Seq(Requests)
    BY <1>1, <2>2, NamesAreRequests, SeqMonotonic DEF Whole, Chain
  <2>4. DeployOK(opts, todo', deployments', offline')
    BY <1>1, <1>2, <2>2, DeploymentStarts DEF Good
  <2> QED BY <1>1, <1>2, <2>1, <2>2, <2>3, <2>4 DEF Reached, Good
<1>3. CASE phase = "deploy"
  <2>1. /\ DeployOK(opts, << >>, deployments', offline')
        /\ scripts' = << >> /\ ~ thrown /\ ~ failed
    BY <1>3 DEF Good
  <2>2. Over(deployments') /\ ~ offline'
    BY <2>1, NothingLeft DEF DeployOK
  <2>3. CASE opts.script /\ Begin("script")
    <3>1. todo' \in Steps("script") /\ phase' = "script" /\ failed' = failed
      BY <2>3 DEF Begin
    <3>2. /\ todo' \in Seq(ScriptNames) /\ todo' # << >> /\ Has(todo', "logs")
          /\ Has(todo', "offline") => opts.offline
      BY <1>1, <3>1, ScriptBegins
    <3>3. todo' \in Seq(Requests)
      BY <3>2, NamesAreRequests, SeqMonotonic
    <3> QED BY <1>1, <2>1, <2>2, <3>1, <3>2, <3>3 DEF Reached, Good
  <2>4. CASE ~ opts.script /\ Begin("finish")
    <3>1. todo' = <<"scm">> /\ phase' = "finish" /\ failed' = failed
      BY <2>4 DEF Begin, Steps
    <3>2. <<"scm">> \in Seq({"scm"}) /\ <<"scm">> \in Seq(Requests) /\ <<"scm">> # << >>
      BY DEF Requests
    <3> QED BY <1>1, <2>1, <2>2, <2>4, <3>1, <3>2 DEF Reached, Good
  <2>5. CASE opts.provider = "profile" /\ Report(TRUE)
    <3>1. ~ opts.script
      BY <1>1, <2>5 DEF Options
    <3> QED BY <1>1, <2>1, <2>2, <2>5, <3>1, ReportOK
  <2> QED BY <1>3, <2>3, <2>4, <2>5 DEF Leave
<1>4. CASE phase = "script" /\ Begin("cleanup")
  <2>1. Over(deployments') /\ Ran(scripts') /\ ~ thrown /\ ~ failed
    BY <1>4, NothingLeft DEF Good
  <2>2. todo' \in Steps("cleanup") /\ phase' = "cleanup" /\ failed' = failed
    BY <1>4 DEF Begin
  <2>3. todo' \in Seq(CleanupNames) /\ todo' # << >> /\ (opts.offline => Has(todo', "online"))
    BY <2>2, CleanupBegins
  <2>4. todo' \in Seq(Requests)
    BY <2>3, NamesAreRequests, SeqMonotonic
  <2> QED BY <1>1, <2>1, <2>2, <2>3, <2>4 DEF Reached, Good
<1>5. CASE phase = "cleanup"
  <2>1. Over(deployments') /\ ~ offline' /\ (thrown \/ Ran(scripts')) /\ ~ failed
    BY <1>5, NothingLeft DEF Good
  <2>2. CASE thrown /\ Report(FALSE)
    BY <1>1, <2>1, <2>2, ReportOK
  <2>3. CASE ~ thrown /\ Begin("finish")
    <3>1. todo' = <<"scm">> /\ phase' = "finish" /\ failed' = failed
      BY <2>3 DEF Begin, Steps
    <3>2. <<"scm">> \in Seq({"scm"}) /\ <<"scm">> \in Seq(Requests) /\ <<"scm">> # << >>
      BY DEF Requests
    <3> QED BY <1>1, <2>1, <2>3, <3>1, <3>2 DEF Reached, Good
  <2> QED BY <1>5, <2>2, <2>3 DEF Leave
<1>6. CASE phase = "finish" /\ Report(TRUE)
  <2>1. Over(deployments') /\ ~ offline' /\ (opts.script => Ran(scripts'))
    BY <1>6 DEF Good
  <2> QED BY <1>1, <1>6, <2>1, ReportOK
<1>7. CASE phase = "status" /\ End
  BY <1>1, <1>7, EndOK
<1> QED BY <1>2, <1>3, <1>4, <1>5, <1>6, <1>7 DEF Leave

LEMMA ContinueOK ==
  ASSUME ControlType, phase # "ended", NEW t, t \in Seq(Requests), Continue(t),
         offline' \in BOOLEAN, offline' => opts.offline,
         Good(phase, opts, t, deployments', offline', scripts', thrown, failed)
  PROVE  Counters /\ own' = 0 /\ opts' = opts /\ thrown' = thrown /\ Reached
<1>1. Counters /\ own' = 0 /\ opts' = opts /\ thrown' = thrown
  BY NewRequestOK DEF Continue
<1>2. CASE t = << >>
  BY <1>1, <1>2, LeaveOK DEF Continue
<1>3. CASE t # << >>
  BY <1>1, <1>3 DEF Continue, Reached, ControlType
<1> QED BY <1>1, <1>2, <1>3

LEMMA RaiseOK ==
  ASSUME ControlType, Raise, offline' \in BOOLEAN, offline' => opts.offline,
         Good(phase, opts, todo, deployments', offline', scripts', thrown, failed)
  PROVE  Counters /\ own' = 0 /\ opts' = opts /\ thrown' \in BOOLEAN /\ Reached
<1>1. Counters /\ own' = 0 /\ opts' = opts
  BY NewRequestOK DEF Raise
<1>2. opts \in Options /\ failed \in BOOLEAN /\ thrown \in BOOLEAN
  BY DEF ControlType
<1>3. CASE phase = "script" /\ thrown' = TRUE
  <2>1. Over(deployments') /\ ~ failed
    BY <1>3 DEF Good
  <2>2. CASE todo' = <<"online">> /\ phase' = "cleanup" /\ failed' = failed
    <3>1. /\ <<"online">> \in Seq(CleanupNames) /\ <<"online">> \in Seq(Requests)
          /\ <<"online">> # << >>
      BY DEF CleanupNames, Requests
    <3>2. Has(<<"online">>, "online")
      BY ShortSequences
    <3> QED BY <1>1, <1>2, <1>3, <2>1, <2>2, <3>1, <3>2 DEF Reached, Good
  <2>3. CASE Begin("cleanup")
    <3>1. todo' \in Steps("cleanup") /\ phase' = "cleanup" /\ failed' = failed
      BY <2>3 DEF Begin
    <3>2. todo' \in Seq(CleanupNames) /\ todo' # << >> /\ (opts.offline => Has(todo', "online"))
      BY <3>1, CleanupBegins
    <3>3. todo' \in Seq(Requests)
      BY <3>2, NamesAreRequests, SeqMonotonic
    <3> QED BY <1>1, <1>2, <1>3, <2>1, <3>1, <3>2, <3>3 DEF Reached, Good
  <2> QED BY <1>3, <2>2, <2>3 DEF Raise
<1>4. CASE phase \in {"pre", "deploy", "cleanup"} /\ Report(FALSE) /\ UNCHANGED thrown
  <2>1. scripts' # << >> => Over(deployments')
    BY <1>4 DEF Good
  <2> QED BY <1>1, <1>2, <1>4, <2>1, ReportOK
<1>5. CASE phase = "status" /\ End /\ UNCHANGED thrown
  BY <1>1, <1>2, <1>5, EndOK
<1> QED BY <1>1, <1>3, <1>4, <1>5 DEF Raise


------------------------------------------------------------------------------
(* The site and the requests that act on it.                               *)

(* What is true of the site after a step.                                  *)
SiteNext ==
  /\ offline' \in BOOLEAN /\ deployments' \in Seq({"running", "good", "bad"})
  /\ scripts' \in Seq({"running"} \cup Outcome) /\ output' \in {"none"} \cup Outcome
  /\ Site(opts, deployments', offline', scripts', output')

LEMMA ScriptAppended ==
  ASSUME NEW sc \in Seq({"running"} \cup Outcome), NEW e, e = Append(sc, "running")
  PROVE  /\ e \in Seq({"running"} \cup Outcome) /\ Len(e) = Len(sc) + 1 /\ e # << >>
         /\ \A i \in DOMAIN sc : i \in DOMAIN e /\ e[i] = sc[i]
         /\ Ran(sc) => Ran(e)
<1>1. "running" \in {"running"} \cup Outcome
  OBVIOUS
<1>2. /\ e \in Seq({"running"} \cup Outcome) /\ Len(e) = Len(sc) + 1 /\ e # << >>
      /\ \A i \in 1 .. Len(sc) : e[i] = sc[i]
  BY <1>1, AppendProperties
<1>3. Len(sc) \in Nat /\ DOMAIN sc = 1 .. Len(sc) /\ DOMAIN e = 1 .. Len(e)
  BY <1>2, LenProperties
<1> QED BY <1>2, <1>3 DEF Ran

LEMMA BusyRuns == Busy <=> Runs(deployments)
BY DEF Busy, Runs

(* The first request of a phase is one of its requests.                    *)
LEMMA FirstRequest ==
  ASSUME IInv, todo # << >>
  PROVE  /\ phase # "ended" /\ todo[1] \in Requests /\ Tail(todo) \in Seq(Requests)
         /\ phase = "pre" => todo[1] \in PreNames
         /\ phase = "deploy" => todo[1] \in Others \cup Keys(opts.provider)
         /\ phase = "script" => todo[1] \in ScriptNames
         /\ phase = "cleanup" => todo[1] \in CleanupNames
         /\ phase = "finish" => todo[1] = "scm"
         /\ phase = "status" => todo[1] \in StatusNames
<1>1. ASSUME NEW S, todo \in Seq(S) PROVE todo[1] \in S
  BY <1>1, TailFacts
<1>2. todo[1] \in Requests /\ Tail(todo) \in Seq(Requests)
  BY TailFacts DEF IInv, ControlType
<1>3. phase = "deploy" => todo[1] \in Others \cup Keys(opts.provider)
  BY <1>1 DEF IInv, Good, DeployOK, Chain
<1>4. phase = "finish" => todo[1] = "scm"
  BY <1>1 DEF IInv, Good
<1> QED BY <1>1, <1>2, <1>3, <1>4 DEF IInv, Good, ControlType

LEMMA OverEndsRun ==
  ASSUME NEW d
  PROVE  Over(d) => ~ Runs(d)
BY DEF Over, Runs

(* A request is carried out, and may still be under way.                   *)
LEMMA CarriedOut ==
  ASSUME IInv, todo # << >>, CarryOut(todo[1])
  PROVE  SiteNext /\ Good(phase, opts, todo, deployments', offline', scripts', thrown, failed)
<1> USE DEF IInv
<1>1. /\ opts \in Options /\ deployments \in Seq(Deployment) /\ offline \in BOOLEAN
      /\ scripts \in Seq({"running"} \cup Outcome) /\ output \in {"none"} \cup Outcome
      /\ Site(opts, deployments, offline, scripts, output)
      /\ Good(phase, opts, todo, deployments, offline, scripts, thrown, failed)
  BY DEF ControlType, SiteType, Deployment
<1>2. /\ phase \in {"pre", "deploy", "script", "cleanup", "finish", "status"}
      /\ phase = "pre" => todo[1] \in PreNames
      /\ phase = "deploy" => todo[1] \in Others \cup Keys(opts.provider)
      /\ phase = "script" => todo[1] \in ScriptNames
      /\ phase = "cleanup" => todo[1] \in CleanupNames
      /\ phase = "finish" => todo[1] = "scm"
      /\ phase = "status" => todo[1] \in StatusNames
  BY FirstRequest DEF ControlType
<1>3. output' = output
  BY DEF CarryOut
<1>4. CASE todo[1] \notin Active \/ (todo[1] = "post" /\ Busy)
  <2>1. offline' = offline /\ deployments' = deployments /\ scripts' = scripts
    BY <1>1, <1>4 DEF CarryOut, Active
  <2> QED BY <1>1, <1>3, <2>1 DEF SiteNext, Deployment
<1>5. CASE todo[1] = "offline"
  <2>1. offline' = TRUE /\ deployments' = deployments /\ scripts' = scripts
    BY <1>5 DEF CarryOut
  <2>2. phase \in {"deploy", "script"}
    BY <1>2, <1>5 DEF PreNames, CleanupNames, StatusNames
  <2>3. CASE phase = "deploy"
    <3>1. opts.offline /\ DeployOK(opts, todo, deployments, TRUE)
      BY <1>1, <1>5, <2>3, ShelterOver DEF Good
    <3> QED BY <1>1, <1>3, <2>1, <2>3, <3>1 DEF SiteNext, Good, Site, Deployment
  <2>4. CASE phase = "script"
    <3>1. Has(todo, "offline")
      <4>1. 1 \in DOMAIN todo
        BY LenProperties, EmptySeq DEF ControlType
      <4> QED BY <1>5, <4>1 DEF Has
    <3>2. opts.offline
      BY <1>1, <2>4, <3>1 DEF Good
    <3> QED BY <1>1, <1>3, <2>1, <2>4, <3>2 DEF SiteNext, Good, Site, Deployment
  <2> QED BY <2>2, <2>3, <2>4
<1>6. CASE todo[1] = "online"
  <2>1. offline' = FALSE /\ deployments' = deployments /\ scripts' = scripts
    BY <1>6 DEF CarryOut
  <2>2. phase \in {"deploy", "cleanup"}
    BY <1>2, <1>6 DEF PreNames, ScriptNames, StatusNames
  <2>3. CASE phase = "deploy"
    <3>1. DeployOK(opts, todo, deployments, FALSE) /\ (opts.provider = "zip" => ~ Runs(deployments))
      BY <1>1, <1>6, <2>3, ShelterOver DEF Good
    <3> QED BY <1>1, <1>3, <2>1, <2>3, <3>1 DEF SiteNext, Good, Site, Deployment
  <2>4. CASE phase = "cleanup"
    <3>1. ~ Runs(deployments)
      BY <1>1, <2>4, OverEndsRun DEF Good
    <3> QED BY <1>1, <1>3, <2>1, <2>4, <3>1 DEF SiteNext, Good, Site, Deployment
  <2> QED BY <2>2, <2>3, <2>4
<1>7. ASSUME todo[1] \in {"post", "extract", "image"}
      PROVE  /\ phase = "deploy" /\ DeployOK(opts, todo, deployments, offline)
             /\ todo[1] = "post" => opts.provider \in Posting
             /\ todo[1] = "extract" => opts.provider = "extract"
             /\ todo[1] = "image" => opts.provider = "container"
  <2>1. phase = "deploy"
    BY <1>2, <1>7 DEF PreNames, ScriptNames, CleanupNames, StatusNames
  <2> QED BY <1>1, <1>2, <1>7, <2>1, ProviderKeys DEF Good, Follow
<1>8. CASE todo[1] = "post" /\ ~ Busy
  <2>1. offline' = offline /\ deployments' = Append(deployments, "running") /\ scripts' = scripts
    BY <1>1, <1>8 DEF CarryOut
  <2>2. /\ DeployOK(opts, todo, deployments', offline)
        /\ opts.provider = "zip" /\ opts.offline => offline
    BY <1>1, <1>7, <1>8, <2>1, PostAccepted
  <2>3. /\ deployments' \in Seq(Deployment) /\ Len(deployments') = Len(deployments) + 1
        /\ DOMAIN deployments' = DOMAIN deployments \cup {Len(deployments')}
        /\ \A i \in DOMAIN deployments : deployments'[i] = deployments[i] /\ i < Len(deployments')
        /\ \A i \in DOMAIN deployments : i = Len(deployments) \/ i < Len(deployments)
    BY <1>1, <2>1, Appended DEF Deployment
  <2>4. \A i \in DOMAIN deployments : deployments[i] # "running"
    <3>1. ASSUME NEW i \in DOMAIN deployments, i = Len(deployments) PROVE deployments[i] # "running"
      <4>1. deployments # << >>
        BY <3>1
      <4> QED BY <1>8, <3>1, <4>1, BusyRuns DEF Runs, Last
    <3> QED BY <1>1, <1>7, <1>8, <2>3, <3>1 DEF Site
  <2>5. Site(opts, deployments', offline', scripts', output')
    <3>1. \A i \in DOMAIN deployments' : i < Len(deployments') => deployments'[i] # "running"
      BY <2>3, <2>4
    <3>2. opts.provider \notin {"webDeploy", "profile", "container"}
      BY <1>7, <1>8 DEF Posting
    <3> QED BY <1>1, <1>3, <2>1, <2>2, <3>1, <3>2 DEF Site
  <2> QED BY <1>1, <1>3, <1>7, <1>8, <2>1, <2>2, <2>3, <2>5 DEF SiteNext, Good, Deployment
<1>9. CASE todo[1] = "extract"
  <2>1. offline' = offline /\ deployments' = Append(deployments, "running") /\ scripts' = scripts
    BY <1>1, <1>9 DEF CarryOut
  <2>2. DeployOK(opts, todo, deployments', offline)
    BY <1>1, <1>7, <1>9, <2>1, ExtractOver
  <2>3. deployments' \in Seq(Deployment)
    BY <1>1, <2>1, Appended DEF Deployment
  <2>4. Site(opts, deployments', offline', scripts', output')
    BY <1>1, <1>3, <1>7, <1>9, <2>1 DEF Site, Posting
  <2> QED BY <1>1, <1>3, <1>7, <1>9, <2>1, <2>2, <2>3, <2>4 DEF SiteNext, Good, Deployment
<1>10. CASE todo[1] = "image"
  <2>1. offline' = offline /\ deployments' = Append(deployments, "good") /\ scripts' = scripts
    BY <1>1, <1>10 DEF CarryOut
  <2>2. DeployOK(opts, todo, deployments', offline)
    BY <1>1, <1>7, <1>10, <2>1, ImageOver
  <2>3. /\ deployments' \in Seq(Deployment)
        /\ DOMAIN deployments' = DOMAIN deployments \cup {Len(deployments')}
        /\ \A i \in DOMAIN deployments : deployments'[i] = deployments[i]
        /\ deployments'[Len(deployments')] = "good"
    BY <1>1, <2>1, Appended DEF Deployment, Last
  <2>4. \A i \in DOMAIN deployments' : deployments'[i] # "running"
    BY <1>1, <1>7, <1>10, <2>3 DEF Site
  <2>5. Site(opts, deployments', offline', scripts', output')
    BY <1>1, <1>3, <1>7, <1>10, <2>1, <2>4 DEF Site, Posting
  <2> QED BY <1>1, <1>3, <1>7, <1>10, <2>1, <2>2, <2>3, <2>5 DEF SiteNext, Good, Deployment
<1>11. CASE todo[1] = "command"
  <2>1. offline' = offline /\ deployments' = deployments /\ scripts' = Append(scripts, "running")
    BY <1>1, <1>11 DEF CarryOut
  <2>2. phase = "script"
    BY <1>2, <1>11, KeysAreOther DEF PreNames, CleanupNames, StatusNames, ControlType, Others, Shelter, Follow
  <2>3. /\ scripts' \in Seq({"running"} \cup Outcome)
        /\ \A i \in DOMAIN scripts : i \in DOMAIN scripts' /\ scripts'[i] = scripts[i]
        /\ Ran(scripts) => Ran(scripts')
    BY <1>1, <2>1, ScriptAppended
  <2>4. Site(opts, deployments', offline', scripts', output')
    BY <1>1, <1>3, <2>1, <2>3 DEF Site
  <2> QED BY <1>1, <1>3, <2>1, <2>2, <2>3, <2>4 DEF SiteNext, Good, Deployment
<1> QED BY <1>4, <1>5, <1>6, <1>8, <1>9, <1>10, <1>11 DEF Active



------------------------------------------------------------------------------
(* A step of the task, from its parts.                                     *)

LEMMA Stepped ==
  ASSUME IInv, SiteNext, faults' \in 0 .. MaxFaults, Counters, opts' = opts,
         thrown' \in BOOLEAN, Reached, Owned(todo', own', deployments', scripts')
  PROVE  IInv'
<1>1. ControlType'
  BY DEF IInv, ControlType, Counters, Reached
<1>2. SiteType' /\ Site(opts', deployments', offline', scripts', output')
  BY DEF SiteType, SiteNext
<1>3. Good(phase', opts', todo', deployments', offline', scripts', thrown', failed')
  BY DEF Reached
<1> QED BY <1>1, <1>2, <1>3 DEF IInv

LEMMA NothingOwned ==
  ASSUME NEW t, NEW d, NEW sc
  PROVE  Owned(t, 0, d, sc)
BY DEF Owned

LEMMA Continued ==
  ASSUME IInv, todo # << >>, SiteNext, faults' \in 0 .. MaxFaults,
         NEW t \in Seq(Requests), Continue(t),
         Good(phase, opts, t, deployments', offline', scripts', thrown, failed)
  PROVE  IInv'
<1>1. /\ ControlType /\ phase # "ended" /\ thrown \in BOOLEAN
      /\ offline' \in BOOLEAN /\ (offline' => opts.offline)
  BY FirstRequest DEF IInv, ControlType, SiteNext, Site
<1>2. Counters /\ own' = 0 /\ opts' = opts /\ thrown' = thrown /\ Reached
  BY <1>1, ContinueOK
<1> QED BY <1>1, <1>2, Stepped, NothingOwned

LEMMA Raised ==
  ASSUME IInv, SiteNext, faults' \in 0 .. MaxFaults, Raise,
         Good(phase, opts, todo, deployments', offline', scripts', thrown, failed)
  PROVE  IInv'
<1>1. ControlType /\ offline' \in BOOLEAN /\ (offline' => opts.offline)
  BY DEF IInv, SiteNext, Site
<1>2. Counters /\ own' = 0 /\ opts' = opts /\ thrown' \in BOOLEAN /\ Reached
  BY <1>1, RaiseOK
<1> QED BY <1>2, Stepped, NothingOwned

(* The phase does not change, nor what is left of it.                      *)
LEMMA Stayed ==
  ASSUME IInv, SiteNext, faults' \in 0 .. MaxFaults, Counters,
         UNCHANGED <<opts, phase, todo, thrown, failed>>,
         Good(phase, opts, todo, deployments', offline', scripts', thrown, failed),
         Owned(todo, own', deployments', scripts')
  PROVE  IInv'
<1>1. Reached /\ thrown' \in BOOLEAN
  BY DEF IInv, ControlType, Reached
<1> QED BY <1>1, Stepped

LEMMA SiteStays ==
  ASSUME IInv, UNCHANGED siteVars
  PROVE  SiteNext /\ Good(phase, opts, todo, deployments', offline', scripts', thrown, failed)
BY DEF IInv, SiteType, SiteNext, siteVars

(* Requests that belong to one phase only.                                 *)
LEMMA PhaseOf ==
  ASSUME IInv, todo # << >>
  PROVE  /\ todo[1] \in Follow \cup {"extract", "image", "msdeploy", "throw"} => phase = "deploy"
         /\ todo[1] \in {"command", "pollFile", "logs"} => phase = "script"
         /\ todo[1] \in {"uploadDelete", "deleteLogs", "deleteFolder"} => phase = "cleanup"
         /\ todo[1] = "history" => phase = "status"
<1>1. /\ phase \in {"pre", "deploy", "script", "cleanup", "finish", "status"}
      /\ phase = "pre" => todo[1] \in PreNames
      /\ phase = "deploy" => todo[1] \in Others \cup Keys(opts.provider)
      /\ phase = "script" => todo[1] \in ScriptNames
      /\ phase = "cleanup" => todo[1] \in CleanupNames
      /\ phase = "finish" => todo[1] = "scm"
      /\ phase = "status" => todo[1] \in StatusNames
  BY FirstRequest DEF IInv, ControlType
<1>2. phase = "deploy" =>
        todo[1] \in Others \cup Shelter \cup Follow \cup {"extract", "image", "msdeploy"}
  BY <1>1, KeysAreOther DEF IInv, ControlType
<1> QED BY <1>1, <1>2 DEF PreNames, ScriptNames, CleanupNames, StatusNames, Others, Shelter, Follow



------------------------------------------------------------------------------
(* A request that has failed.                                              *)

LEMMA ResendOK ==
  ASSUME IInv, SiteNext, faults' \in 0 .. MaxFaults, NEW answer, Resend(todo[1], answer),
         Good(phase, opts, todo, deployments', offline', scripts', thrown, failed)
  PROVE  IInv'
<1>1. tries \in 0 .. RetryCount - 1 /\ repeats \in 0 .. KuduRetries /\ polls' = polls
  BY DEF IInv, ControlType, Resend
<1>2. tries' \in 0 .. RetryCount - 1 /\ repeats' \in 0 .. KuduRetries
  <2>1. CASE MayResend(todo[1], answer) /\ tries' = tries + 1 /\ UNCHANGED repeats
    BY <1>1, <2>1, RetryAssumption DEF MayResend, MayRetry
  <2>2. CASE answer = "timeout" /\ MayRepeat(todo[1]) /\ tries' = 0 /\ repeats' = repeats + 1
    BY <1>1, <2>2, RetryAssumption, WebAppAssumption DEF MayRepeat
  <2> QED BY <2>1, <2>2 DEF Resend
<1>3. Counters
  BY <1>1, <1>2 DEF Counters, IInv, ControlType
<1>4. own' = 0 /\ UNCHANGED <<opts, phase, todo, thrown, failed>>
  BY DEF Resend
<1> QED BY <1>3, <1>4, Stayed, NothingOwned

(* The details decide, and they are there.                                 *)
LEMMA ProcessedOK ==
  ASSUME IInv, todo # << >>, SiteNext, faults' \in 0 .. MaxFaults, Processed,
         todo[1] = "details", deployments' = deployments,
         Good(phase, opts, todo, deployments', offline', scripts', thrown, failed)
  PROVE  IInv'
<1>1. opts \in Options /\ phase = "deploy" /\ Tail(todo) \in Seq(Requests)
  BY FirstRequest, PhaseOf DEF IInv, ControlType, Follow
<1>2. CASE Last(deployments) = "bad"
  BY <1>2, Raised DEF Processed
<1>3. CASE Last(deployments) # "bad"
  <2>1. MoveOn
    BY <1>3 DEF Processed
  <2>2. DeployOK(opts, todo, deployments, offline') /\ deployments \in Seq(Deployment)
    BY <1>1 DEF Good, IInv, SiteType, Deployment
  <2>3. DeployOK(opts, Tail(todo), deployments, offline')
    BY <1>1, <1>3, <2>2, DetailsOver
  <2>4. Good(phase, opts, Tail(todo), deployments', offline', scripts', thrown, failed)
    BY <1>1, <2>3 DEF Good
  <2> QED BY <1>1, <2>1, <2>4, Continued DEF MoveOn
<1> QED BY <1>2, <1>3

(* The chain goes on after the request, or an exception ends it.           *)
LEMMA GiveUpOK ==
  ASSUME IInv, todo # << >>, SiteNext, faults' \in 0 .. MaxFaults, NEW answer,
         GiveUp(todo[1], answer), todo[1] \notin {"msdeploy", "throw"},
         todo[1] = "details" => deployments' = deployments,
         Good(phase, opts, todo, deployments', offline', scripts', thrown, failed)
  PROVE  IInv'
<1> DEFINE G(t) == Good(phase, opts, t, deployments', offline', scripts', thrown, failed)
<1>1. opts \in Options /\ phase # "ended" /\ Tail(todo) \in Seq(Requests) /\ todo \in Seq(Requests)
  BY FirstRequest DEF IInv, ControlType
<1>2. Raise => IInv'
  BY Raised
<1>3. ASSUME NEW t \in Seq(Requests), Continue(t), G(t) PROVE IInv'
  BY <1>3, Continued
<1>4. CASE todo[1] \in Swallowed
  <2>1. MoveOn
    BY <1>4 DEF GiveUp, Swallowed
  <2>2. todo[1] \notin Shelter \cup Follow \cup {"extract", "image", "msdeploy", "throw", "logs"}
    BY <1>4 DEF Swallowed, Shelter, Follow
  <2>3. G(Tail(todo))
    BY <1>1, <2>2, RestGood
  <2> QED BY <1>1, <1>3, <2>1, <2>3 DEF MoveOn
<1>5. CASE todo[1] = "details"
  <2>1. Processed
    BY <1>5 DEF GiveUp, Swallowed
  <2> QED BY <1>5, <2>1, ProcessedOK
<1>6. CASE todo[1] = "history"
  <2> DEFINE t == IF ProfileUnread THEN <<"url">> ELSE << >>
  <2>1. Continue(t) /\ phase = "status"
    BY <1>6, PhaseOf DEF GiveUp, Swallowed
  <2>2. t \in Seq(StatusNames) /\ t \in Seq(Requests)
    <3>1. "url" \in StatusNames /\ "url" \in Requests
      BY DEF StatusNames, Requests
    <3>2. \A S : "url" \in S => <<"url">> \in Seq(S) /\ << >> \in Seq(S)
      BY ShortSequences
    <3> QED BY <3>1, <3>2
  <2> HIDE DEF t
  <2>3. G(t)
    BY <2>1, <2>2 DEF Good
  <2> QED BY <1>3, <2>1, <2>2, <2>3
<1>7. CASE todo[1] \in {"uploadDelete", "deleteLogs", "deleteFolder"}
  <2>1. Continue(Sheltered("online")) /\ phase = "cleanup"
    BY <1>7, PhaseOf DEF GiveUp, Swallowed
  <2>2. /\ Sheltered("online") \in Seq(CleanupNames) /\ Sheltered("online") \in Seq(Requests)
        /\ opts.offline => Has(Sheltered("online"), "online")
    BY ShelteredFacts DEF CleanupNames, Requests
  <2>3. offline' => opts.offline
    BY DEF SiteNext, Site
  <2>4. G(Sheltered("online"))
    BY <2>1, <2>2, <2>3 DEF Good
  <2> QED BY <1>3, <2>1, <2>2, <2>4
<1>8. CASE todo[1] = "command" /\ answer = "timeout"
  <2> DEFINE t == <<"pollFile">> \o Tail(todo)
  <2>1. Continue(t) /\ phase = "script"
    BY <1>8, PhaseOf DEF GiveUp, Swallowed
  <2>2. todo \in Seq(ScriptNames) /\ (Has(todo, "offline") => opts.offline)
        /\ (Has(todo, "logs") \/ Ran(scripts'))
    BY <2>1 DEF Good
  <2>3. /\ Tail(todo) \in Seq(ScriptNames) /\ <<"pollFile">> \in Seq(ScriptNames)
        /\ <<"pollFile">> \in Seq(Requests)
    BY <1>1, <2>2, TailFacts, ShortSequences DEF ScriptNames, Requests
  <2>4. t \in Seq(Requests) /\ t \in Seq(ScriptNames)
    BY <1>1, <2>3, ConcatProperties
  <2>5. \A x : Has(t, x) <=> Has(<<"pollFile">>, x) \/ Has(Tail(todo), x)
    BY <2>3, ConcatFacts
  <2>6. Has(t, "offline") => Has(todo, "offline")
    BY <1>1, <2>5, ShortSequences, TailFacts
  <2>7. Has(todo, "logs") => Has(t, "logs")
    BY <1>1, <1>8, <2>5, TailFacts
  <2> HIDE DEF t
  <2>8. G(t)
    BY <2>1, <2>2, <2>4, <2>6, <2>7 DEF Good
  <2> QED BY <1>3, <2>1, <2>4, <2>8
<1>9. CASE ~ (todo[1] = "command" /\ answer = "timeout")
             /\ todo[1] \notin Swallowed \cup {"details", "history", "uploadDelete", "deleteLogs", "deleteFolder"}
  BY <1>2, <1>9 DEF GiveUp
<1> QED BY <1>4, <1>5, <1>6, <1>7, <1>8, <1>9

LEMMA FailOK ==
  ASSUME IInv, todo # << >>, SiteNext, faults' \in 0 .. MaxFaults, NEW answer,
         Fail(todo[1], answer), todo[1] \notin {"msdeploy", "throw"},
         todo[1] = "details" => deployments' = deployments,
         Good(phase, opts, todo, deployments', offline', scripts', thrown, failed)
  PROVE  IInv'
BY ResendOK, GiveUpOK DEF Fail



------------------------------------------------------------------------------
(* The actions.                                                            *)

LEMMA RequestFailsOK ==
  ASSUME IInv, RequestFails
  PROVE  IInv'
<1>1. /\ todo # << >> /\ todo[1] \notin {"msdeploy", "throw"}
      /\ faults < MaxFaults /\ faults' = faults + 1
  BY DEF RequestFails
<1>2. PICK answer \in Fault \cup {"timeout"} :
        /\ Fail(todo[1], answer)
        /\ \/ UNCHANGED siteVars
           \/ answer \notin {"refused", "void"} /\ own = 0 /\ CarryOut(todo[1])
  BY DEF RequestFails
<1>3. faults' \in 0 .. MaxFaults
  BY <1>1, WebAppAssumption DEF IInv, SiteType
<1>4. SiteNext /\ Good(phase, opts, todo, deployments', offline', scripts', thrown, failed)
  BY <1>1, <1>2, SiteStays, CarriedOut
<1>5. todo[1] = "details" => deployments' = deployments
  BY <1>2 DEF siteVars, CarryOut
<1> QED BY <1>1, <1>2, <1>3, <1>4, <1>5, FailOK

(* A request that is over, the site being as it leaves it.                 *)
LEMMA RestMovesOn ==
  ASSUME IInv, todo # << >>, SiteNext, faults' = faults, MoveOn,
         todo[1] \notin Shelter \cup Follow \cup {"extract", "image", "msdeploy", "throw", "logs"},
         Good(phase, opts, todo, deployments', offline', scripts', thrown, failed)
  PROVE  IInv'
<1>1. opts \in Options /\ Tail(todo) \in Seq(Requests) /\ faults' \in 0 .. MaxFaults
  BY FirstRequest DEF IInv, ControlType, SiteType
<1>2. Good(phase, opts, Tail(todo), deployments', offline', scripts', thrown, failed)
  BY <1>1, RestGood
<1> QED BY <1>1, <1>2, Continued DEF MoveOn

LEMMA RequestServedOK ==
  ASSUME IInv, RequestServed
  PROVE  IInv'
<1>1. /\ todo # << >> /\ CarryOut(todo[1]) /\ MoveOn /\ faults' = faults
      /\ todo[1] \notin {"monitor", "post", "extract", "poll", "details", "command", "pollFile",
                         "logs", "msdeploy", "throw"}
  BY DEF RequestServed
<1>2. SiteNext /\ Good(phase, opts, todo, deployments', offline', scripts', thrown, failed)
  BY <1>1, CarriedOut
<1>3. /\ opts \in Options /\ Tail(todo) \in Seq(Requests) /\ todo \in Seq(Requests)
      /\ faults' \in 0 .. MaxFaults /\ deployments \in Seq(Deployment)
  BY <1>1, FirstRequest DEF IInv, ControlType, SiteType, Deployment
<1>4. ASSUME Good(phase, opts, Tail(todo), deployments', offline', scripts', thrown, failed)
      PROVE  IInv'
  BY <1>1, <1>2, <1>3, <1>4, Continued DEF MoveOn
<1>5. /\ phase \in {"pre", "deploy", "script", "cleanup", "finish", "status"}
      /\ phase = "pre" => todo[1] \in PreNames
      /\ phase = "finish" => todo[1] = "scm"
      /\ phase = "status" => todo[1] \in StatusNames
      /\ phase = "script" => todo[1] \in ScriptNames
      /\ phase = "cleanup" => todo[1] \in CleanupNames
  BY <1>1, FirstRequest DEF IInv, ControlType
<1>6. phase = "deploy" => DeployOK(opts, todo, deployments, offline)
  BY DEF IInv, Good
<1>7. CASE todo[1] \in Shelter
  <2>1. phase \in {"deploy", "script", "cleanup"}
    BY <1>5, <1>7 DEF Shelter, PreNames, StatusNames
  <2>2. deployments' = deployments /\ offline' = (todo[1] = "offline")
    BY <1>7 , <1>1 DEF CarryOut, Shelter
  <2>3. CASE phase = "deploy"
    <3>1. DeployOK(opts, Tail(todo), deployments, offline')
      BY <1>1, <1>3, <1>6, <1>7, <2>2, <2>3, ShelterOver DEF Shelter
    <3> QED BY <1>2, <1>4, <2>2, <2>3, <3>1 DEF Good
  <2>4. CASE phase = "script"
    <3>1. todo \in Seq(ScriptNames) /\ todo[1] = "offline"
      BY <1>2, <1>5, <1>7, <2>4 DEF Good, Shelter, ScriptNames
    <3>2. /\ Tail(todo) \in Seq(ScriptNames) /\ (Has(Tail(todo), "offline") => Has(todo, "offline"))
          /\ Has(todo, "logs") => Has(Tail(todo), "logs")
      BY <1>1, <3>1, TailFacts
    <3> QED BY <1>2, <1>4, <2>4, <3>2 DEF Good
  <2>5. CASE phase = "cleanup"
    <3>1. todo \in Seq(CleanupNames) /\ ~ offline'
      BY <1>2, <1>5, <1>7, <2>2, <2>5 DEF Good, Shelter, CleanupNames
    <3>2. Tail(todo) \in Seq(CleanupNames)
      BY <1>1, <3>1, TailFacts
    <3> QED BY <1>2, <1>4, <2>5, <3>1, <3>2 DEF Good
  <2> QED BY <2>1, <2>3, <2>4, <2>5
<1>8. CASE todo[1] = "image"
  <2>1. phase = "deploy" /\ deployments' = Append(deployments, "good") /\ offline' = offline
    BY <1>1, <1>8, PhaseOf DEF CarryOut, IInv, SiteType
  <2>2. DeployOK(opts, Tail(todo), deployments', offline')
    BY <1>1, <1>3, <1>6, <1>8, <2>1, ImageOver
  <2> QED BY <1>2, <1>4, <2>1, <2>2 DEF Good
<1>9. CASE todo[1] \notin Shelter \cup {"image"}
  BY <1>1, <1>2, <1>9, RestMovesOn DEF Follow
<1> QED BY <1>7, <1>8, <1>9

LEMMA MonitoredOK ==
  ASSUME IInv, Monitored
  PROVE  IInv'
<1>1. todo # << >> /\ todo[1] = "monitor" /\ UNCHANGED siteVars /\ faults' = faults
  BY DEF Monitored, UnderWay
<1>2. SiteNext /\ Good(phase, opts, todo, deployments', offline', scripts', thrown, failed)
  BY <1>1, SiteStays
<1>3. CASE MoveOn
  BY <1>1, <1>2, <1>3, RestMovesOn DEF Shelter, Follow
<1>4. CASE /\ polls + 1 < MonitorPolls
           /\ polls' = polls + 1 /\ tries' = 0 /\ repeats' = 0
           /\ UNCHANGED <<opts, phase, todo, own, thrown, failed>>
  <2>1. Counters /\ faults' \in 0 .. MaxFaults
    BY <1>1, <1>4, RetryAssumption, WebAppAssumption DEF Counters, IInv, ControlType, SiteType
  <2>2. Owned(todo, own', deployments', scripts')
    BY <1>1, <1>4 DEF IInv, siteVars
  <2> QED BY <1>2, <1>4, <2>1, <2>2, Stayed
<1> QED BY <1>3, <1>4 DEF Monitored

(* A request starts what it waits for.                                     *)
LEMMA StartedOK ==
  ASSUME IInv, todo # << >>, CarryOut(todo[1]), faults' = faults,
         UNCHANGED <<opts, phase, todo, tries, repeats, polls, thrown, failed>>,
         \/ todo[1] = "post" /\ ~ Busy /\ own' = Len(deployments) + 1
         \/ todo[1] = "extract" /\ own' = Len(deployments) + 1
         \/ todo[1] = "command" /\ own' = Len(scripts) + 1
  PROVE  IInv'
<1>1. SiteNext /\ Good(phase, opts, todo, deployments', offline', scripts', thrown, failed)
  BY CarriedOut
<1>2. Counters /\ faults' \in 0 .. MaxFaults
  BY DEF Counters, IInv, ControlType, SiteType
<1>3. deployments \in Seq(Deployment) /\ scripts \in Seq({"running"} \cup Outcome)
  BY DEF IInv, SiteType, Deployment
<1>4. Len(deployments) \in Nat /\ Len(scripts) \in Nat
  BY <1>3, LenProperties
<1>5. Owned(todo, own', deployments', scripts')
  <2>1. CASE todo[1] \in {"post", "extract"}
    <3>1. deployments' = Append(deployments, "running") /\ own' = Len(deployments) + 1
      BY <2>1 DEF CarryOut
    <3>2. own' = Len(deployments')
      BY <1>3, <3>1, Appended DEF Deployment
    <3> QED BY <1>4, <2>1, <3>1, <3>2 DEF Owned
  <2>2. CASE todo[1] = "command"
    <3>1. scripts' = Append(scripts, "running") /\ own' = Len(scripts) + 1
      BY <2>2 DEF CarryOut
    <3>2. own' = Len(scripts')
      BY <1>3, <3>1, ScriptAppended
    <3> QED BY <1>4, <2>2, <3>1, <3>2 DEF Owned
  <2> QED BY <2>1, <2>2
<1> QED BY <1>1, <1>2, <1>5, Stayed


LEMMA PostedOK ==
  ASSUME IInv, Posted
  PROVE  IInv'
<1>1. todo # << >> /\ todo[1] = "post" /\ own = 0 /\ phase = "deploy"
  BY PhaseOf DEF Posted, UnderWay, Follow
<1>2. /\ opts \in Options /\ Tail(todo) \in Seq(Requests) /\ faults \in 0 .. MaxFaults
      /\ deployments \in Seq(Deployment) /\ DeployOK(opts, todo, deployments, offline)
  BY <1>1, FirstRequest DEF IInv, ControlType, SiteType, Deployment, Good
<1>3. CASE Busy /\ Fail("post", "busy") /\ UNCHANGED <<siteVars, faults>>
  <2>1. SiteNext /\ Good(phase, opts, todo, deployments', offline', scripts', thrown, failed)
    BY <1>3, SiteStays
  <2>2. Fail(todo[1], "busy")
    BY <1>1, <1>3
  <2> QED BY <1>1, <1>2, <1>3, <2>1, <2>2, FailOK
<1>4. CASE ~ Busy /\ opts.provider # "runFromZip" /\ CarryOut("post")
  <2>1. SiteNext /\ Good(phase, opts, todo, deployments', offline', scripts', thrown, failed)
    BY <1>1, <1>4, CarriedOut
  <2>2. CASE MoveOn /\ UNCHANGED faults
    <3>1. deployments' = Append(deployments, "running") /\ offline' = offline
      BY <1>2, <1>4 DEF CarryOut, IInv, SiteType
    <3>2. DeployOK(opts, Tail(todo), deployments', offline')
      BY <1>1, <1>2, <1>4, <3>1, PostAccepted
    <3>3. Good(phase, opts, Tail(todo), deployments', offline', scripts', thrown, failed)
      BY <1>1, <2>1, <3>2 DEF Good
    <3> QED BY <1>1, <1>2, <2>1, <2>2, <3>3, Continued DEF MoveOn
  <2>3. CASE Raise /\ faults < MaxFaults /\ faults' = faults + 1
    <3>1. faults' \in 0 .. MaxFaults
      BY <1>2, <2>3, WebAppAssumption
    <3> QED BY <2>1, <2>3, <3>1, Raised
  <2> QED BY <1>1, <1>4, <2>2, <2>3 DEF Posted
<1>5. CASE /\ ~ Busy /\ CarryOut("post") /\ own' = Len(deployments) + 1
           /\ UNCHANGED <<opts, phase, todo, tries, repeats, polls, thrown, failed, faults>>
  BY <1>1, <1>5, StartedOK
<1> QED BY <1>3, <1>4, <1>5 DEF Posted

LEMMA ExtractedOK ==
  ASSUME IInv, Extracted
  PROVE  IInv'
<1>1. /\ todo # << >> /\ todo[1] = "extract" /\ CarryOut(todo[1]) /\ own' = Len(deployments) + 1
      /\ UNCHANGED <<opts, phase, todo, tries, repeats, polls, thrown, failed, faults>>
  BY DEF Extracted, UnderWay
<1> QED BY <1>1, StartedOK

LEMMA DeployedOK ==
  ASSUME IInv, Deployed
  PROVE  IInv'
<1>1. /\ todo # << >> /\ todo[1] \in {"post", "extract"} /\ own # 0 /\ phase = "deploy"
      /\ UNCHANGED siteVars /\ faults' = faults
  BY PhaseOf DEF Deployed, UnderWay, Follow
<1>2. /\ opts \in Options /\ Tail(todo) \in Seq(Requests) /\ faults' \in 0 .. MaxFaults
      /\ deployments \in Seq(Deployment) /\ DeployOK(opts, todo, deployments, offline)
  BY <1>1, FirstRequest DEF IInv, ControlType, SiteType, Deployment, Good
<1>3. SiteNext /\ Good(phase, opts, todo, deployments', offline', scripts', thrown, failed)
  BY <1>1, SiteStays
<1>4. own = Len(deployments)
  BY <1>1 DEF IInv, Owned
<1>5. CASE deployments[own] = "good" /\ MoveOn
  <2>1. deployments # << >>
    BY <1>1, <1>2, <1>4, EmptySeq
  <2>2. Over(deployments)
    BY <1>4, <1>5, <2>1 DEF Over, Last
  <2>3. DeployOK(opts, Tail(todo), deployments, offline)
    BY <1>1, <1>2, <2>2, PostAccepted, ExtractOver
  <2>4. Good(phase, opts, Tail(todo), deployments', offline', scripts', thrown, failed)
    BY <1>1, <1>3, <2>3 DEF Good, siteVars
  <2> QED BY <1>1, <1>2, <1>3, <1>5, <2>4, Continued DEF MoveOn
<1>6. ASSUME NEW answer, Fail(todo[1], answer) PROVE IInv'
  BY <1>1, <1>2, <1>3, <1>6, FailOK
<1> QED BY <1>5, <1>6 DEF Deployed

LEMMA RecommendedType == Recommended \subseteq Seq(Others)
<1>1. /\ "ping" \in Others /\ "putSettings" \in Others /\ "publishing" \in Others
      /\ "monitor" \in Others
  BY DEF Others
<1>2. << >> \in Seq(Others) /\ <<"ping">> \in Seq(Others) /\ Update \in Seq(Others)
  BY <1>1, ShortSequences DEF Update
<1> QED BY <1>2 DEF Recommended

LEMMA AfterAttemptsIsSuffix ==
  ASSUME NEW S, todo \in Seq(S)
  PROVE  \E k \in 0 .. Len(todo) : AfterAttempts = SubSeq(todo, k + 1, Len(todo))
<1> DEFINE I == {i \in 1 .. Len(todo) : todo[i] = "throw"}
           k == IF I # {} THEN Min(I) ELSE 0
<1>1. AfterAttempts = SubSeq(todo, k + 1, Len(todo))
  BY DEF AfterAttempts, SelectInSeq
<1>2. Len(todo) \in Nat
  BY LenProperties
<1>3. I \subseteq 1 .. Len(todo)
  OBVIOUS
<1>4. I # {} => Min(I) \in I
  <2>1. ASSUME I # {} PROVE \E x \in I : \A y \in I : x <= y
    <3>1. I \in SUBSET Nat
      BY <1>2, <1>3
    <3> HIDE DEF I
    <3> QED BY <2>1, <3>1, NatMinimum
  <2> HIDE DEF I
  <2> QED BY <2>1 DEF Min
<1>5. k \in 0 .. Len(todo)
  <2> HIDE DEF I
  <2>1. CASE I = {}
    <3>1. k = 0
      BY <2>1
    <3> QED BY <1>2, <3>1
  <2>2. CASE I # {}
    <3>1. k = Min(I)
      BY <2>2
    <3>2. Min(I) \in 1 .. Len(todo)
      BY <1>3, <1>4, <2>2
    <3> HIDE DEF k
    <3> QED BY <1>2, <3>1, <3>2
  <2> QED BY <2>1, <2>2
<1> HIDE DEF k
<1> QED BY <1>1, <1>5

LEMMA WebDeployedOK ==
  ASSUME IInv, WebDeployed
  PROVE  IInv'
<1>1. /\ todo # << >> /\ todo[1] = "msdeploy" /\ phase = "deploy"
      /\ UNCHANGED <<offline, scripts, output>> /\ faults' = faults
  BY PhaseOf DEF WebDeployed, UnderWay
<1>2. /\ opts \in Options /\ Tail(todo) \in Seq(Requests) /\ faults' \in 0 .. MaxFaults
      /\ todo \in Seq(Requests) /\ todo[1] \in Others \cup Keys(opts.provider)
      /\ deployments \in Seq(Deployment) /\ DeployOK(opts, todo, deployments, offline)
  BY <1>1, FirstRequest DEF IInv, ControlType, SiteType, Deployment, Good
<1>3. opts.provider \in {"webDeploy", "profile"}
  BY <1>1, <1>2, ProviderKeys
<1>4. ASSUME NEW x \in {"good", "bad"}, deployments' = Append(deployments, x)
      PROVE  SiteNext
  <2>1. /\ deployments' \in Seq(Deployment) /\ Last(deployments') = x
        /\ DOMAIN deployments' = DOMAIN deployments \cup {Len(deployments')}
        /\ \A i \in DOMAIN deployments : deployments'[i] = deployments[i]
    <3>1. x \in Deployment
      BY DEF Deployment
    <3> QED BY <1>2, <1>4, <3>1, Appended
  <2>2. deployments'[Len(deployments')] = x
    BY <2>1 DEF Last
  <2>3. \A i \in DOMAIN deployments' : deployments'[i] # "running"
    BY <1>3, <2>1, <2>2 DEF IInv, Site
  <2>4. Site(opts, deployments', offline', scripts', output')
    BY <1>1, <1>3, <2>3 DEF IInv, Site, Posting
  <2> QED BY <1>1, <2>1, <2>4 DEF SiteNext, IInv, SiteType, Deployment
<1>5. ASSUME NEW t \in Seq(Requests), DeployOK(opts, t, deployments', offline), Continue(t), SiteNext
      PROVE  IInv'
  <2>1. Good(phase, opts, t, deployments', offline', scripts', thrown, failed)
    BY <1>1, <1>5 DEF IInv, Good
  <2> QED BY <1>1, <1>2, <1>5, <2>1, Continued
<1>6. CASE deployments' = Append(deployments, "good") /\ Continue(AfterAttempts)
  <2>1. PICK k \in 0 .. Len(todo) : AfterAttempts = SubSeq(todo, k + 1, Len(todo))
    BY <1>2, AfterAttemptsIsSuffix
  <2>2. AfterAttempts \in Seq(Requests)
    BY <1>2, <2>1, SuffixElements
  <2>3. DeployOK(opts, AfterAttempts, deployments', offline)
    BY <1>1, <1>2, <1>6, <2>1, AttemptOver
  <2> QED BY <1>4, <1>5, <1>6, <2>2, <2>3
<1>7. CASE /\ deployments' = Append(deployments, "bad")
           /\ \E steps \in Recommended : Continue(steps \o Tail(todo))
  <2>1. PICK steps \in Recommended : Continue(steps \o Tail(todo))
    BY <1>7
  <2>2. steps \in Seq(Others) /\ steps \in Seq(Requests)
    <3>1. Others \subseteq Requests
      BY <1>2, NamesAreRequests
    <3> QED BY <3>1, RecommendedType, SeqMonotonic
  <2>3. steps \o Tail(todo) \in Seq(Requests)
    BY <1>2, <2>2, ConcatProperties
  <2>4. DeployOK(opts, steps \o Tail(todo), deployments', offline)
    BY <1>1, <1>2, <1>7, <2>2, AttemptOver
  <2> QED BY <1>4, <1>5, <1>7, <2>1, <2>3, <2>4
<1> QED BY <1>6, <1>7 DEF WebDeployed

LEMMA ThrowsOK ==
  ASSUME IInv, Throws
  PROVE  IInv'
<1>1. UNCHANGED siteVars /\ faults' \in 0 .. MaxFaults /\ Raise
  BY DEF Throws, IInv, SiteType
<1> QED BY <1>1, SiteStays, Raised


LEMMA PolledOK ==
  ASSUME IInv, Polled
  PROVE  IInv'
<1>1. todo # << >> /\ todo[1] = "poll" /\ UNCHANGED siteVars /\ faults' = faults /\ phase = "deploy"
  BY PhaseOf DEF Polled, UnderWay, Follow
<1>2. SiteNext /\ Good(phase, opts, todo, deployments', offline', scripts', thrown, failed)
  BY <1>1, SiteStays
<1>3. /\ opts \in Options /\ Tail(todo) \in Seq(Requests) /\ faults' \in 0 .. MaxFaults
      /\ DeployOK(opts, todo, deployments, offline)
  BY <1>1, FirstRequest DEF IInv, ControlType, SiteType, Good
<1>4. CASE Settled /\ MoveOn
  <2>1. DeployOK(opts, Tail(todo), deployments, offline)
    BY <1>1, <1>3, <1>4, BusyRuns, PollOver DEF Settled
  <2>2. Good(phase, opts, Tail(todo), deployments', offline', scripts', thrown, failed)
    BY <1>1, <1>2, <2>1 DEF Good, siteVars
  <2> QED BY <1>1, <1>2, <1>3, <1>4, <2>2, Continued DEF MoveOn
<1>5. CASE /\ tries' = 0 /\ repeats' = 0
           /\ UNCHANGED <<opts, phase, todo, polls, own, thrown, failed>>
  <2>1. Counters /\ Owned(todo, own', deployments', scripts')
    BY <1>1, <1>5, RetryAssumption, WebAppAssumption DEF Counters, IInv, ControlType, siteVars
  <2> QED BY <1>2, <1>3, <1>5, <2>1, Stayed
<1> QED BY <1>4, <1>5 DEF Polled

LEMMA DetailedOK ==
  ASSUME IInv, Detailed
  PROVE  IInv'
<1>1. /\ todo # << >> /\ todo[1] = "details" /\ UNCHANGED siteVars /\ Processed
      /\ faults' \in 0 .. MaxFaults
  BY DEF Detailed, UnderWay, IInv, SiteType
<1>2. SiteNext /\ Good(phase, opts, todo, deployments', offline', scripts', thrown, failed)
  BY <1>1, SiteStays
<1> QED BY <1>1, <1>2, ProcessedOK DEF siteVars

LEMMA CommandedOK ==
  ASSUME IInv, Commanded
  PROVE  IInv'
<1>1. todo # << >> /\ todo[1] = "command" /\ faults' = faults
  BY DEF Commanded, UnderWay
<1>2. CASE /\ CarryOut("command") /\ own' = Len(scripts) + 1
           /\ UNCHANGED <<opts, phase, todo, tries, repeats, polls, thrown, failed>>
  BY <1>1, <1>2, StartedOK
<1>3. ASSUME UNCHANGED siteVars
      PROVE  SiteNext /\ Good(phase, opts, todo, deployments', offline', scripts', thrown, failed)
  BY <1>3, SiteStays
<1>4. CASE MoveOn /\ UNCHANGED siteVars
  BY <1>1, <1>3, <1>4, RestMovesOn DEF Shelter, Follow
<1>5. CASE Fail("command", "timeout") /\ UNCHANGED siteVars
  <2>1. Fail(todo[1], "timeout") /\ faults' \in 0 .. MaxFaults
    BY <1>1, <1>5 DEF IInv, SiteType
  <2> QED BY <1>1, <1>3, <1>5, <2>1, FailOK
<1> QED BY <1>2, <1>4, <1>5 DEF Commanded

LEMMA FileSoughtOK ==
  ASSUME IInv, FileSought
  PROVE  IInv'
<1>1. /\ todo # << >> /\ todo[1] = "pollFile" /\ UNCHANGED siteVars /\ faults' = faults
      /\ faults' \in 0 .. MaxFaults
  BY DEF FileSought, UnderWay, IInv, SiteType
<1>2. SiteNext /\ Good(phase, opts, todo, deployments', offline', scripts', thrown, failed)
  BY <1>1, SiteStays
<1>3. CASE MoveOn
  BY <1>1, <1>2, <1>3, RestMovesOn DEF Shelter, Follow
<1>4. CASE Raise
  BY <1>1, <1>2, <1>4, Raised
<1>5. CASE /\ polls + 1 < FilePolls
           /\ NextAttempt /\ tries' = 0 /\ repeats' = 0
           /\ UNCHANGED <<opts, phase, todo, own, thrown, failed>>
  <2>1. Counters /\ Owned(todo, own', deployments', scripts')
    BY <1>1, <1>5, RetryAssumption, WebAppAssumption
    DEF Counters, IInv, ControlType, siteVars, NextAttempt
  <2> QED BY <1>1, <1>2, <1>5, <2>1, Stayed
<1> QED BY <1>3, <1>4, <1>5 DEF FileSought

(* What the files tell is what a run of the script has told.               *)
LEMMA LogsPrintedOK ==
  ASSUME IInv, LogsPrinted
  PROVE  IInv'
<1>1. /\ todo # << >> /\ todo[1] = "logs" /\ UNCHANGED siteVars /\ faults' \in 0 .. MaxFaults
      /\ phase = "script"
  BY PhaseOf DEF LogsPrinted, UnderWay, IInv, SiteType
<1>2. SiteNext /\ Good(phase, opts, todo, deployments', offline', scripts', thrown, failed)
  BY <1>1, SiteStays
<1>3. CASE output \in {"none", "loud"}
  BY <1>1, <1>2, <1>3, Raised DEF LogsPrinted
<1>4. CASE output \notin {"none", "loud"}
  <2>1. MoveOn /\ Tail(todo) \in Seq(Requests)
    BY <1>1, <1>4, FirstRequest DEF LogsPrinted
  <2>2. Ran(scripts')
    <3>1. PICK i \in DOMAIN scripts : scripts[i] = output
      BY <1>4 DEF IInv, Site
    <3>2. output \in {"good", "silent"}
      BY <1>4 DEF IInv, SiteType, Outcome
    <3> QED BY <1>1, <3>1, <3>2 DEF Ran, siteVars
  <2>3. todo \in Seq(ScriptNames) /\ (Has(todo, "offline") => opts.offline)
    BY <1>1, <1>2 DEF Good
  <2>4. Tail(todo) \in Seq(ScriptNames) /\ (Has(Tail(todo), "offline") => Has(todo, "offline"))
    BY <1>1, <2>3, TailFacts
  <2>5. Good(phase, opts, Tail(todo), deployments', offline', scripts', thrown, failed)
    BY <1>1, <1>2, <2>2, <2>3, <2>4 DEF Good
  <2> QED BY <1>1, <1>2, <2>1, <2>5, Continued DEF MoveOn
<1> QED BY <1>3, <1>4

(* A deployment that ends does not stop to be the last one.                *)
LEMMA DeploymentEndsOK ==
  ASSUME IInv, NEW i \in DOMAIN deployments, DeploymentEnds(i)
  PROVE  IInv'
<1>1. /\ deployments[i] = "running" /\ UNCHANGED <<offline, scripts, output, faults>>
      /\ UNCHANGED taskVars
  BY DEF DeploymentEnds
<1>2. PICK x \in {"good", "bad"} : deployments' = [deployments EXCEPT ![i] = x]
  BY DEF DeploymentEnds
<1>3. deployments \in Seq(Deployment)
  BY DEF IInv, SiteType, Deployment
<1>4. /\ deployments' \in Seq(Deployment) /\ Len(deployments') = Len(deployments)
      /\ DOMAIN deployments' = DOMAIN deployments /\ deployments # << >>
      /\ \A j \in DOMAIN deployments' : deployments'[j] = "running" => deployments[j] = "running"
      /\ Runs(deployments') => Runs(deployments)
      /\ Over(deployments) => Over(deployments')
  BY <1>1, <1>2, <1>3, HasEnded
<1>5. ControlType' /\ SiteType'
  BY <1>1, <1>4 DEF IInv, ControlType, SiteType, taskVars, Deployment
<1>6. Owned(todo', own', deployments', scripts')
  BY <1>1, <1>4 DEF IInv, Owned, taskVars
<1>7. Site(opts', deployments', offline', scripts', output')
  BY <1>1, <1>4 DEF IInv, Site, taskVars
<1>8. DeployOK(opts, todo, deployments, offline) => DeployOK(opts, todo, deployments', offline)
  BY <1>1, <1>2, <1>3, EndingKeeps
<1>9. Good(phase', opts', todo', deployments', offline', scripts', thrown', failed')
  BY <1>1, <1>4, <1>8 DEF IInv, Good, taskVars
<1> QED BY <1>5, <1>6, <1>7, <1>9 DEF IInv

LEMMA ScriptEndsOK ==
  ASSUME IInv, NEW i \in DOMAIN scripts, ScriptEnds(i)
  PROVE  IInv'
<1>1. /\ scripts[i] = "running" /\ UNCHANGED <<offline, deployments, faults>>
      /\ UNCHANGED taskVars
  BY DEF ScriptEnds
<1>2. PICK outcome \in Outcome : scripts' = [scripts EXCEPT ![i] = outcome] /\ output' = outcome
  BY DEF ScriptEnds
<1>3. scripts \in Seq({"running"} \cup Outcome)
  BY DEF IInv, SiteType
<1>4. DOMAIN scripts = 1 .. Len(scripts) /\ Len(scripts) \in Nat
  BY <1>3, LenProperties
<1>5. /\ scripts' \in Seq({"running"} \cup Outcome) /\ Len(scripts') = Len(scripts)
  BY <1>2, <1>3, <1>4, ExceptSeq
<1>6. DOMAIN scripts' = DOMAIN scripts /\ scripts'[i] = outcome
      /\ \A j \in DOMAIN scripts : j # i => scripts'[j] = scripts[j]
  BY <1>2
<1>7. (Ran(scripts) => Ran(scripts')) /\ scripts # << >>
  BY <1>1, <1>4, <1>6 DEF Ran
<1>8. ControlType' /\ SiteType'
  BY <1>1, <1>2, <1>5 DEF IInv, ControlType, SiteType, taskVars
<1>9. Owned(todo', own', deployments', scripts')
  BY <1>1, <1>5 DEF IInv, Owned, taskVars
<1>10. Site(opts', deployments', offline', scripts', output')
  BY <1>1, <1>2, <1>6 DEF IInv, Site, taskVars
<1>11. Good(phase', opts', todo', deployments', offline', scripts', thrown', failed')
  BY <1>1, <1>7 DEF IInv, Good, taskVars
<1> QED BY <1>8, <1>9, <1>10, <1>11 DEF IInv


------------------------------------------------------------------------------
(* The theorems.                                                           *)

LEMMA InitIInv ==
  ASSUME Init
  PROVE  IInv
<1>1. /\ opts \in Options /\ phase = "pre" /\ todo \in PreDeploymentSteps(opts.provider)
      /\ tries = 0 /\ repeats = 0 /\ polls = 0 /\ own = 0 /\ thrown = FALSE /\ failed = FALSE
      /\ offline = FALSE /\ deployments = << >> /\ scripts = << >> /\ output = "none" /\ faults = 0
  BY DEF Init
<1>2. todo \in {<<"ping">>, <<"resourceGroup", "credentials">>, <<"credentials">>}
  BY <1>1 DEF PreDeploymentSteps
<1>3. todo \in Seq(PreNames) /\ todo # << >>
  <2>1. /\ <<"ping">> \in Seq(PreNames) /\ <<"resourceGroup", "credentials">> \in Seq(PreNames)
        /\ <<"credentials">> \in Seq(PreNames)
    BY DEF PreNames
  <2>2. Len(todo) # 0
    BY <1>2
  <2> QED BY <1>2, <2>1, <2>2, EmptySeq
<1>4. todo \in Seq(Requests)
  BY <1>3, NamesAreRequests, SeqMonotonic
<1>5. ControlType
  <2>1. 0 \in 0 .. RetryCount - 1 /\ 0 \in 0 .. KuduRetries /\ 0 < FilePolls
    BY RetryAssumption, WebAppAssumption
  <2> QED BY <1>1, <1>3, <1>4, <2>1 DEF ControlType
<1>6. SiteType
  <2>1. 0 \in 0 .. MaxFaults
    BY WebAppAssumption
  <2>2. \A S : << >> \in Seq(S)
    BY EmptySeq
  <2> QED BY <1>1, <2>1, <2>2 DEF SiteType
<1>7. Owned(todo, own, deployments, scripts)
  BY <1>1, NothingOwned
<1>8. Site(opts, deployments, offline, scripts, output)
  BY <1>1 DEF Site, Runs
<1>9. Good(phase, opts, todo, deployments, offline, scripts, thrown, failed)
  BY <1>1, <1>3 DEF Good
<1> QED BY <1>5, <1>6, <1>7, <1>8, <1>9 DEF IInv

LEMMA NextIInv ==
  ASSUME IInv, [Next]_vars
  PROVE  IInv'
<1>1. CASE UNCHANGED vars
  BY <1>1 DEF IInv, ControlType, SiteType, vars, taskVars, siteVars
<1>2. CASE Task
  BY <1>2, RequestFailsOK, RequestServedOK, MonitoredOK, PostedOK, ExtractedOK, DeployedOK,
     WebDeployedOK, ThrowsOK, PolledOK, DetailedOK, CommandedOK, FileSoughtOK, LogsPrintedOK
  DEF Task
<1>3. CASE \E i \in DOMAIN deployments : DeploymentEnds(i)
  BY <1>3, DeploymentEndsOK
<1>4. CASE \E i \in DOMAIN scripts : ScriptEnds(i)
  BY <1>4, ScriptEndsOK
<1> QED BY <1>1, <1>2, <1>3, <1>4 DEF Next

LEMMA Invariance == Spec => []IInv
<1>1. Init => IInv
  BY InitIInv
<1>2. IInv /\ [Next]_vars => IInv'
  BY NextIInv
<1> QED BY <1>1, <1>2, PTL DEF Spec

(* The task keeps its types: its requests are the ones the code has, in    *)
(* whatever order failures, recommendations and handlers leave them, every *)
(* counter stays below its limit, and nothing is left exactly when it has  *)
(* ended.                                                                  *)
THEOREM TypeCorrect == Spec => []TypeOK
<1>1. IInv => TypeOK
  BY LenProperties DEF IInv, ControlType, SiteType, Owned, TypeOK
<1> QED BY <1>1, Invariance, PTL

(* With TakeAppOfflineFlag a zip deployment, the task's own or one that it *)
(* has given up, never runs while the site is online.                      *)
THEOREM SyncSheltered == Spec => []SyncIsOffline
<1>1. IInv => SyncIsOffline
  BY BusyRuns DEF IInv, Site, SyncIsOffline
<1> QED BY <1>1, Invariance, PTL

(* A task that ends without having failed has put its package on the site, *)
(* left the site online, and seen a run of the script it was asked for     *)
(* that did not complain.                                                  *)
THEOREM SuccessWhole == Spec => []SuccessIsComplete
<1>1. IInv => SuccessIsComplete
  BY DEF IInv, Good, Over, Ran, SuccessIsComplete
<1> QED BY <1>1, Invariance, PTL

(* A script runs only after a deployment that is over and good; extraction *)
(* apart, no other deployment still runs then.                             *)
THEOREM ScriptLast == Spec => []ScriptAfterSync
<1>1. ASSUME IInv, scripts # << >>
      PROVE  /\ Over(deployments)
             /\ opts.provider = "extract" \/ \A i \in DOMAIN deployments : deployments[i] # "running"
  <2>1. Over(deployments)
    <3>1. phase \in {"pre", "deploy", "script", "cleanup", "finish", "status", "ended"}
      BY <1>1 DEF IInv, ControlType
    <3> QED BY <1>1, <3>1 DEF IInv, Good
  <2>2. opts.provider \in Provider
    BY <1>1 DEF IInv, ControlType, Options
  <2>3. ASSUME NEW i \in DOMAIN deployments, opts.provider \in Posting, deployments[i] = "running"
        PROVE  FALSE
    <3>1. i \in 1 .. Len(deployments) /\ Len(deployments) \in Nat
      BY <1>1, <2>3, LenProperties DEF IInv, SiteType
    <3>2. i = Len(deployments)
      BY <1>1, <2>3, <3>1 DEF IInv, Site
    <3> QED BY <2>1, <2>3, <3>2 DEF Over, Last
  <2> QED BY <1>1, <2>1, <2>2, <2>3 DEF IInv, Site, Provider
<1>2. IInv => ScriptAfterSync
  BY <1>1 DEF ScriptAfterSync, Over
<1> QED BY <1>2, Invariance, PTL

=============================================================================
