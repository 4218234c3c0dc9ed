------------------------ MODULE AzureResourceGroup_proof ------------------------
(***************************************************************************)
(* The safety of AzureResourceGroup, for any number of machines and pages, *)
(* any limits of the retries, and any number of requests that fail and     *)
(* tokens that expire.                                                     *)
(*                                                                         *)
(* The invariant is built in layers, each proved with the help of the ones *)
(* before it: the types and the programs; the expired tokens; operations   *)
(* and their effects; the repeats of an operation; the deployment; and the *)
(* callbacks, which are counted.                                           *)
(***************************************************************************)
EXTENDS AzureResourceGroup, FiniteSetTheorems, SequenceTheorems, TLAPS

(* The requests of the program of a machine and of that of the task.       *)
StepsOf(a) ==
  CASE a \in VmActions \ {"Delete"} -> {"operate"}
    [] a = "Delete" -> {"unregister", "deleteVm"}
    [] a = "DeleteRG" -> {"unregister"}
    [] OTHER -> {"view", "start", "review", "extension", "clean", "add", "undo"}

MainStepsOf(a) ==
  CASE a = "Create Or Update Resource Group" ->
         {"exists", "createGroup", "deploy", "deployment", "list"}
    [] a = "DeleteRG" -> {"list", "deleteGroup"}
    [] OTHER -> {"list"}

Asking == MainSteps \cup VmSteps

(* Every program is at one of its requests, or has none under way.  The    *)
(* machines wait for the end of the list, and others never begin.          *)
AtRequest(c) ==
  IF step[c] \in Asking
  THEN call[c].pc # "idle" /\ (call[c].polling => step[c] \in LongRunning)
  ELSE call[c] = Idle

Programs ==
  /\ step[Main] \in MainStepsOf(action) \cup {"waiting", "end"}
  /\ \A v \in VM : step[v] \in StepsOf(action) \cup Ends \cup {"idle"}
  /\ \A v \in VM \ Machines : step[v] = "idle"
  /\ step[Main] \in MainSteps \ {"deleteGroup"} => \A v \in VM : step[v] = "idle"
  /\ \A c \in Call : AtRequest(c)

(* A request that carries a second token has seen an older one expire.     *)
ExpiryInOrder ==
  /\ \A c \in Call : call[c].again => \E n \in expired : n < call[c].held
  /\ ExpiryIsSurvived

(* The operations of the programs, and which one ends each.                *)
KindsOf(c) ==
  CASE c = Main -> {"deploy", "deleteGroup"} \cap MainStepsOf(action)
    [] c # Main /\ action \in VmActions \ {"Delete"} -> {action}
    [] c # Main /\ action = "Delete" -> {"unregister", "deleteVm"}
    [] c # Main /\ action = "DeleteRG" -> {"unregister"}
    [] OTHER -> {"Start", "unregister", "add"}

FinalKind ==
  CASE action \in VmActions \ {"Delete"} -> action
    [] action = "Delete" -> "deleteVm"
    [] OTHER -> "add"

(* What is polled is the operation the program is at, and an operation     *)
(* that was seen to succeed has; a machine that is ok ended with one.      *)
OperationsInOrder ==
  /\ \A c \in Call :
       /\ op[c].status # "none" => op[c].kind \in KindsOf(c)
       /\ call[c].polling => op[c].status # "none" /\ op[c].kind = Kind(c)
       /\ call[c].polling /\ call[c].answer = "Succeeded" => op[c].status = "Succeeded"
       /\ call[c].polling /\ call[c].answer = "Failed" => step[c] # "deleteGroup"
  /\ \A v \in VM :
       /\ step[v] = "idle" => op[v].status = "none"
       /\ step[v] = "ok" /\ action # "DeleteRG" =>
            op[v].status = "Succeeded" /\ op[v].kind = FinalKind

(* The effect of the last operation on a machine stays, unless the group   *)
(* is deleted.                                                             *)
EffectsStay ==
  /\ \A v \in VM : op[v].status = "Succeeded" =>
       /\ op[v].kind \in {"Start", "Restart"} => power[v] \in {"running", "deleted"}
       /\ op[v].kind = "Stop" => power[v] \in {"stopped", "deleted"}
       /\ op[v].kind = "StopWithDeallocate" => power[v] \in {"deallocated", "deleted"}
       /\ op[v].kind = "deleteVm" => power[v] = "deleted"
       /\ op[v].kind = "add" => power[v] = "deleted" \/ ext[v] = "Succeeded"
  /\ action \notin {"Delete", "DeleteRG"} => \A v \in VM : power[v] # "deleted"
  /\ op[Main].status = "Succeeded" /\ op[Main].kind = "deleteGroup" =>
       \A v \in VM : power[v] = "deleted"

(* Until an operation is accepted with an answer, all that were accepted   *)
(* lost theirs.                                                            *)
AcceptedOrLost ==
  \A v \in VM :
    /\ accepted[v] <= 1 + lost[v]
    /\ \/ step[v] \in Ends
       \/ step[v] \in {"operate", "deleteVm"} /\ call[v].polling
       \/ accepted[v] <= lost[v]

(* Without a fault the deployment is over when it is read.                 *)
DeploymentSettled ==
  /\ expired # {} => faults > 0
  /\ action = "Create Or Update Resource Group" /\ faults = 0 =>
       /\ step[Main] = "deploy" /\ call[Main].polling /\ call[Main].pc = "done" =>
            op[Main].status # "InProgress" \/ call[Main].answer = "thrown"
       /\ step[Main] = "deployment" => op[Main].status \in {"Succeeded", "Failed"}
       /\ step[Main] = "deployment" /\ call[Main].pc = "done" =>
            call[Main].answer \in {op[Main].status, "thrown"}
       /\ step[Main] \in {"list", "waiting"} => op[Main].status = "Succeeded"

(* Every machine calls back once, and the result is given with the last    *)
(* callback.                                                               *)
At(s) == {v \in Machines : step[v] = s}

CallbacksCounted ==
  action \in VmActions => succeeded = Cardinality(At("ok")) /\ failed = Cardinality(At("failed"))

VerdictIsLast ==
  /\ action \in VmActions /\ step[Main] = "end" => \A v \in VM : step[v] = "idle"
  /\ verdict # "none" =>
    /\ \/ step[Main] = "end"
       \/ action \in VmActions /\ step[Main] = "waiting" /\ Machines = At("ok") \cup At("failed")
    /\ verdict = "Succeeded" /\ action # "DeleteRG" => Machines = At("ok")
    /\ verdict = "Succeeded" /\ action = "DeleteRG" => \A v \in VM : power[v] = "deleted"

IInv ==
  /\ TypeOK /\ Programs /\ ExpiryInOrder /\ OperationsInOrder /\ EffectsStay /\ AcceptedOrLost
  /\ DeploymentSettled /\ CallbacksCounted /\ VerdictIsLast

------------------------------------------------------------------------------
(* The client.                                                             *)

LEMMA PromiseType ==
  ASSUME ClientTypeOK
  PROVE  /\ NewPromise \in Promise /\ Idle \in Request
         /\ \A n \in DOMAIN promise : promise[n] \in Promise
         /\ Len(promise) \in Nat /\ DOMAIN promise = 1 .. Len(promise)
<1>1. 0 \in 0 .. RetryCount - 1 /\ 0 \in 0 .. RetryLimit
  BY RetryAssumption, ClientAssumption
<1>2. NewPromise \in Promise
  BY <1>1 DEF NewPromise, Promise
<1>3. Idle \in Request
  BY <1>1 DEF Idle, Request, Result
<1> QED BY <1>2, <1>3 DEF ClientTypeOK

(* getToken gives everyone the last promise there is then.                 *)
LEMMA GetTokenGives ==
  ASSUME ClientTypeOK, NEW force \in BOOLEAN, GetToken(force)
  PROVE  /\ promise' \in Seq(Promise) /\ Len(promise) <= Len(promise')
         /\ token' \in 1 .. Len(promise') /\ promise'[token'] \in Promise
         /\ force => token' = Len(promise) + 1 /\ promise'[token'] = NewPromise
<1>1. promise \in Seq(Promise) /\ token \in 0 .. Len(promise) /\ Len(promise) \in Nat
  BY DEF ClientTypeOK
<1>2. CASE token = 0 \/ force
  <2>1. promise' = Append(promise, NewPromise) /\ token' = Len(promise) + 1
    BY <1>2 DEF GetToken
  <2>2. /\ promise' \in Seq(Promise) /\ Len(promise') = Len(promise) + 1
        /\ promise'[Len(promise) + 1] = NewPromise
    BY <1>1, <2>1, PromiseType, AppendProperties
  <2> QED BY <1>1, <2>1, <2>2, PromiseType
<1>3. CASE ~ (token = 0 \/ force)
  <2>1. promise' = promise /\ token' = token /\ token \in 1 .. Len(promise)
    BY <1>1, <1>3 DEF GetToken
  <2> QED BY <1>1, <1>3, <2>1
<1> QED BY <1>2, <1>3

(* What becomes of a request that waits for a promise.                     *)
LEMMA ResumedGives ==
  ASSUME NEW r \in Request, NEW state \in {"pending", "good", "rejected"}
  PROVE  /\ Resumed(r, state) \in Request
         /\ Resumed(r, state).held = r.held /\ Resumed(r, state).again = r.again
         /\ Resumed(r, state).polling = r.polling
         /\ \/ Resumed(r, state).pc \in {r.pc, "sent"} /\ Resumed(r, state).answer = r.answer
            \/ Resumed(r, state).pc = "done" /\ Resumed(r, state).answer = "thrown"
<1>1. CASE state = "pending"
  BY <1>1 DEF Resumed
<1>2. CASE state = "good"
  BY <1>2 DEF Resumed, Request, Result
<1>3. CASE state = "rejected"
  BY <1>3 DEF Resumed, Request, Result
<1> QED BY <1>1, <1>2, <1>3

(* A request that begins asks for a token or is sent.                      *)
LEMMA AwaitingGives ==
  ASSUME ClientTypeOK, NEW force \in BOOLEAN, GetToken(force), NEW r \in Request
  PROVE  /\ Awaiting(r) \in Request /\ Awaiting(r).held = token'
         /\ Awaiting(r).again = r.again /\ Awaiting(r).polling = r.polling
         /\ \/ Awaiting(r).pc \in {"token", "sent"} /\ Awaiting(r).answer = r.answer
            \/ Awaiting(r).pc = "done" /\ Awaiting(r).answer = "thrown"
<1> DEFINE waiting == [r EXCEPT !.pc = "token", !.held = token']
<1>1. token' \in Nat /\ promise'[token'] \in Promise
  BY GetTokenGives
<1>2. promise'[token'].state \in {"pending", "good", "rejected"}
  BY <1>1 DEF Promise
<1>3. /\ waiting \in Request /\ waiting.pc = "token" /\ waiting.held = token'
      /\ waiting.again = r.again /\ waiting.polling = r.polling /\ waiting.answer = r.answer
  BY <1>1 DEF Request
<1>4. Awaiting(r) = Resumed(waiting, promise'[token'].state)
  BY DEF Awaiting
<1> HIDE DEF waiting
<1> QED BY <1>2, <1>3, <1>4, ResumedGives

(* The client after a step that gives calls new requests.                  *)
LEMMA ClientKept ==
  ASSUME ClientTypeOK, UNCHANGED scheme, promise' \in Seq(Promise), token' \in 0 .. Len(promise'),
         Len(promise) <= Len(promise'), call' \in [Call -> Request],
         \A c \in Call : call'[c].held \in {call[c].held} \cup 0 .. Len(promise')
  PROVE  ClientTypeOK'
<1>1. Len(promise) \in Nat /\ Len(promise') \in Nat
  BY DEF ClientTypeOK
<1>2. \A c \in Call : call'[c].held \in 0 .. Len(promise')
  BY <1>1 DEF ClientTypeOK
<1> QED BY <1>2 DEF ClientTypeOK
(* What a call does with an answer: it sends its request again, with the   *)
(* same token or a new one, polls, or is done.                             *)
Resent(c, answer) ==
  /\ answer \in Retriable
  /\ call'[c].pc = "sent" /\ call'[c].held = call[c].held /\ call'[c].again = call[c].again
  /\ call'[c].polling = call[c].polling /\ call'[c].answer = call[c].answer
Reissued(c, answer) ==
  /\ answer = "expired" /\ ~ call[c].again /\ call[c].held < call'[c].held
  /\ call'[c].pc \in {"token", "sent"} /\ call'[c].again
  /\ call'[c].polling = call[c].polling /\ call'[c].answer = "none"
Polls(c, answer) ==
  /\ answer \in {"accepted", "InProgress"}
  /\ call'[c].polling /\ ~ call'[c].again /\ call'[c].answer \in {"none", "thrown"}
  /\ call'[c].pc # "idle" /\ (call[c].polling <=> answer = "InProgress")
  /\ call'[c].pc = "done" => call'[c].answer = "thrown"
Concluded(c, answer) ==
  /\ answer # "accepted" /\ ~ (call[c].polling /\ answer = "InProgress")
  /\ answer = "expired" => call[c].again
  /\ call'[c].pc = "done" /\ call'[c].held = call[c].held /\ call'[c].again = call[c].again
  /\ call'[c].polling = call[c].polling
  /\ call'[c].answer = IF answer \in Thrown THEN "thrown" ELSE answer

LEMMA ReceiveGives ==
  ASSUME ClientTypeOK, NEW c \in Call, NEW answer \in Result \ {"none"}, Receive(c, answer)
  PROVE  /\ ClientTypeOK' /\ Len(promise) <= Len(promise')
         /\ \A d \in Call \ {c} : call'[d] = call[d]
         /\ Resent(c, answer) \/ Reissued(c, answer) \/ Polls(c, answer) \/ Concluded(c, answer)
<1>1. /\ call \in [Call -> Request] /\ call[c] \in Request /\ call[c].held \in 0 .. Len(promise)
      /\ Len(promise) \in Nat /\ token \in 0 .. Len(promise)
  BY PromiseType DEF ClientTypeOK
<1>2. CASE Resend(c, answer)
  <2>1. /\ answer \in Retriable /\ call[c].tries + 1 < RetryCount
        /\ call' = [call EXCEPT ![c].tries = @ + 1] /\ UNCHANGED <<scheme, promise, token>>
    BY <1>2 DEF Resend, MayRetry
  <2>2. call[c].tries \in 0 .. RetryCount - 1
    BY <1>1 DEF Request
  <2>3. call[c].tries + 1 \in 0 .. RetryCount - 1
    BY <2>1, <2>2, RetryAssumption
  <2>4. /\ call' \in [Call -> Request] /\ \A d \in Call \ {c} : call'[d] = call[d]
        /\ call'[c] = [call[c] EXCEPT !.tries = call[c].tries + 1]
    BY <1>1, <2>1, <2>3 DEF Request
  <2>5. Resent(c, answer)
    BY <1>1, <2>1, <2>4 DEF Resent, Request, Receive
  <2> QED BY <1>1, <2>1, <2>4, <2>5 DEF ClientTypeOK, Resent
<1>3. CASE Reissue(c, answer)
  <2> DEFINE r == [Idle EXCEPT !.again = TRUE, !.polling = call[c].polling]
  <2>1. /\ answer = "expired" /\ ~ call[c].again /\ GetToken(TRUE) /\ UNCHANGED scheme
        /\ call' = [call EXCEPT ![c] = Awaiting(r)]
    BY <1>3 DEF Reissue
  <2>2. /\ r \in Request /\ r.again = TRUE /\ r.polling = call[c].polling /\ r.answer = "none"
    BY <1>1, PromiseType DEF Request, Idle
  <2>3. /\ promise' \in Seq(Promise) /\ token' \in 1 .. Len(promise') /\ Len(promise) <= Len(promise')
        /\ token' = Len(promise) + 1 /\ promise'[token'] = NewPromise
    BY <2>1, GetTokenGives
  <2>4. /\ Awaiting(r) \in Request /\ Awaiting(r).held = token' /\ Awaiting(r).again = r.again
        /\ Awaiting(r).polling = r.polling
    BY <2>1, <2>2, AwaitingGives
  <2> HIDE DEF r
  <2>5. Awaiting(r).pc = "token" /\ Awaiting(r).answer = "none"
    <3>1. promise'[token'].state = "pending"
      BY <2>3 DEF NewPromise
    <3>2. Awaiting(r) = [r EXCEPT !.pc = "token", !.held = token']
      BY <3>1 DEF Awaiting, Resumed
    <3> QED BY <2>2, <3>2 DEF Request
  <2>6. call' \in [Call -> Request] /\ call'[c] = Awaiting(r) /\ \A d \in Call \ {c} : call'[d] = call[d]
    BY <1>1, <2>1, <2>4
  <2>7. Reissued(c, answer)
    BY <1>1, <2>1, <2>2, <2>3, <2>4, <2>5, <2>6 DEF Reissued
  <2>8. ClientTypeOK'
    BY <2>1, <2>3, <2>4, <2>6, ClientKept
  <2> QED BY <2>3, <2>6, <2>7, <2>8
<1>4. CASE PollAgain(c, answer)
  <2> DEFINE r == [Idle EXCEPT !.polling = TRUE]
  <2>1. /\ answer \in {"accepted", "InProgress"} /\ (call[c].polling <=> answer = "InProgress")
        /\ GetToken(FALSE) /\ UNCHANGED scheme /\ call' = [call EXCEPT ![c] = Awaiting(r)]
    BY <1>1, <1>4 DEF PollAgain, BeginRequest, Request
  <2>2. r \in Request /\ r.again = FALSE /\ r.polling = TRUE /\ r.answer = "none"
    BY PromiseType DEF Request, Idle
  <2>3. promise' \in Seq(Promise) /\ token' \in 1 .. Len(promise') /\ Len(promise) <= Len(promise')
    BY <2>1, GetTokenGives
  <2>4. /\ Awaiting(r) \in Request /\ Awaiting(r).held = token' /\ Awaiting(r).again = r.again
        /\ Awaiting(r).polling = r.polling
        /\ \/ Awaiting(r).pc \in {"token", "sent"} /\ Awaiting(r).answer = r.answer
           \/ Awaiting(r).pc = "done" /\ Awaiting(r).answer = "thrown"
    BY <2>1, <2>2, AwaitingGives
  <2> HIDE DEF r
  <2>5. call' \in [Call -> Request] /\ call'[c] = Awaiting(r) /\ \A d \in Call \ {c} : call'[d] = call[d]
    BY <1>1, <2>1, <2>4
  <2>6. Polls(c, answer)
    BY <2>1, <2>2, <2>4, <2>5 DEF Polls
  <2>7. ClientTypeOK'
    BY <2>1, <2>3, <2>4, <2>5, ClientKept
  <2> QED BY <2>3, <2>5, <2>6, <2>7
<1>5. CASE Conclude(c, answer)
  <2> DEFINE end == IF answer \in Thrown THEN "thrown" ELSE answer
  <2>1. /\ answer # "accepted" /\ ~ (call[c].polling /\ answer = "InProgress")
        /\ answer = "expired" => call[c].again
        /\ call' = [call EXCEPT ![c].pc = "done", ![c].answer = end]
        /\ UNCHANGED <<scheme, promise, token>>
    BY <1>5 DEF Conclude
  <2>2. end \in Result
    BY DEF Result
  <2>3. /\ call' \in [Call -> Request] /\ \A d \in Call \ {c} : call'[d] = call[d]
        /\ call'[c] = [call[c] EXCEPT !.pc = "done", !.answer = end]
    BY <1>1, <2>1, <2>2 DEF Request
  <2> HIDE DEF end
  <2>4. /\ call'[c].pc = "done" /\ call'[c].answer = end /\ call'[c].held = call[c].held
        /\ call'[c].again = call[c].again /\ call'[c].polling = call[c].polling
    BY <1>1, <2>3 DEF Request
  <2>5. Concluded(c, answer)
    BY <2>1, <2>4 DEF Concluded, end
  <2> QED BY <1>1, <2>1, <2>3, <2>4, <2>5 DEF ClientTypeOK
<1> QED BY <1>2, <1>3, <1>4, <1>5 DEF Receive

(* A request that has just begun, or has failed for want of a token.       *)
Fresh(r) ==
  /\ ~ r.again /\ ~ r.polling
  /\ \/ r.pc \in {"token", "sent"} /\ r.answer = "none"
     \/ r.pc = "done" /\ r.answer = "thrown"

LEMMA FreshBegins ==
  ASSUME ClientTypeOK, GetToken(FALSE), NEW r \in Request,
         r.again = FALSE, r.polling = FALSE, r.answer = "none"
  PROVE  /\ Awaiting(r) \in Request /\ Fresh(Awaiting(r))
         /\ Awaiting(r).held \in 0 .. Len(promise')
         /\ promise' \in Seq(Promise) /\ token' \in 0 .. Len(promise') /\ Len(promise) <= Len(promise')
<1>1. promise' \in Seq(Promise) /\ token' \in 1 .. Len(promise') /\ Len(promise) <= Len(promise')
  BY GetTokenGives
<1>2. /\ Awaiting(r) \in Request /\ Awaiting(r).held = token'
      /\ Awaiting(r).again = FALSE /\ Awaiting(r).polling = FALSE
      /\ \/ Awaiting(r).pc \in {"token", "sent"} /\ Awaiting(r).answer = "none"
         \/ Awaiting(r).pc = "done" /\ Awaiting(r).answer = "thrown"
  BY AwaitingGives
<1>3. Fresh(Awaiting(r))
  BY <1>2 DEF Fresh
<1> QED BY <1>1, <1>2, <1>3

LEMMA IdleIsFresh ==
  ASSUME ClientTypeOK
  PROVE  /\ Idle \in Request /\ Idle.again = FALSE /\ Idle.polling = FALSE /\ Idle.answer = "none"
         /\ Idle.held = 0 /\ Idle.pc = "idle"
BY PromiseType DEF Idle

LEMMA BeginGives ==
  ASSUME ClientTypeOK, NEW c \in Call, BeginRequest(c, FALSE)
  PROVE  /\ ClientTypeOK' /\ Len(promise) <= Len(promise')
         /\ Fresh(call'[c]) /\ \A d \in Call \ {c} : call'[d] = call[d]
<1> DEFINE r == [Idle EXCEPT !.polling = FALSE]
<1>1. r \in Request /\ r.again = FALSE /\ r.polling = FALSE /\ r.answer = "none"
  BY PromiseType DEF Idle, Request
<1>2. GetToken(FALSE) /\ UNCHANGED scheme /\ call' = [call EXCEPT ![c] = Awaiting(r)]
  BY DEF BeginRequest
<1> HIDE DEF r
<1>3. /\ Awaiting(r) \in Request /\ Fresh(Awaiting(r))
      /\ Awaiting(r).held \in 0 .. Len(promise')
      /\ promise' \in Seq(Promise) /\ token' \in 0 .. Len(promise') /\ Len(promise) <= Len(promise')
  BY <1>1, <1>2, FreshBegins
<1>4. /\ call' \in [Call -> Request] /\ call'[c] = Awaiting(r)
      /\ \A d \in Call \ {c} : call'[d] = call[d]
  BY <1>2, <1>3 DEF ClientTypeOK
<1>5. ClientTypeOK'
  BY <1>2, <1>3, <1>4, ClientKept
<1> QED BY <1>3, <1>4, <1>5

LEMMA ForkGives ==
  ASSUME ClientTypeOK, NEW c \in Call, NEW C \in SUBSET Call, c \notin C, Fork(c, C)
  PROVE  /\ ClientTypeOK' /\ Len(promise) <= Len(promise')
         /\ call'[c] = Idle /\ \A d \in C : Fresh(call'[d])
         /\ \A d \in Call : d \notin C /\ d # c => call'[d] = call[d]
<1>1. /\ GetToken(FALSE) /\ UNCHANGED scheme
      /\ call' = [d \in Call |-> IF d \in C THEN Awaiting(Idle) ELSE IF d = c THEN Idle ELSE call[d]]
  BY DEF Fork
<1>2. /\ Awaiting(Idle) \in Request /\ Fresh(Awaiting(Idle))
      /\ Awaiting(Idle).held \in 0 .. Len(promise')
      /\ promise' \in Seq(Promise) /\ token' \in 0 .. Len(promise') /\ Len(promise) <= Len(promise')
  BY <1>1, IdleIsFresh, FreshBegins
<1>3. call \in [Call -> Request] /\ Idle \in Request /\ Idle.held = 0 /\ Len(promise') \in Nat
  BY <1>2, PromiseType DEF ClientTypeOK, Idle
<1>4. /\ call' \in [Call -> Request]
      /\ \A d \in Call : call'[d].held \in {call[d].held} \cup 0 .. Len(promise')
  BY <1>1, <1>2, <1>3
<1>5. ClientTypeOK'
  BY <1>1, <1>2, <1>4, ClientKept
<1> QED BY <1>1, <1>2, <1>5

LEMMA ReturnGives ==
  ASSUME ClientTypeOK, NEW c \in Call, NEW s, Return(c, s)
  PROVE  /\ ClientTypeOK' /\ promise' = promise
         /\ call'[c] = Idle /\ \A d \in Call \ {c} : call'[d] = call[d]
<1>1. Idle \in Request /\ Idle.held = 0 /\ Len(promise) \in Nat
  BY PromiseType DEF Idle
<1>2. call' = [call EXCEPT ![c] = Idle] /\ UNCHANGED <<scheme, promise, token>>
  BY DEF Return
<1> QED BY <1>1, <1>2 DEF ClientTypeOK

(* A token that comes, or does not, is told to those who wait for it.      *)
Told(c) ==
  \/ call'[c] = call[c]
  \/ /\ call[c].pc = "token"
     /\ call'[c].again = call[c].again /\ call'[c].polling = call[c].polling
     /\ call'[c].held = call[c].held
     /\ \/ call'[c].pc \in {"token", "sent"} /\ call'[c].answer = call[c].answer
        \/ call'[c].pc = "done" /\ call'[c].answer = "thrown"

LEMMA SettleGives ==
  ASSUME ClientTypeOK, NEW n \in DOMAIN promise, NEW state \in {"good", "rejected"},
         Settle(n, state), UNCHANGED <<scheme, token>>
  PROVE  ClientTypeOK' /\ Len(promise') = Len(promise) /\ \A c \in Call : Told(c)
<1>1. call \in [Call -> Request] /\ promise \in Seq(Promise) /\ promise[n] \in Promise
  BY PromiseType DEF ClientTypeOK
<1>2. /\ promise' = [promise EXCEPT ![n] = [promise[n] EXCEPT !.state = state]]
      /\ call' = [c \in Call |-> IF call[c].pc = "token" /\ call[c].held = n
                                 THEN Resumed(call[c], state) ELSE call[c]]
  BY DEF Settle
<1>3. [promise[n] EXCEPT !.state = state] \in Promise
  BY <1>1 DEF Promise
<1>4. promise' \in Seq(Promise) /\ Len(promise') = Len(promise)
  BY <1>1, <1>2, <1>3
<1>5. ASSUME NEW c \in Call
      PROVE  call'[c] \in Request /\ call'[c].held = call[c].held /\ Told(c)
  <2>1. CASE call[c].pc = "token" /\ call[c].held = n
    <3>1. call'[c] = Resumed(call[c], state) /\ call[c] \in Request
      BY <1>1, <1>2, <2>1
    <3> QED BY <2>1, <3>1, ResumedGives DEF Told
  <2>2. CASE ~ (call[c].pc = "token" /\ call[c].held = n)
    BY <1>1, <1>2, <2>2 DEF Told
  <2> QED BY <2>1, <2>2
<1>6. call' \in [Call -> Request]
  BY <1>2, <1>5
<1>7. ClientTypeOK'
  BY <1>4, <1>5, <1>6 DEF ClientTypeOK
<1> QED BY <1>4, <1>5, <1>7

LEMMA TokenGives ==
  ASSUME ClientTypeOK, NEW n \in DOMAIN promise,
         TokenGranted(n) \/ \E answer \in TokenFault : TokenDenied(n, answer)
  PROVE  ClientTypeOK' /\ Len(promise') = Len(promise) /\ \A c \in Call : Told(c)
<1>1. promise \in Seq(Promise) /\ promise[n] \in Promise
  BY PromiseType DEF ClientTypeOK
<1>2. CASE \E state \in {"good", "rejected"} : Settle(n, state) /\ UNCHANGED <<scheme, token>>
  BY <1>2, SettleGives
<1>3. ASSUME NEW p \in Promise, promise' = [promise EXCEPT ![n] = p], UNCHANGED <<scheme, token, call>>
      PROVE  ClientTypeOK' /\ Len(promise') = Len(promise) /\ \A c \in Call : Told(c)
  <2>1. promise' \in Seq(Promise) /\ Len(promise') = Len(promise)
    BY <1>1, <1>3
  <2> QED BY <1>3, <2>1 DEF ClientTypeOK, Told
<1>4. ASSUME NEW answer \in TokenFault, TokenDenied(n, answer), ~ Settle(n, "rejected")
      PROVE  /\ UNCHANGED <<scheme, token, call>>
             /\ \E p \in Promise : promise' = [promise EXCEPT ![n] = p]
  <2>1. promise[n].tries \in 0 .. RetryCount - 1 /\ promise[n].rounds \in 0 .. RetryLimit
    BY <1>1 DEF Promise
  <2>2. CASE MayRetry(promise[n].tries, answer) /\ promise' = [promise EXCEPT ![n].tries = @ + 1]
    <3>1. promise[n].tries + 1 \in 0 .. RetryCount - 1
      BY <2>1, <2>2, RetryAssumption DEF MayRetry
    <3>2. [promise[n] EXCEPT !.tries = promise[n].tries + 1] \in Promise
      BY <1>1, <3>1 DEF Promise
    <3> QED BY <1>4, <2>2, <3>2 DEF TokenDenied, Settle
  <2>3. CASE /\ MayRenew(promise[n], answer)
             /\ promise' = [promise EXCEPT ![n].tries = 0, ![n].rounds = @ + 1]
    <3>1. promise[n].rounds + 1 \in 0 .. RetryLimit /\ 0 \in 0 .. RetryCount - 1
      BY <2>1, <2>3, RetryAssumption, ClientAssumption DEF MayRenew
    <3>2. [promise[n] EXCEPT !.tries = 0, !.rounds = promise[n].rounds + 1] \in Promise
      BY <1>1, <3>1 DEF Promise
    <3>3. promise' = [promise EXCEPT ![n] = [promise[n] EXCEPT !.tries = 0, !.rounds = promise[n].rounds + 1]]
      BY <1>1, <2>3 DEF Promise
    <3> QED BY <1>4, <2>3, <3>2, <3>3 DEF TokenDenied, Settle
  <2> QED BY <1>4, <2>2, <2>3 DEF TokenDenied
<1>5. CASE TokenGranted(n)
  BY <1>2, <1>5 DEF TokenGranted
<1>6. ASSUME NEW answer \in TokenFault, TokenDenied(n, answer)
      PROVE  ClientTypeOK' /\ Len(promise') = Len(promise) /\ \A c \in Call : Told(c)
  <2>1. CASE Settle(n, "rejected")
    BY <1>2, <1>6, <2>1 DEF TokenDenied
  <2>2. CASE ~ Settle(n, "rejected")
    BY <1>3, <1>4, <1>6, <2>2
  <2> QED BY <2>1, <2>2
<1> QED BY <1>5, <1>6

------------------------------------------------------------------------------
(* The programs.                                                           *)

Base == TypeOK /\ Programs

LEMMA MachinesOfPages ==
  ASSUME TypeOK
  PROVE  Machines \subseteq VM /\ IsFiniteSet(Machines)
<1>1. pages \in Seq(SUBSET VM)
  BY GroupAssumption DEF TypeOK
<1>2. Machines \subseteq VM
  BY <1>1 DEF Machines
<1> QED BY <1>2, GroupAssumption, FS_Subset

(* Which actions a step belongs to.                                        *)
LEMMA StepsOfActions ==
  ASSUME Base
  PROVE  /\ action \in VmActions \cup AgentActions \cup {"DeleteRG"}
         /\ StepsOf(action) \subseteq VmSteps /\ MainStepsOf(action) \subseteq MainSteps
         /\ "operate" \in StepsOf(action) <=> action \in VmActions \ {"Delete"}
         /\ "unregister" \in StepsOf(action) <=> action \in {"Delete", "DeleteRG"}
         /\ "deleteVm" \in StepsOf(action) <=> action = "Delete"
         /\ \A s \in {"view", "start", "review", "extension", "clean", "add", "undo"} :
              s \in StepsOf(action) <=> action \in AgentActions
         /\ "deleteGroup" \in MainStepsOf(action) <=> action = "DeleteRG"
         /\ \A s \in {"exists", "createGroup", "deploy", "deployment"} :
              s \in MainStepsOf(action) <=> action = "Create Or Update Resource Group"
         /\ "list" \in MainStepsOf(action)
<1>1. action \in VmActions \cup AgentActions \cup {"DeleteRG"}
  BY GroupAssumption DEF Base, TypeOK
<1>2. CASE action \in VmActions \ {"Delete"}
  BY <1>2 DEF StepsOf, MainStepsOf, VmSteps, MainSteps, VmActions, AgentActions
<1>3. CASE action = "Delete"
  BY <1>3 DEF StepsOf, MainStepsOf, VmSteps, MainSteps, VmActions, AgentActions
<1>4. CASE action = "DeleteRG"
  BY <1>4 DEF StepsOf, MainStepsOf, VmSteps, MainSteps, VmActions, AgentActions
<1>5. CASE action \in AgentActions
  BY <1>5 DEF StepsOf, MainStepsOf, VmSteps, MainSteps, VmActions, AgentActions
<1> QED BY <1>1, <1>2, <1>3, <1>4, <1>5


(* What a step of the program of a machine comes to: its next request, an  *)
(* end nobody is told of, or an end that is counted for an action.         *)
reported == <<succeeded, failed, verdict>>
GoesOn(v) ==
  \E s \in StepsOf(action) \ {"operate", "unregister"} :
    /\ Go(v, s) /\ UNCHANGED reported
    /\ s = "deleteVm" => step[v] = "unregister"
Ended(v) ==
  \E s \in {"ok", "failed"} :
    /\ Return(v, s)
    /\ s = "ok" => Good(v, step[v])
    /\ s = "ok" /\ action # "DeleteRG" => step[v] \in {"operate", "deleteVm", "add"}
    /\ action \in VmActions => Called(v, s = "ok")
    /\ action \notin VmActions => UNCHANGED reported
Stopped(v) == Return(v, "silent") /\ UNCHANGED reported

LEMMA VmProgramMoves ==
  ASSUME Base, NEW v \in VM, VmProgram(v)
  PROVE  /\ UNCHANGED <<unseen, page>> /\ removed' \subseteq VM
         /\ call[v].pc = "done" /\ step[v] \in VmSteps
         /\ GoesOn(v) \/ Ended(v) \/ Stopped(v)
<1>1. step[v] \in StepsOf(action) \cup Ends \cup {"idle"}
  BY DEF Base, Programs
<1>2. /\ call[v].pc = "done" /\ step[v] \in Asking
      /\ UNCHANGED <<unseen, page>>
  BY DEF VmProgram, Started, PoweredOff, Deallocated, Restarted, Unregistered, Deleted, Operated,
         Viewed, StartEnded, Reviewed, ExtensionRead, Cleaned, Added, Undone, Withdrawn, Vanished,
         Good, Bad, Silent, Done, quiet, Asking, MainSteps, VmSteps, LongRunning
<1>3. step[v] \in StepsOf(action) /\ step[v] \in VmSteps
  BY <1>1, <1>2, StepsOfActions DEF Asking, Ends, MainSteps, VmSteps
<1>4. removed' \subseteq VM
  BY DEF VmProgram, Started, PoweredOff, Deallocated, Restarted, Unregistered, Deleted, Operated,
         Viewed, StartEnded, Reviewed, ExtensionRead, Cleaned, Added, Undone, Withdrawn, Vanished,
         Removal, Base, TypeOK
<1>5. CASE Started(v) \/ PoweredOff(v) \/ Deallocated(v) \/ Restarted(v) \/ Deleted(v)
  <2>1. PICK s \in {"operate", "deleteVm"} : Operated(v, s)
    BY <1>5 DEF Started, PoweredOff, Deallocated, Restarted, Deleted
  <2>2. step[v] = s /\ action \in VmActions
    BY <1>3, <2>1, StepsOfActions DEF Operated, Good, Bad, Done, VmActions
  <2>3. \/ Good(v, s) /\ Return(v, "ok") /\ Called(v, TRUE)
        \/ Return(v, "failed") /\ Called(v, FALSE)
    BY <2>1 DEF Operated
  <2>4. Ended(v)
    BY <2>2, <2>3 DEF Ended, Called
  <2> QED BY <1>2, <1>3, <1>4, <2>4
<1>6. CASE Unregistered(v)
  BY <1>2, <1>3, <1>4, <1>6, StepsOfActions
     DEF Unregistered, GoesOn, reported, Good, Bad, Done
<1>7. CASE Viewed(v) \/ StartEnded(v) \/ Reviewed(v) \/ ExtensionRead(v) \/ Cleaned(v) \/ Undone(v)
  <2>1. action \in AgentActions /\ action \notin VmActions
    BY <1>3, <1>7, StepsOfActions
       DEF Viewed, StartEnded, Reviewed, ExtensionRead, Cleaned, Undone, Good, Bad, Done,
           AgentActions, VmActions
  <2>2. \/ \E s \in {"extension", "start", "review", "clean", "add"} : Go(v, s)
        \/ Return(v, "failed")
    BY <1>7 DEF Viewed, StartEnded, Reviewed, ExtensionRead, Cleaned, Undone
  <2>3. UNCHANGED reported
    BY <1>7 DEF Viewed, StartEnded, Reviewed, ExtensionRead, Cleaned, Undone, quiet, reported
  <2>4. GoesOn(v) \/ Ended(v)
    BY <2>1, <2>2, <2>3, StepsOfActions DEF GoesOn, Ended
  <2> QED BY <1>2, <1>3, <1>4, <2>4
<1>8. CASE Added(v)
  <2>1. step[v] = "add" /\ UNCHANGED reported
    BY <1>8 DEF Added, Good, Bad, Done, quiet, reported
  <2>2. action \in AgentActions /\ action \notin VmActions
    BY <1>3, <2>1, StepsOfActions DEF AgentActions, VmActions
  <2>3. CASE Good(v, "add") /\ Return(v, "ok")
    <3>1. Good(v, step[v])
      BY <2>1, <2>3
    <3>2. Ended(v)
      BY <2>1, <2>2, <2>3, <3>1 DEF Ended
    <3> QED BY <1>2, <1>3, <1>4, <3>2
  <2>4. CASE Go(v, "undo")
    <3>1. "undo" \in StepsOf(action) \ {"operate", "unregister"}
      BY <2>2, StepsOfActions
    <3>2. GoesOn(v)
      BY <2>1, <2>4, <3>1 DEF GoesOn
    <3> QED BY <1>2, <1>3, <1>4, <3>2
  <2> QED BY <1>8, <2>3, <2>4 DEF Added
<1>9. CASE Withdrawn(v)
  <2>1. Ended(v)
    BY <1>9 DEF Withdrawn, Ended, Good, Bad, Done, quiet, reported, VmActions
  <2> QED BY <1>2, <1>3, <1>4, <2>1
<1>10. CASE Vanished(v)
  BY <1>2, <1>3, <1>4, <1>10 DEF Vanished, Stopped, quiet, reported
<1> QED BY <1>5, <1>6, <1>7, <1>8, <1>9, <1>10 DEF VmProgram


(* What a step of the program of the task comes to: its next request, the  *)
(* start of the machines' programs, or its result.                         *)
TaskGoesOn ==
  \E s \in MainStepsOf(action) \ {"exists"} :
    /\ Go(Main, s) /\ UNCHANGED verdict
    /\ s # "deleteGroup" => step[Main] \in MainSteps \ {"deleteGroup"}
    /\ s = "deployment" =>
         step[Main] = "deploy" /\ call[Main].pc = "done" /\ call[Main].polling
         /\ call[Main].answer # "thrown"
    /\ s = "list" =>
         \/ step[Main] = "list"
         \/ step[Main] = "deployment" /\ call[Main].pc = "done"
            /\ call[Main].answer \in {"Succeeded", "InProgress"}
TaskForks ==
  /\ step[Main] = "list" /\ Machines # {}
  /\ step' = [c \in Call |-> IF c \in Machines THEN FirstVmStep
                             ELSE IF c = Main THEN "waiting" ELSE step[c]]
  /\ Fork(Main, Machines)
  /\ UNCHANGED verdict
TaskEnds ==
  \E r \in {"Succeeded", "Failed"} :
    /\ Finish(r)
    /\ action \in VmActions => step[Main] = "list"
    /\ r = "Succeeded" =>
         \/ step[Main] = "list" /\ Machines = {} /\ action # "DeleteRG"
         \/ action \in AgentActions /\ \A v \in Machines : step[v] = "ok"
         \/ action = "DeleteRG" /\ Good(Main, "deleteGroup")

LEMMA MainProgramMoves ==
  ASSUME Base, MainProgram
  PROVE  /\ UNCHANGED <<unseen, counts, removed>> /\ page' \in 1 .. Len(pages)
         /\ \/ call[Main].pc = "done" /\ step[Main] \in MainSteps
            \/ step[Main] = "waiting" /\ action \notin VmActions
         /\ TaskGoesOn \/ TaskForks \/ TaskEnds
<1>1. /\ step[Main] \in MainStepsOf(action) \cup {"waiting", "end"}
      /\ page \in 1 .. Len(pages) /\ Len(pages) \in Nat
  BY GroupAssumption DEF Base, Programs, TypeOK
<1>2. ASSUME step[Main] \in MainSteps
      PROVE  /\ step[Main] \in MainStepsOf(action)
             /\ step[Main] # "list" /\ action # "DeleteRG" => action = "Create Or Update Resource Group"
             /\ step[Main] \in {"exists", "createGroup", "deploy", "deployment"} =>
                  action = "Create Or Update Resource Group"
             /\ step[Main] = "deleteGroup" => action = "DeleteRG"
  BY <1>1, <1>2, StepsOfActions DEF MainSteps
<1>3. "Create Or Update Resource Group" \in AgentActions \ VmActions
  BY DEF AgentActions, VmActions
<1>4. CASE GroupChecked
  <2>1. step[Main] = "exists" /\ call[Main].pc = "done"
    BY <1>4 DEF GroupChecked, Done
  <2>2. action = "Create Or Update Resource Group" /\ {"deploy", "createGroup"} \subseteq MainStepsOf(action)
    BY <1>2, <2>1, StepsOfActions DEF MainSteps
  <2>3. /\ UNCHANGED <<unseen, page, counts, removed>>
        /\ \/ \E s \in {"deploy", "createGroup"} : Go(Main, s) /\ UNCHANGED verdict
           \/ Finish("Failed")
    BY <1>4 DEF GroupChecked
  <2>4. TaskGoesOn \/ TaskEnds
    BY <1>3, <2>1, <2>2, <2>3 DEF TaskGoesOn, TaskEnds, MainSteps
  <2> QED BY <1>1, <2>1, <2>3, <2>4 DEF MainSteps
<1>5. CASE GroupCreated
  <2>1. step[Main] = "createGroup" /\ call[Main].pc = "done"
    BY <1>5 DEF GroupCreated, Done
  <2>2. action = "Create Or Update Resource Group" /\ "deploy" \in MainStepsOf(action)
    BY <1>2, <2>1, StepsOfActions DEF MainSteps
  <2>3. /\ UNCHANGED <<unseen, page, counts, removed>>
        /\ \/ Go(Main, "deploy") /\ UNCHANGED verdict
           \/ Finish("Failed")
    BY <1>5 DEF GroupCreated
  <2>4. Finish("Failed") => TaskEnds
    BY <1>3, <2>2 DEF TaskEnds
  <2>5. ~ Finish("Failed") => TaskGoesOn
    <3> SUFFICES ASSUME ~ Finish("Failed")
                 PROVE  TaskGoesOn
      OBVIOUS
    <3>1. "deploy" \in MainStepsOf(action) \ {"exists"} /\ "createGroup" \in MainSteps \ {"deleteGroup"}
      BY <2>2 DEF MainSteps
    <3> QED BY <2>1, <2>3, <3>1 DEF TaskGoesOn
  <2> QED BY <1>1, <2>1, <2>3, <2>4, <2>5 DEF MainSteps
<1>6. CASE Deployed
  <2>1. step[Main] = "deploy" /\ call[Main].pc = "done"
    BY <1>6 DEF Deployed, Done
  <2>2. action = "Create Or Update Resource Group" /\ "deployment" \in MainStepsOf(action)
    BY <1>2, <2>1, StepsOfActions DEF MainSteps
  <2>3. /\ UNCHANGED <<unseen, page, counts, removed>>
        /\ \/ /\ Go(Main, "deployment") /\ UNCHANGED verdict
              /\ call[Main].polling /\ call[Main].answer # "thrown"
           \/ Finish("Failed")
    BY <1>6 DEF Deployed
  <2>4. Finish("Failed") => TaskEnds
    BY <1>3, <2>2 DEF TaskEnds
  <2>5. ~ Finish("Failed") => TaskGoesOn
    <3> SUFFICES ASSUME ~ Finish("Failed")
                 PROVE  TaskGoesOn
      OBVIOUS
    <3>1. "deployment" \in MainStepsOf(action) \ {"exists"} /\ "deploy" \in MainSteps \ {"deleteGroup"}
      BY <2>2 DEF MainSteps
    <3> QED BY <2>1, <2>3, <3>1 DEF TaskGoesOn
  <2> QED BY <1>1, <2>1, <2>3, <2>4, <2>5 DEF MainSteps
<1>7. CASE DeploymentRead
  <2>1. step[Main] = "deployment" /\ call[Main].pc = "done"
    BY <1>7 DEF DeploymentRead, Done
  <2>2. action = "Create Or Update Resource Group" /\ "list" \in MainStepsOf(action)
    BY <1>2, <2>1, StepsOfActions DEF MainSteps
  <2>3. /\ UNCHANGED <<unseen, page, counts, removed>>
        /\ \/ /\ Go(Main, "list") /\ UNCHANGED verdict
              /\ call[Main].answer \in {"Succeeded", "InProgress"}
           \/ Finish("Failed")
    BY <1>7 DEF DeploymentRead
  <2>4. Finish("Failed") => TaskEnds
    BY <1>3, <2>2 DEF TaskEnds
  <2>5. ~ Finish("Failed") => TaskGoesOn
    <3> SUFFICES ASSUME ~ Finish("Failed")
                 PROVE  TaskGoesOn
      OBVIOUS
    <3>1. "list" \in MainStepsOf(action) \ {"exists"} /\ "deployment" \in MainSteps \ {"deleteGroup"}
      BY <2>2 DEF MainSteps
    <3> QED BY <2>1, <2>3, <3>1 DEF TaskGoesOn
  <2> QED BY <1>1, <2>1, <2>3, <2>4, <2>5 DEF MainSteps
<1>8. CASE Listed
  <2>1. step[Main] = "list" /\ call[Main].pc = "done" /\ UNCHANGED <<unseen, counts, removed>>
    BY <1>8 DEF Listed, Done
  <2>2. "list" \in MainStepsOf(action) /\ (action = "DeleteRG" => "deleteGroup" \in MainStepsOf(action))
    BY StepsOfActions
  <2>3. CASE call[Main].answer # "ok"
    BY <1>1, <1>8, <2>1, <2>2, <2>3 DEF Listed, TaskGoesOn, TaskEnds, MainSteps
  <2>4. CASE call[Main].answer = "ok" /\ page < Len(pages)
    <3>1. page # Len(pages) /\ page + 1 \in 1 .. Len(pages)
      BY <1>1, <2>4
    <3>2. page' = page + 1
      BY <1>8, <2>4, <3>1 DEF Listed
    <3>3. Go(Main, "list") /\ UNCHANGED verdict
      BY <1>8, <2>4, <3>1 DEF Listed
    <3>4. TaskGoesOn
      BY <2>1, <2>2, <3>3 DEF TaskGoesOn, MainSteps
    <3> QED BY <2>1, <3>1, <3>2, <3>4 DEF MainSteps
  <2>5. CASE call[Main].answer = "ok" /\ page = Len(pages) /\ Machines # {}
    <3>1. ~ (page < Len(pages))
      BY <1>1, <2>5
    <3>2. TaskForks /\ UNCHANGED page
      BY <1>8, <2>1, <2>5, <3>1 DEF Listed, TaskForks
    <3> QED BY <1>1, <2>1, <3>2 DEF MainSteps
  <2>6. CASE call[Main].answer = "ok" /\ page = Len(pages) /\ Machines = {}
    <3>1. ~ (page < Len(pages))
      BY <1>1, <2>6
    <3>2. /\ UNCHANGED page
          /\ \/ action = "DeleteRG" /\ Go(Main, "deleteGroup") /\ UNCHANGED verdict
             \/ action # "DeleteRG" /\ Finish("Succeeded")
      BY <1>8, <2>6, <3>1 DEF Listed
    <3>3. TaskGoesOn \/ TaskEnds
      BY <2>1, <2>2, <2>6, <3>2 DEF TaskGoesOn, TaskEnds
    <3> QED BY <1>1, <2>1, <3>2, <3>3 DEF MainSteps
  <2>7. page = Len(pages) \/ page < Len(pages)
    BY <1>1
  <2> QED BY <2>3, <2>4, <2>5, <2>6, <2>7
<1>9. CASE Joined
  <2>1. /\ step[Main] = "waiting" /\ action \notin VmActions /\ UNCHANGED <<unseen, page, counts, removed>>
        /\ (\E v \in Machines : step[v] = "failed") \/ (\A v \in Machines : step[v] = "ok")
    BY <1>9 DEF Joined, Settled
  <2>2. action = "DeleteRG" => "deleteGroup" \in MainStepsOf(action)
    BY StepsOfActions
  <2>3. \/ action = "DeleteRG" /\ Go(Main, "deleteGroup") /\ UNCHANGED verdict
        \/ Finish("Failed")
        \/ Finish("Succeeded") /\ action # "DeleteRG" /\ \A v \in Machines : step[v] = "ok"
    BY <1>9, <2>1 DEF Joined
  <2>4. action # "DeleteRG" => action \in AgentActions
    BY <2>1, StepsOfActions
  <2>5. TaskGoesOn \/ TaskEnds
    BY <2>1, <2>2, <2>3, <2>4 DEF TaskGoesOn, TaskEnds
  <2> QED BY <1>1, <2>1, <2>5
<1>10. CASE GroupDeleted
  <2>1. /\ step[Main] = "deleteGroup" /\ call[Main].pc = "done"
        /\ UNCHANGED <<unseen, page, counts, removed>>
        /\ \/ Finish("Failed")
           \/ Finish("Succeeded") /\ Good(Main, "deleteGroup")
    BY <1>10 DEF GroupDeleted, Good, Bad, Done
  <2>2. action = "DeleteRG" /\ action \notin VmActions
    BY <1>2, <2>1 DEF MainSteps, VmActions
  <2>3. TaskEnds
    BY <2>1, <2>2 DEF TaskEnds
  <2> QED BY <1>1, <2>1, <2>3 DEF MainSteps
<1> QED BY <1>4, <1>5, <1>6, <1>7, <1>8, <1>9, <1>10 DEF MainProgram


------------------------------------------------------------------------------
(* The types and the programs.                                             *)

Steps == MainSteps \cup VmSteps \cup Ends \cup {"idle", "waiting", "end"}

LEMMA InitBase == Init => Base
<1> SUFFICES ASSUME Init
             PROVE  Base
  OBVIOUS
<1>1. promise = <<NewPromise>> /\ token = 1 /\ NewPromise \in Promise /\ Idle \in Request
  <2>1. 0 \in 0 .. RetryCount - 1 /\ 0 \in 0 .. RetryLimit
    BY RetryAssumption, ClientAssumption
  <2> QED BY <2>1 DEF Init, NewPromise, Promise, Idle, Request, Result
<1>2. promise \in Seq(Promise) /\ Len(promise) = 1
  BY <1>1
<1>3. /\ call \in [Call -> Request]
      /\ \A c \in Call : call[c].held \in 0 .. 1
      /\ call[Main].pc = "token" /\ \A c \in Call \ {Main} : call[c] = Idle
  <2> DEFINE first == [Idle EXCEPT !.pc = "token", !.held = 1]
  <2>1. first \in Request /\ first.pc = "token" /\ first.held = 1 /\ Idle.held = 0
    BY <1>1 DEF Idle, Request
  <2>2. call = [c \in Call |-> IF c = Main THEN first ELSE Idle] /\ Main \in Call
    BY GroupAssumption DEF Init
  <2> HIDE DEF first
  <2> QED BY <1>1, <2>1, <2>2
<1>4. ClientTypeOK
  <2>1. scheme \in Schemes /\ Len(promise) = 1 /\ token = 1
    BY <1>2 DEF Init
  <2> QED BY <1>2, <1>3, <2>1 DEF ClientTypeOK
<1>5. pages \in Listings /\ pages \in Seq(SUBSET VM) /\ pages # << >> /\ page = 1
  BY GroupAssumption DEF Init
<1>6. page \in 1 .. Len(pages)
  BY <1>5
<1>7. PICK fleet \in Fleets : /\ power = [v \in VM |-> fleet[v].power]
                              /\ ext = [v \in VM |-> fleet[v].ext]
  BY DEF Init
<1>8. /\ power \in [VM -> {"running", "deallocated", "stopped"}]
      /\ ext \in [VM -> {"none", "Succeeded", "Failed"}]
  <2>1. fleet \in [VM -> [power : {"running", "deallocated", "stopped"},
                          ext : {"none", "Succeeded", "Failed"}]]
    BY GroupAssumption
  <2>2. \A v \in VM : /\ fleet[v].power \in {"running", "deallocated", "stopped"}
                      /\ fleet[v].ext \in {"none", "Succeeded", "Failed"}
    BY <2>1
  <2> QED BY <1>7, <2>2
<1>9. /\ step = [c \in Call |-> IF c = Main THEN FirstStep(action) ELSE "idle"]
      /\ action \in Actions /\ Main \in Call
  BY GroupAssumption DEF Init
<1>10. FirstStep(action) \in {"exists", "list"} /\ FirstStep(action) \in MainStepsOf(action)
  BY <1>9, GroupAssumption DEF FirstStep, MainStepsOf, AgentActions, VmActions
<1>11. step \in [Call -> Steps]
  BY <1>9, <1>10 DEF Steps, MainSteps
<1>12. op = [c \in Call |-> [kind |-> "none", status |-> "none"]]
       /\ [kind |-> "none", status |-> "none"] \in Operation
  BY DEF Init, Operation
<1>13. faults \in 0 .. MaxFaults /\ accepted \in [VM -> Nat] /\ lost \in [VM -> Nat]
  <2>1. faults = 0 /\ MaxFaults \in Nat
    BY GroupAssumption DEF Init
  <2>2. accepted = [v \in VM |-> 0] /\ lost = [v \in VM |-> 0]
    BY DEF Init
  <2> QED BY <2>1, <2>2
<1>14. /\ group \in BOOLEAN /\ succeeded = 0 /\ failed = 0 /\ verdict = "none" /\ removed = {}
       /\ expired = {}
  BY DEF Init
<1>15. TypeOK
  BY <1>4, <1>5, <1>6, <1>8, <1>9, <1>11, <1>12, <1>13, <1>14 DEF TypeOK, Steps
<1>16. Programs
  <2>1. \A v \in VM : step[v] = "idle" /\ v # Main /\ v \in Call
    BY <1>9, GroupAssumption
  <2>2. step[Main] \in MainStepsOf(action) /\ step[Main] \in Asking
    BY <1>9, <1>10 DEF Asking, MainSteps
  <2>3. \A c \in Call \ {Main} : step[c] = "idle" /\ step[c] \notin Asking
    BY <1>9 DEF Asking, MainSteps, VmSteps
  <2>4. \A c \in Call : AtRequest(c)
    <3> TAKE c \in Call
    <3>1. CASE c = Main
      <4>1. call = [d \in Call |-> IF d = Main THEN [Idle EXCEPT !.pc = "token", !.held = 1] ELSE Idle]
        BY DEF Init
      <4>2. call[Main] = [Idle EXCEPT !.pc = "token", !.held = 1]
        BY <1>9, <4>1
      <4>3. ~ call[Main].polling
        BY <4>2 DEF Idle
      <4> QED BY <1>3, <2>2, <3>1, <4>3 DEF AtRequest
    <3>2. CASE c # Main
      BY <1>3, <2>3, <3>2 DEF AtRequest
    <3> QED BY <3>1, <3>2
  <2> QED BY <2>1, <2>2, <2>4 DEF Programs
<1> QED BY <1>15, <1>16 DEF Base

(* The service and the faults keep their types when the task moves.        *)
LEMMA TypeKept ==
  ASSUME TypeOK, ClientTypeOK', Len(promise) <= Len(promise'), UNCHANGED unseen,
         page' \in 1 .. Len(pages), step' \in [Call -> Steps], succeeded' \in Nat, failed' \in Nat,
         verdict' \in {"none", "Succeeded", "Failed"}, removed' \subseteq VM
  PROVE  TypeOK'
<1>1. Len(promise) \in Nat /\ Len(promise') \in Nat
  BY DEF TypeOK, ClientTypeOK
<1>2. expired' \subseteq 1 .. Len(promise')
  BY <1>1 DEF TypeOK, unseen, faultVars
<1> QED BY <1>2 DEF TypeOK, unseen, serverVars, faultVars, historyVars, Steps

(* One program goes on, or ends.                                           *)
LEMMA ProgramsKept ==
  ASSUME Base, UNCHANGED <<action, pages>>, NEW v \in VM, step[v] \in VmSteps, NEW s,
         step' = [step EXCEPT ![v] = s], \A d \in Call \ {v} : call'[d] = call[d],
         \/ s \in StepsOf(action) /\ call'[v].pc # "idle" /\ ~ call'[v].polling
         \/ s \in Ends /\ call'[v] = Idle
  PROVE  Programs' /\ step' \in [Call -> Steps]
<1>1. /\ v # Main /\ v \in Call /\ Main \in Call /\ VM \subseteq Call
      /\ step \in [Call -> Steps]
  BY GroupAssumption DEF Base, TypeOK, Steps
<1>2. v \in Machines /\ step[Main] \notin MainSteps \ {"deleteGroup"}
  BY DEF Base, Programs, AtRequest, VmSteps
<1>3. /\ step' \in [Call -> Steps] /\ step'[v] = s /\ \A d \in Call \ {v} : step'[d] = step[d]
      /\ (s \in Asking <=> s \in StepsOf(action))
  BY <1>1, StepsOfActions DEF Steps, Asking, VmSteps, MainSteps, Ends
<1>4. Machines' = Machines
  BY DEF Machines
<1>5. \A c \in Call : AtRequest(c)'
  <2> TAKE c \in Call
  <2>1. CASE c = v
    BY <1>3, <2>1, IdleIsFresh, StepsOfActions DEF Ends, VmSteps, AtRequest
  <2>2. CASE c # v
    BY <1>3, <2>2 DEF Base, Programs, AtRequest
  <2> QED BY <2>1, <2>2
<1> QED BY <1>1, <1>2, <1>3, <1>4, <1>5 DEF Base, Programs, AtRequest

LEMMA BaseVmProgram ==
  ASSUME Base, NEW v \in VM, VmProgram(v)
  PROVE  Base'
<1>1. /\ UNCHANGED <<unseen, page>> /\ removed' \subseteq VM
      /\ call[v].pc = "done" /\ step[v] \in VmSteps
      /\ GoesOn(v) \/ Ended(v) \/ Stopped(v)
  BY VmProgramMoves
<1>2. /\ v \in Call /\ ClientTypeOK /\ page' \in 1 .. Len(pages) /\ UNCHANGED <<action, pages>>
      /\ succeeded \in Nat /\ failed \in Nat /\ verdict \in {"none", "Succeeded", "Failed"}
      /\ Len(promise) \in Nat
  BY <1>1, GroupAssumption, PromiseType DEF Base, TypeOK, unseen
<1>3. CASE GoesOn(v)
  <2>1. PICK s \in StepsOf(action) : Go(v, s) /\ UNCHANGED reported
    BY <1>3 DEF GoesOn
  <2>2. /\ ClientTypeOK' /\ Len(promise) <= Len(promise')
        /\ Fresh(call'[v]) /\ \A d \in Call \ {v} : call'[d] = call[d]
    BY <1>2, <2>1, BeginGives DEF Go
  <2>3. call'[v].pc # "idle" /\ ~ call'[v].polling
    BY <2>2 DEF Fresh
  <2>4. Programs' /\ step' \in [Call -> Steps]
    BY <1>1, <1>2, <2>1, <2>2, <2>3, ProgramsKept DEF Go
  <2> QED BY <1>1, <1>2, <2>1, <2>2, <2>4, TypeKept DEF Base, reported
<1>4. ASSUME NEW s \in Ends, Return(v, s),
             succeeded' \in Nat, failed' \in Nat, verdict' \in {"none", "Succeeded", "Failed"}
      PROVE  Base'
  <2>1. /\ ClientTypeOK' /\ promise' = promise
        /\ call'[v] = Idle /\ \A d \in Call \ {v} : call'[d] = call[d]
    BY <1>2, <1>4, ReturnGives
  <2>2. Programs' /\ step' \in [Call -> Steps]
    BY <1>1, <1>2, <1>4, <2>1, ProgramsKept DEF Return
  <2> QED BY <1>1, <1>2, <1>4, <2>1, <2>2, TypeKept DEF Base
<1>5. CASE Ended(v)
  <2>1. PICK s \in {"ok", "failed"} :
          Return(v, s) /\ (Called(v, s = "ok") \/ UNCHANGED reported)
    BY <1>5 DEF Ended
  <2>2. succeeded' \in Nat /\ failed' \in Nat /\ verdict' \in {"none", "Succeeded", "Failed"}
    BY <1>2, <2>1 DEF Called, reported
  <2> QED BY <1>4, <2>1, <2>2 DEF Ends
<1>6. CASE Stopped(v)
  BY <1>2, <1>4, <1>6 DEF Stopped, reported, Ends
<1> QED BY <1>1, <1>3, <1>5, <1>6

LEMMA BaseMainProgram ==
  ASSUME Base, MainProgram
  PROVE  Base'
<1>1. /\ UNCHANGED <<unseen, counts, removed>> /\ page' \in 1 .. Len(pages)
      /\ TaskGoesOn \/ TaskForks \/ TaskEnds
  BY MainProgramMoves
<1>2. /\ Main \in Call /\ Main \notin VM /\ VM \subseteq Call /\ ClientTypeOK
      /\ UNCHANGED <<action, pages>> /\ Machines' = Machines
      /\ succeeded' \in Nat /\ failed' \in Nat /\ verdict \in {"none", "Succeeded", "Failed"}
      /\ Len(promise) \in Nat /\ step \in [Call -> Steps] /\ removed' \subseteq VM
  BY <1>1, GroupAssumption, PromiseType DEF Base, TypeOK, unseen, counts, Steps, Machines
<1>3. CASE TaskGoesOn
  <2>1. PICK s \in MainStepsOf(action) :
          /\ Go(Main, s) /\ UNCHANGED verdict
          /\ s # "deleteGroup" => step[Main] \in MainSteps \ {"deleteGroup"}
    BY <1>3 DEF TaskGoesOn
  <2>2. /\ ClientTypeOK' /\ Len(promise) <= Len(promise')
        /\ Fresh(call'[Main]) /\ \A d \in Call \ {Main} : call'[d] = call[d]
    BY <1>2, <2>1, BeginGives DEF Go
  <2>3. /\ s \in MainSteps /\ step' \in [Call -> Steps] /\ step'[Main] = s
        /\ \A d \in Call \ {Main} : step'[d] = step[d]
    BY <1>2, <2>1, StepsOfActions DEF Go, Steps
  <2>4. \A c \in Call : AtRequest(c)'
    <3> TAKE c \in Call
    <3>1. CASE c = Main
      BY <2>2, <2>3, <3>1 DEF Fresh, Asking, AtRequest
    <3>2. CASE c # Main
      BY <2>2, <2>3, <3>2 DEF Base, Programs, AtRequest
    <3> QED BY <3>1, <3>2
  <2>5. \A v \in VM : step'[v] = step[v]
    BY <1>2, <2>3
  <2>6. Programs'
    BY <1>2, <2>1, <2>3, <2>4, <2>5 DEF Base, Programs, AtRequest
  <2> QED BY <1>1, <1>2, <2>1, <2>2, <2>3, <2>6, TypeKept DEF Base
<1>4. CASE TaskForks
  <2>1. Machines \subseteq VM
    BY MachinesOfPages DEF Base
  <2>2. /\ ClientTypeOK' /\ Len(promise) <= Len(promise')
        /\ call'[Main] = Idle /\ \A d \in Machines : Fresh(call'[d])
        /\ \A d \in Call : d \notin Machines /\ d # Main => call'[d] = call[d]
    <3>1. Machines \in SUBSET Call /\ Main \notin Machines /\ Fork(Main, Machines)
      BY <1>2, <1>4, <2>1 DEF TaskForks
    <3> QED BY <1>2, <3>1, ForkGives
  <2>3. FirstVmStep \in StepsOf(action)
    BY StepsOfActions DEF FirstVmStep, VmActions, AgentActions
  <2>4. /\ step' \in [Call -> Steps] /\ step'[Main] = "waiting"
        /\ \A d \in Machines : step'[d] = FirstVmStep
        /\ \A d \in Call : d \notin Machines /\ d # Main => step'[d] = step[d]
    <3>1. FirstVmStep \in Steps
      BY <2>3, StepsOfActions DEF Steps
    <3> QED BY <1>2, <1>4, <2>1, <3>1 DEF TaskForks, Steps
  <2>5. \A v \in VM : step'[v] \in StepsOf(action) \cup Ends \cup {"idle"}
    BY <1>2, <2>3, <2>4 DEF Base, Programs, AtRequest
  <2>6. \A c \in Call : AtRequest(c)'
    <3> TAKE c \in Call
    <3>1. CASE c = Main
      BY <2>2, <2>4, <3>1 DEF AtRequest, Asking, MainSteps, VmSteps
    <3>2. CASE c \in Machines
      BY <2>2, <2>3, <2>4, <3>2, StepsOfActions DEF Fresh, Asking, AtRequest
    <3>3. CASE c \notin Machines /\ c # Main
      BY <2>2, <2>4, <3>3 DEF Base, Programs, AtRequest
    <3> QED BY <3>1, <3>2, <3>3
  <2>7. Programs'
    BY <1>2, <2>4, <2>5, <2>6 DEF Base, Programs, AtRequest, MainSteps
  <2>8. UNCHANGED verdict
    BY <1>4 DEF TaskForks
  <2> QED BY <1>1, <1>2, <2>2, <2>4, <2>7, <2>8, TypeKept DEF Base
<1>5. CASE TaskEnds
  <2>1. PICK r \in {"Succeeded", "Failed"} : Finish(r)
    BY <1>5 DEF TaskEnds
  <2>2. /\ ClientTypeOK' /\ promise' = promise
        /\ call'[Main] = Idle /\ \A d \in Call \ {Main} : call'[d] = call[d]
    BY <1>2, <2>1, ReturnGives DEF Finish
  <2>3. /\ step' \in [Call -> Steps] /\ step'[Main] = "end"
        /\ \A d \in Call \ {Main} : step'[d] = step[d]
    BY <1>2, <2>1 DEF Finish, Return, Steps
  <2>4. \A c \in Call : AtRequest(c)'
    <3> TAKE c \in Call
    <3>1. CASE c = Main
      BY <2>2, <2>3, <3>1 DEF AtRequest, Asking, MainSteps, VmSteps
    <3>2. CASE c # Main
      BY <2>2, <2>3, <3>2 DEF Base, Programs, AtRequest
    <3> QED BY <3>1, <3>2
  <2>5. \A v \in VM : step'[v] = step[v]
    BY <1>2, <2>3
  <2>6. Programs'
    BY <1>2, <2>3, <2>4, <2>5 DEF Base, Programs, AtRequest, MainSteps
  <2> QED BY <1>1, <1>2, <2>1, <2>2, <2>3, <2>6, TypeKept DEF Base, Finish
<1> QED BY <1>1, <1>3, <1>4, <1>5


(* What the service does with a request.                                   *)
Reads(c, answer) ==
  /\ UNCHANGED <<serverVars, accepted>> /\ answer # "accepted"
  /\ \/ call[c].polling /\ answer = Reading(c)
     \/ ~ call[c].polling /\ step[c] \notin LongRunning /\ answer = Reading(c)
     \/ ~ call[c].polling /\ step[c] \in LongRunning /\ answer \in {"busy", "gone"}
Creates(c, answer) ==
  /\ step[c] = "createGroup" /\ answer = "ok"
  /\ group' = TRUE /\ UNCHANGED <<power, ext, op, accepted>>
Starts(c, answer) ==
  /\ answer = "accepted" /\ ~ call[c].polling /\ step[c] \in LongRunning
  /\ ~ InProgress(c) /\ Accept(c)

LEMMA ServeGives ==
  ASSUME Base, NEW c \in Call, call[c].pc = "sent", NEW answer, Serve(c, answer)
  PROVE  /\ step[c] \in Asking
         /\ c \in VM => step[c] \in StepsOf(action) /\ c \in Machines
         /\ c = Main => step[c] \in MainStepsOf(action)
         /\ Reads(c, answer) \/ Creates(c, answer) \/ Starts(c, answer)
<1>1. /\ step[c] \in Asking /\ op[c].status \in {"none", "InProgress", "Succeeded", "Failed"}
      /\ c \in VM \/ c = Main
  BY IdleIsFresh, GroupAssumption DEF Base, Programs, AtRequest, TypeOK, Operation
<1>2. /\ c \in VM => step[c] \in StepsOf(action) /\ c \in Machines
      /\ c = Main => step[c] \in MainStepsOf(action)
  BY <1>1 DEF Base, Programs, AtRequest, Asking, Ends, MainSteps, VmSteps
<1>3. /\ c \in VM => step[c] \in VmSteps
      /\ c = Main => step[c] \in MainSteps
  BY <1>2, StepsOfActions
<1>4. \/ Creates(c, answer) \/ Starts(c, answer)
      \/ /\ ~ call[c].polling /\ step[c] \in LongRunning /\ answer \in {"busy", "gone"}
         /\ UNCHANGED <<serverVars, accepted>>
      \/ /\ call[c].polling \/ step[c] \notin LongRunning \cup {"createGroup"}
         /\ answer = Reading(c) /\ UNCHANGED <<serverVars, accepted>>
  BY DEF Serve, Creates, Starts
<1>5. ASSUME call[c].polling \/ step[c] \notin LongRunning \cup {"createGroup"},
             answer = Reading(c), UNCHANGED <<serverVars, accepted>>
      PROVE  Reads(c, answer)
  <2>1. CASE call[c].polling
    <3>1. step[c] \notin {"exists", "deployment", "list", "view", "review", "extension"}
      BY <2>1, <1>1 DEF Base, Programs, AtRequest, LongRunning
    <3>2. answer # "accepted"
      BY <1>1, <1>5, <2>1, <3>1 DEF Reading
    <3> QED BY <1>5, <2>1, <3>2 DEF Reads
  <2>2. CASE ~ call[c].polling
    <3>1. step[c] \in {"exists", "deployment", "list", "view", "review", "extension"}
      BY <1>1, <1>5, <2>2 DEF Asking, MainSteps, VmSteps, LongRunning
    <3>2. step[c] \in {"view", "review", "extension"} => c \in VM
      BY <1>1, <1>3 DEF MainSteps
    <3>3. c \in VM => /\ power[c] \in {"running", "deallocated", "stopped", "deleted"}
                      /\ ext[c] \in {"none", "Succeeded", "Failed"}
      BY DEF Base, TypeOK
    <3>4. answer # "accepted"
      BY <1>1, <1>5, <2>2, <3>1, <3>2, <3>3 DEF Reading, PowerState
    <3>5. step[c] \notin LongRunning
      BY <3>1 DEF LongRunning
    <3> QED BY <1>5, <2>2, <3>4, <3>5 DEF Reads
  <2> QED BY <2>1, <2>2
<1> QED BY <1>1, <1>2, <1>4, <1>5 DEF Reads

(* Where a call is after an answer, and what becomes of its operation.     *)
LEMMA AnswerGives ==
  ASSUME Base, NEW c \in Call, Answer(c)
  PROVE  \E answer \in Result \ {"none"} :
    /\ Receive(c, answer) /\ call[c].pc = "sent" /\ UNCHANGED taskVars /\ UNCHANGED expired
    /\ \/ answer \in Reply /\ Serve(c, answer) /\ UNCHANGED <<faultVars, lost>>
       \/ answer = "expired" /\ call[c].held \in expired
          /\ UNCHANGED <<serverVars, faultVars, historyVars>>
       \/ answer \in Fault /\ Fails /\ UNCHANGED <<serverVars, historyVars>>
       \/ answer = "reset" /\ Fails /\ Serve(c, "accepted")
          /\ step[c] \in LongRunning /\ ~ call[c].polling
          /\ lost' = IF c = Main THEN lost ELSE [lost EXCEPT ![c] = @ + 1]
<1>1. /\ Reply \subseteq Result \ {"none"} /\ Fault \subseteq Result \ {"none"}
      /\ {"expired", "reset"} \subseteq Result \ {"none"}
  BY DEF Result, Reply, Fault, Retriable, Thrown
<1>2. call[c].pc = "sent" /\ UNCHANGED taskVars
  BY DEF Answer
<1>3. CASE /\ \E answer \in Reply : Serve(c, answer) /\ Receive(c, answer)
           /\ UNCHANGED <<faultVars, lost>>
  BY <1>1, <1>2, <1>3 DEF faultVars
<1>4. CASE /\ call[c].held \in expired /\ Receive(c, "expired")
           /\ UNCHANGED <<serverVars, faultVars, historyVars>>
  BY <1>1, <1>2, <1>4 DEF faultVars
<1>5. CASE /\ Fails /\ \E answer \in Fault : Receive(c, answer)
           /\ UNCHANGED <<serverVars, expired, historyVars>>
  BY <1>1, <1>2, <1>5
<1>6. CASE /\ Fails
           /\ step[c] \in LongRunning /\ ~ call[c].polling
           /\ Serve(c, "accepted") /\ Receive(c, "reset")
           /\ lost' = IF c = Main THEN lost ELSE [lost EXCEPT ![c] = @ + 1]
           /\ UNCHANGED expired
  BY <1>1, <1>2, <1>6
<1> QED BY <1>3, <1>4, <1>5, <1>6 DEF Answer


LEMMA BaseAnswer ==
  ASSUME Base, NEW c \in Call, Answer(c)
  PROVE  Base'
<1>1. PICK answer \in Result \ {"none"} :
        /\ Receive(c, answer) /\ call[c].pc = "sent" /\ UNCHANGED taskVars /\ UNCHANGED expired
        /\ \/ Serve(c, answer) /\ UNCHANGED <<faultVars, lost>>
           \/ answer \notin Reply /\ UNCHANGED <<serverVars, faultVars, historyVars>>
           \/ answer \notin {"accepted", "InProgress"} /\ Fails /\ UNCHANGED <<serverVars, historyVars>>
           \/ /\ answer \notin {"accepted", "InProgress"} /\ Fails /\ Serve(c, "accepted")
              /\ lost' = IF c = Main THEN lost ELSE [lost EXCEPT ![c] = @ + 1]
  BY AnswerGives DEF Fault, Retriable, Thrown, Reply
<1>2. /\ ClientTypeOK' /\ Len(promise) <= Len(promise') /\ \A d \in Call \ {c} : call'[d] = call[d]
      /\ Resent(c, answer) \/ Reissued(c, answer) \/ Polls(c, answer) \/ Concluded(c, answer)
  BY <1>1, ReceiveGives DEF Base, TypeOK
<1>3. step[c] \in Asking /\ call'[c].pc # "idle"
  BY <1>1, <1>2, IdleIsFresh
     DEF Base, TypeOK, Programs, AtRequest, Resent, Reissued, Polls, Concluded
<1>4. Programs'
  <2>1. UNCHANGED <<action, pages, step>> /\ Machines' = Machines
    BY <1>1 DEF taskVars, Machines
  <2>2. call'[c].polling => step[c] \in LongRunning
    <3>1. call[c].polling => step[c] \in LongRunning
      BY <1>3 DEF Base, Programs, AtRequest
    <3>2. answer = "accepted" => step[c] \in LongRunning
      BY <1>1, ServeGives DEF Reads, Creates, Starts, Reply
    <3> QED BY <1>2, <3>1, <3>2 DEF Resent, Reissued, Polls, Concluded
  <2>3. \A d \in Call : AtRequest(d)'
    <3> TAKE d \in Call
    <3>1. AtRequest(d)
      BY DEF Base, Programs
    <3> QED BY <1>2, <1>3, <2>1, <2>2, <3>1 DEF AtRequest
  <2> QED BY <2>1, <2>3 DEF Base, Programs
<1> DEFINE ServiceTyped ==
             /\ group' \in BOOLEAN /\ UNCHANGED <<power, ext>> /\ op' \in [Call -> Operation]
             /\ accepted' \in [VM -> Nat]
<1>5. ServiceTyped
  <2>1. CASE UNCHANGED serverVars /\ UNCHANGED accepted
    BY <2>1 DEF serverVars, Base, TypeOK
  <2>2. ASSUME NEW a, Creates(c, a)
        PROVE  ServiceTyped
    BY <2>2 DEF Creates, Base, TypeOK
  <2>3. ASSUME NEW a, Starts(c, a)
        PROVE  ServiceTyped
    <3>1. Kind(c) \in LongRunning \cup VmActions
      <4>1. CASE step[c] = "operate"
        <5>1. c # Main
          BY <2>3, <4>1 DEF Base, Programs, AtRequest, MainStepsOf
        <5>2. action \in VmActions
          BY <1>3, <4>1, <5>1, StepsOfActions, GroupAssumption DEF Base, Programs, AtRequest, Ends
        <5> QED BY <4>1, <5>2 DEF Kind, ExtensionDeletion
      <4>2. CASE step[c] # "operate"
        BY <2>3, <4>2 DEF Starts, Kind, VmActions, LongRunning, ExtensionDeletion
      <4> QED BY <4>1, <4>2
    <3>2. [kind |-> Kind(c), status |-> "InProgress"] \in Operation
      BY <3>1 DEF Operation
    <3>3. op' \in [Call -> Operation] /\ UNCHANGED <<group, power, ext>>
      BY <2>3, <3>2 DEF Starts, Accept, Base, TypeOK
    <3>4. accepted \in [VM -> Nat] /\ group \in BOOLEAN
      BY DEF Base, TypeOK
    <3>5. accepted' \in [VM -> Nat]
      <4>1. accepted' = [accepted EXCEPT ![c] = @ + 1] \/ accepted' = accepted
        BY <2>3 DEF Starts, Accept
      <4> QED BY <3>4, <4>1
    <3> QED BY <3>3, <3>4, <3>5
  <2>4. ASSUME NEW a, Serve(c, a)
        PROVE  ServiceTyped
    <3>1. Reads(c, a) \/ Creates(c, a) \/ Starts(c, a)
      BY <1>1, <2>4, ServeGives
    <3> QED BY <2>1, <2>2, <2>3, <3>1 DEF Reads
  <2>5. (UNCHANGED serverVars /\ UNCHANGED accepted) \/ \E a : Serve(c, a)
    BY <1>1 DEF historyVars
  <2> QED BY <2>1, <2>4, <2>5
<1>6. faults' \in 0 .. MaxFaults /\ lost' \in [VM -> Nat]
  <2>1. faults \in 0 .. MaxFaults /\ MaxFaults \in Nat /\ lost \in [VM -> Nat]
    BY GroupAssumption DEF Base, TypeOK
  <2>2. faults' = faults \/ Fails
    BY <1>1 DEF faultVars
  <2>3. lost' = lost \/ lost' = [lost EXCEPT ![c] = @ + 1]
    BY <1>1 DEF historyVars
  <2> QED BY <2>1, <2>2, <2>3 DEF Fails
<1>7. expired' \subseteq 1 .. Len(promise')
  <2>1. Len(promise) \in Nat /\ Len(promise') \in Nat
    BY <1>2 DEF Base, TypeOK, ClientTypeOK
  <2> QED BY <1>1, <1>2, <2>1 DEF Base, TypeOK
<1>8. TypeOK'
  BY <1>1, <1>2, <1>5, <1>6, <1>7 DEF Base, TypeOK, taskVars
<1> QED BY <1>4, <1>8 DEF Base

LEMMA BaseOperationEnds ==
  ASSUME Base, NEW c \in Call, OperationEnds(c)
  PROVE  Base'
<1>1. /\ op' = [op EXCEPT ![c].status = "Succeeded"] \/ op' = [op EXCEPT ![c].status = "Failed"]
      /\ UNCHANGED <<clientVars, taskVars, faultVars, historyVars>>
  BY DEF OperationEnds
<1>2. op \in [Call -> Operation]
  BY DEF Base, TypeOK
<1>3. op' \in [Call -> Operation]
  BY <1>1, <1>2 DEF Operation
<1>4. /\ power' \in [VM -> {"running", "deallocated", "stopped", "deleted"}]
      /\ ext' \in [VM -> {"none", "Succeeded", "Failed"}] /\ group' \in BOOLEAN
  <2>1. /\ power \in [VM -> {"running", "deallocated", "stopped", "deleted"}]
        /\ ext \in [VM -> {"none", "Succeeded", "Failed"}] /\ group \in BOOLEAN
    BY DEF Base, TypeOK
  <2>2. CASE Effect(c, op[c].kind)
    <3>1. power' \in [VM -> {"running", "deallocated", "stopped", "deleted"}]
      <4>1. \/ power' = power \/ power' = [v \in VM |-> "deleted"]
            \/ \E s \in {"running", "stopped", "deallocated", "deleted"} : power' = [power EXCEPT ![c] = s]
        BY <2>2 DEF Effect
      <4> QED BY <2>1, <4>1
    <3>2. ext' \in [VM -> {"none", "Succeeded", "Failed"}]
      <4>1. \/ ext' = ext \/ ext' = [v \in VM |-> "none"]
            \/ \E s \in {"none", "Succeeded"} : ext' = [ext EXCEPT ![c] = s]
        BY <2>2 DEF Effect
      <4> QED BY <2>1, <4>1
    <3>3. group' \in BOOLEAN
      BY <2>2 DEF Effect
    <3> QED BY <3>1, <3>2, <3>3
  <2>3. CASE /\ ext' = IF op[c].kind = "add" /\ power[c] # "deleted"
                       THEN [ext EXCEPT ![c] = "Failed"] ELSE ext
             /\ UNCHANGED <<group, power>>
    BY <2>1, <2>3
  <2> QED BY <2>2, <2>3 DEF OperationEnds
<1>5. ClientTypeOK' /\ Programs'
  <2>1. UNCHANGED <<scheme, promise, token, call, action, pages, step>> /\ Machines' = Machines
    BY <1>1 DEF clientVars, taskVars, Machines
  <2> QED BY <2>1 DEF Base, TypeOK, ClientTypeOK, Programs, AtRequest
<1> QED BY <1>1, <1>3, <1>4, <1>5 DEF Base, TypeOK, clientVars, taskVars, faultVars, historyVars

LEMMA BaseToken ==
  ASSUME Base, NEW n \in DOMAIN promise, TokenStep(n) \/ Expire(n)
  PROVE  Base' /\ \A c \in Call : Told(c)
<1>1. /\ ClientTypeOK' /\ Len(promise') = Len(promise) /\ \A c \in Call : Told(c)
      /\ UNCHANGED <<taskVars, serverVars, historyVars>>
  <2>1. CASE TokenStep(n)
    <3>1. TokenGranted(n) \/ \E answer \in TokenFault : TokenDenied(n, answer)
      BY <2>1 DEF TokenStep
    <3> QED BY <2>1, <3>1, TokenGives DEF TokenStep, Base, TypeOK
  <2>2. CASE Expire(n)
    BY <2>2 DEF Expire, clientVars, Base, TypeOK, ClientTypeOK, Told
  <2> QED BY <2>1, <2>2
<1>2. expired' \subseteq 1 .. Len(promise')
  <2>1. n \in 1 .. Len(promise)
    BY PromiseType DEF Base, TypeOK
  <2>2. expired' \subseteq expired \cup {n}
    BY DEF TokenStep, Expire
  <2> QED BY <1>1, <2>1, <2>2 DEF Base, TypeOK
<1>3. faults' \in 0 .. MaxFaults
  <2>1. faults' = faults \/ Fails
    BY DEF TokenStep, Expire
  <2>2. faults \in 0 .. MaxFaults /\ MaxFaults \in Nat
    BY GroupAssumption DEF Base, TypeOK
  <2> QED BY <2>1, <2>2 DEF Fails
<1>4. Programs'
  <2>1. UNCHANGED <<action, pages, step>> /\ Machines' = Machines
    BY <1>1 DEF taskVars, Machines
  <2>2. \A c \in Call : AtRequest(c)'
    <3> TAKE c \in Call
    <3>1. Told(c) /\ step' = step
      BY <1>1, <2>1
    <3> QED BY <3>1, IdleIsFresh DEF Told, Base, TypeOK, Programs, AtRequest
  <2> QED BY <2>1, <2>2 DEF Base, Programs, AtRequest
<1> QED BY <1>1, <1>2, <1>3, <1>4 DEF Base, TypeOK, taskVars, serverVars, historyVars

LEMMA BaseStutters ==
  ASSUME Base, UNCHANGED vars
  PROVE  Base'
<1>1. /\ UNCHANGED <<scheme, promise, token, call, action, pages, step>> /\ Machines' = Machines
      /\ UNCHANGED <<taskVars, serverVars, faultVars, historyVars>>
  BY DEF vars, clientVars, taskVars, Machines
<1> QED BY <1>1 DEF Base, TypeOK, ClientTypeOK, Programs, AtRequest, taskVars, serverVars, faultVars, historyVars

LEMMA BaseNext == Base /\ [Next]_vars => Base'
BY BaseVmProgram, BaseMainProgram, BaseToken, BaseAnswer, BaseOperationEnds, BaseStutters
   DEF Next, Callback

LEMMA BaseAlways == Spec => []Base
BY InitBase, BaseNext, PTL DEF Spec

(* The variables of the task, its client and the service have their types. *)
THEOREM TypeCorrect == Spec => []TypeOK
<1>1. Base => TypeOK
  BY DEF Base
<1> QED BY <1>1, BaseAlways, PTL


------------------------------------------------------------------------------
(* Expired tokens.                                                         *)

(* A callback leaves the service alone; a call is as it was, has ended, or *)
(* has just begun, and a machine that is now ok has had a good answer.     *)
Moved(c) ==
  /\ step'[c] # "idle"
  /\ call'[c] = Idle \/ Fresh(call'[c])
  /\ step'[c] = "ok" =>
       /\ c \in VM /\ Good(c, step[c])
       /\ action # "DeleteRG" => step[c] \in {"operate", "deleteVm", "add"}

LEMMA CallbackGives ==
  ASSUME Base, Callback
  PROVE  /\ UNCHANGED unseen
         /\ \A c \in Call : \/ call'[c] = call[c] /\ step'[c] = step[c]
                            \/ Moved(c)
<1>1. /\ VM \subseteq Call /\ Main \in Call /\ Main \notin VM /\ ClientTypeOK /\ Machines \subseteq VM
      /\ step \in [Call -> Steps]
  BY GroupAssumption, MachinesOfPages DEF Base, TypeOK, Steps
<1>2. ASSUME NEW c \in Call, NEW s \in MainSteps \cup VmSteps, Go(c, s)
      PROVE  \A d \in Call : (call'[d] = call[d] /\ step'[d] = step[d]) \/ Moved(d)
  <2>1. /\ Fresh(call'[c]) /\ step'[c] = s
        /\ \A d \in Call \ {c} : call'[d] = call[d] /\ step'[d] = step[d]
    BY <1>1, <1>2, BeginGives DEF Go
  <2>2. s \notin {"idle", "ok"}
    BY DEF MainSteps, VmSteps
  <2> QED BY <2>1, <2>2 DEF Moved
<1>3. ASSUME NEW c \in Call, NEW s \in Ends \cup {"end"}, Return(c, s),
             s = "ok" => /\ c \in VM /\ Good(c, step[c])
                         /\ action # "DeleteRG" => step[c] \in {"operate", "deleteVm", "add"}
      PROVE  \A d \in Call : (call'[d] = call[d] /\ step'[d] = step[d]) \/ Moved(d)
  <2>1. call'[c] = Idle /\ \A d \in Call \ {c} : call'[d] = call[d]
    BY <1>1, <1>3, ReturnGives
  <2>2. step'[c] = s /\ \A d \in Call \ {c} : step'[d] = step[d]
    BY <1>1, <1>3 DEF Return
  <2>3. s # "idle"
    BY DEF Ends
  <2> QED BY <1>3, <2>1, <2>2, <2>3 DEF Moved
<1>4. ASSUME NEW v \in VM, VmProgram(v)
      PROVE  UNCHANGED unseen
             /\ \A d \in Call : (call'[d] = call[d] /\ step'[d] = step[d]) \/ Moved(d)
  <2>1. UNCHANGED unseen /\ (GoesOn(v) \/ Ended(v) \/ Stopped(v)) /\ v \in Call
    BY <1>1, <1>4, VmProgramMoves
  <2>2. CASE GoesOn(v)
    <3>1. PICK s \in StepsOf(action) : Go(v, s)
      BY <2>2 DEF GoesOn
    <3>2. s \in MainSteps \cup VmSteps
      BY StepsOfActions
    <3> QED BY <1>2, <2>1, <3>1, <3>2
  <2>3. CASE Ended(v)
    <3>1. PICK s \in {"ok", "failed"} :
            /\ Return(v, s)
            /\ s = "ok" => Good(v, step[v])
            /\ s = "ok" /\ action # "DeleteRG" => step[v] \in {"operate", "deleteVm", "add"}
      BY <2>3 DEF Ended
    <3> QED BY <1>3, <2>1, <3>1 DEF Ends
  <2>4. CASE Stopped(v)
    BY <1>3, <2>1, <2>4 DEF Stopped, Ends
  <2> QED BY <2>1, <2>2, <2>3, <2>4
<1>5. CASE MainProgram
  <2>1. UNCHANGED unseen /\ (TaskForks \/ TaskGoesOn \/ TaskEnds)
    BY <1>5, MainProgramMoves
  <2>2. CASE TaskForks
    <3>1. Machines \in SUBSET Call /\ Main \notin Machines /\ Fork(Main, Machines)
      BY <1>1, <2>2 DEF TaskForks
    <3>2. /\ call'[Main] = Idle /\ \A d \in Machines : Fresh(call'[d])
          /\ \A d \in Call : d \notin Machines /\ d # Main => call'[d] = call[d]
      BY <1>1, <3>1, ForkGives
    <3>3. \A c \in Call : step'[c] = IF c \in Machines THEN FirstVmStep
                                     ELSE IF c = Main THEN "waiting" ELSE step[c]
      BY <2>2 DEF TaskForks
    <3>4. FirstVmStep \notin {"idle", "ok"}
      BY DEF FirstVmStep
    <3> QED BY <2>1, <3>2, <3>3, <3>4 DEF Moved
  <2>3. CASE TaskGoesOn
    <3>1. PICK s \in MainStepsOf(action) : Go(Main, s)
      BY <2>3 DEF TaskGoesOn
    <3>2. s \in MainSteps \cup VmSteps
      BY StepsOfActions
    <3> QED BY <1>1, <1>2, <2>1, <3>1, <3>2
  <2>4. CASE TaskEnds
    <3>1. Return(Main, "end")
      BY <2>4 DEF TaskEnds, Finish
    <3> QED BY <1>1, <1>3, <2>1, <3>1
  <2> QED BY <2>1, <2>2, <2>3, <2>4
<1> QED BY <1>4, <1>5 DEF Callback

LEMMA ExpiredIsFinite ==
  ASSUME NEW p \in Nat, NEW E \in SUBSET (1 .. p)
  PROVE  /\ IsFiniteSet(E) /\ Cardinality(E) \in Nat
         /\ \A m, n \in E : m # n => Cardinality(E) >= 2
<1>1. IsFiniteSet(1 .. p)
  BY FS_Interval
<1>2. IsFiniteSet(E) /\ Cardinality(E) \in Nat
  BY <1>1, FS_Subset, FS_CardinalityType
<1>3. ASSUME NEW m \in E, NEW n \in E, m # n
      PROVE  Cardinality(E) >= 2
  <2>1. IsFiniteSet({m}) /\ Cardinality({m}) = 1
    BY FS_Singleton
  <2>2. Cardinality({m} \cup {n}) = 2
    BY <1>3, <2>1, FS_AddElement
  <2>3. {m} \cup {n} \in SUBSET E
    OBVIOUS
  <2>4. Cardinality({m} \cup {n}) <= Cardinality(E)
    BY <1>2, <2>3, FS_Subset
  <2> QED BY <1>2, <2>2, <2>4
<1> QED BY <1>2, <1>3

LEMMA InitExpiry == Init => ExpiryInOrder
<1> SUFFICES ASSUME Init, NEW c \in Call
             PROVE  ~ call[c].again /\ call[c].answer # "expired"
  BY DEF ExpiryInOrder, ExpiryIsSurvived
<1> DEFINE first == [Idle EXCEPT !.pc = "token", !.held = 1]
<1>1. call[c] \in {first, Idle}
  BY DEF Init
<1>2. /\ first.again = FALSE /\ first.answer = "none"
      /\ Idle.again = FALSE /\ Idle.answer = "none"
  BY DEF Idle
<1> HIDE DEF first
<1> QED BY <1>1, <1>2

LEMMA ExpiryNext ==
  ASSUME Base, Base', ExpiryInOrder, [Next]_vars
  PROVE  ExpiryInOrder'
<1>1. /\ IsFiniteSet(expired') /\ Cardinality(expired') \in Nat
      /\ \A m, n \in expired' : m # n => Cardinality(expired') >= 2
      /\ Cardinality(expired) \in Nat
      /\ expired \subseteq expired' => Cardinality(expired) <= Cardinality(expired')
  <2>1. Len(promise) \in Nat /\ expired \in SUBSET (1 .. Len(promise))
    BY DEF Base, TypeOK, ClientTypeOK
  <2>2. Len(promise') \in Nat /\ expired' \in SUBSET (1 .. Len(promise'))
    BY DEF Base, TypeOK, ClientTypeOK
  <2>3. IsFiniteSet(expired) /\ Cardinality(expired) \in Nat
    BY <2>1, ExpiredIsFinite
  <2>4. /\ IsFiniteSet(expired') /\ Cardinality(expired') \in Nat
        /\ \A m, n \in expired' : m # n => Cardinality(expired') >= 2
    BY <2>2, ExpiredIsFinite
  <2> QED BY <2>3, <2>4, FS_Subset
<1>2. Idle.again = FALSE /\ Idle.answer = "none"
  BY DEF Idle
(* A call that keeps what it has and learns nothing of an expired token.   *)
<1>3. ASSUME expired \subseteq expired',
             \A c \in Call :
               /\ call'[c].again => call[c].again /\ call'[c].held = call[c].held
               /\ call'[c].answer = "expired" => call[c].answer = "expired"
      PROVE  ExpiryInOrder'
  BY <1>1, <1>3 DEF ExpiryInOrder, ExpiryIsSurvived
<1>4. CASE Callback
  <2>1. expired' = expired
    BY <1>4, CallbackGives DEF unseen, faultVars
  <2> QED BY <1>2, <1>3, <1>4, <2>1, CallbackGives DEF Moved, Fresh
<1>5. ASSUME NEW n \in DOMAIN promise, TokenStep(n) \/ Expire(n)
      PROVE  ExpiryInOrder'
  <2>1. expired \subseteq expired'
    BY <1>5 DEF TokenStep, Expire, faultVars
  <2>2. \A c \in Call : Told(c)
    BY <1>5, BaseToken
  <2> QED BY <1>3, <2>1, <2>2 DEF Told
<1>6. ASSUME NEW c \in Call, Answer(c)
      PROVE  ExpiryInOrder'
  <2>1. PICK answer \in Result \ {"none"} :
          /\ Receive(c, answer) /\ UNCHANGED expired
          /\ answer = "expired" => call[c].held \in expired
    BY <1>6, AnswerGives DEF Reply, Fault, Retriable, Thrown
  <2>2. /\ \A d \in Call \ {c} : call'[d] = call[d]
        /\ Resent(c, answer) \/ Reissued(c, answer) \/ Polls(c, answer) \/ Concluded(c, answer)
    BY <2>1, ReceiveGives DEF Base, TypeOK
  <2>3. /\ call[c].again => \E n \in expired : n < call[c].held
        /\ call[c].answer = "expired" => Cardinality(expired) >= 2
        /\ call[c].held \in Nat /\ call'[c].held \in Nat
    BY DEF ExpiryInOrder, ExpiryIsSurvived, Base, TypeOK, ClientTypeOK, Request
  <2>4. CASE Reissued(c, answer)
    <3>1. /\ \E n \in expired : n < call'[c].held
          /\ call'[c].answer = "none"
      BY <2>1, <2>4 DEF Reissued
    <3> QED BY <2>1, <2>2, <3>1 DEF ExpiryInOrder, ExpiryIsSurvived
  <2>5. CASE Concluded(c, answer) /\ answer = "expired"
    <3>1. /\ call'[c].again /\ call'[c].held = call[c].held /\ call[c].held \in expired
          /\ \E n \in expired : n < call[c].held
      BY <2>1, <2>3, <2>5 DEF Concluded
    <3>2. \E n \in expired : n # call[c].held
      BY <2>3, <3>1 DEF Base, TypeOK
    <3>3. Cardinality(expired') >= 2
      BY <1>1, <2>1, <3>1, <3>2
    <3> QED BY <2>1, <2>2, <3>1, <3>3 DEF ExpiryInOrder, ExpiryIsSurvived
  <2>6. CASE \/ Resent(c, answer) \/ Polls(c, answer)
             \/ Concluded(c, answer) /\ answer # "expired"
    <3>1. \A d \in Call :
            /\ call'[d].again => call[d].again /\ call'[d].held = call[d].held
            /\ call'[d].answer = "expired" => call[d].answer = "expired"
      BY <2>2, <2>6 DEF Resent, Polls, Concluded
    <3> QED BY <1>3, <2>1, <3>1
  <2> QED BY <2>2, <2>4, <2>5, <2>6
<1>7. CASE UNCHANGED vars \/ \E c \in Call : OperationEnds(c)
  <2>1. UNCHANGED <<call, expired>>
    BY <1>7 DEF OperationEnds, vars, clientVars, faultVars
  <2> QED BY <2>1 DEF ExpiryInOrder, ExpiryIsSurvived
<1> QED BY <1>4, <1>5, <1>6, <1>7 DEF Next

LEMMA ExpiryAlways == Spec => []ExpiryInOrder
BY InitExpiry, BaseAlways, ExpiryNext, PTL DEF Spec

(* A request fails as expired only after two tokens have expired.          *)
THEOREM ExpirySurvived == Spec => []ExpiryIsSurvived
<1>1. ExpiryInOrder => ExpiryIsSurvived
  BY DEF ExpiryInOrder
<1> QED BY <1>1, ExpiryAlways, PTL

------------------------------------------------------------------------------
(* Operations and their effects.                                           *)

(* The service at a request: it is left alone, or it starts an operation.  *)
LEMMA AnswerStarts ==
  ASSUME Base, NEW c \in Call, Answer(c)
  PROVE  /\ UNCHANGED <<power, ext, step, action, pages>>
         /\ \A d \in Call \ {c} : call'[d] = call[d] /\ op'[d] = op[d]
         /\ step[c] \in Asking
         /\ c \in VM => step[c] \in StepsOf(action) /\ c \in Machines
         /\ c = Main => step[c] \in MainStepsOf(action)
         /\ call[c].polling => call'[c].polling
         /\ \/ /\ op'[c] = op[c] /\ accepted' = accepted /\ lost' = lost
               /\ call'[c].polling => call[c].polling
            \/ /\ op'[c] = [kind |-> Kind(c), status |-> "InProgress"]
               /\ step[c] \in LongRunning /\ ~ call[c].polling /\ ~ InProgress(c)
               /\ call'[c].polling => call'[c].answer \in {"none", "thrown"}
               /\ accepted' = IF step[c] \in {"operate", "deleteVm"}
                              THEN [accepted EXCEPT ![c] = @ + 1] ELSE accepted
               /\ \/ call'[c].polling /\ lost' = lost
                  \/ lost' = IF c = Main THEN lost ELSE [lost EXCEPT ![c] = @ + 1]
         /\ call'[c].polling /\ call'[c].answer \in {"Succeeded", "Failed"} =>
              \/ call'[c].answer = call[c].answer /\ call[c].polling
              \/ call'[c].answer = Reading(c) /\ call[c].polling
<1>1. PICK answer \in Result \ {"none"} :
        /\ Receive(c, answer) /\ call[c].pc = "sent" /\ UNCHANGED taskVars
        /\ \/ answer \in Reply /\ Serve(c, answer) /\ lost' = lost
           \/ answer \notin Reply /\ UNCHANGED <<serverVars, historyVars>>
           \/ answer \in Fault /\ UNCHANGED <<serverVars, historyVars>>
           \/ /\ answer = "reset" /\ Serve(c, "accepted") /\ ~ call[c].polling
              /\ lost' = IF c = Main THEN lost ELSE [lost EXCEPT ![c] = @ + 1]
  BY AnswerGives DEF Fault, Retriable, Thrown, Reply
<1>2. /\ \A d \in Call \ {c} : call'[d] = call[d]
      /\ Resent(c, answer) \/ Reissued(c, answer) \/ Polls(c, answer) \/ Concluded(c, answer)
  BY <1>1, ReceiveGives DEF Base, TypeOK
<1>3. /\ UNCHANGED <<step, action, pages>> /\ op \in [Call -> Operation]
      /\ step[c] \in Asking
      /\ c \in VM => step[c] \in StepsOf(action) /\ c \in Machines
      /\ c = Main => step[c] \in MainStepsOf(action)
  <2>1. step[c] \in Asking
    BY <1>1, IdleIsFresh DEF Base, Programs, AtRequest, TypeOK
  <2>2. /\ c \in VM => step[c] \in StepsOf(action) /\ c \in Machines
        /\ c = Main => step[c] \in MainStepsOf(action)
    BY <2>1 DEF Base, Programs, Asking, Ends, MainSteps, VmSteps
  <2> QED BY <1>1, <2>1, <2>2 DEF Base, TypeOK, taskVars
<1>4. /\ answer \in {"accepted", "InProgress", "Succeeded", "Failed"} => Serve(c, answer)
      /\ answer = "accepted" => ~ call[c].polling
  <2>1. answer \in {"accepted", "InProgress", "Succeeded", "Failed"} => answer \in Reply \ Fault
    BY DEF Reply, Fault, Retriable, Thrown
  <2>2. answer \in {"accepted", "InProgress", "Succeeded", "Failed"} => Serve(c, answer)
    BY <1>1, <2>1 DEF Fault, Retriable, Thrown
  <2> QED BY <1>1, <2>2, ServeGives DEF Reads, Creates, Starts
<1>5. call'[c].polling /\ call'[c].answer \in {"Succeeded", "Failed"} =>
        \/ call'[c].answer = call[c].answer /\ call[c].polling
        \/ call'[c].answer = Reading(c) /\ call[c].polling
  <2>1. CASE Concluded(c, answer) /\ answer \in {"Succeeded", "Failed"}
    <3>1. Reads(c, answer)
      BY <1>1, <1>4, <2>1, ServeGives DEF Creates, Starts
    <3> QED BY <2>1, <3>1 DEF Concluded, Reads, Thrown
  <2>2. CASE ~ (Concluded(c, answer) /\ answer \in {"Succeeded", "Failed"})
    BY <1>2, <2>2 DEF Resent, Reissued, Polls, Concluded
  <2> QED BY <2>1, <2>2
<1>6. call[c].polling => call'[c].polling
  BY <1>2 DEF Resent, Reissued, Polls, Concluded
<1>7. CASE UNCHANGED <<op, accepted, lost, power, ext>> /\ answer # "accepted"
  <2>1. call'[c].polling => call[c].polling
    BY <1>2, <1>7 DEF Resent, Reissued, Polls, Concluded
  <2> QED BY <1>2, <1>3, <1>5, <1>6, <1>7, <2>1
<1>8. ASSUME NEW a, Starts(c, a),
             \/ answer = "accepted" /\ lost' = lost
             \/ /\ answer = "reset"
                /\ lost' = IF c = Main THEN lost ELSE [lost EXCEPT ![c] = @ + 1]
      PROVE  /\ UNCHANGED <<power, ext>> /\ \A d \in Call \ {c} : op'[d] = op[d]
             /\ op'[c] = [kind |-> Kind(c), status |-> "InProgress"]
             /\ step[c] \in LongRunning /\ ~ call[c].polling /\ ~ InProgress(c)
             /\ call'[c].polling => call'[c].answer \in {"none", "thrown"}
             /\ accepted' = IF step[c] \in {"operate", "deleteVm"}
                            THEN [accepted EXCEPT ![c] = @ + 1] ELSE accepted
             /\ \/ call'[c].polling /\ lost' = lost
                \/ lost' = IF c = Main THEN lost ELSE [lost EXCEPT ![c] = @ + 1]
  <2>1. /\ step[c] \in LongRunning /\ ~ call[c].polling /\ ~ InProgress(c)
        /\ UNCHANGED <<power, ext>>
        /\ accepted' = IF step[c] \in {"operate", "deleteVm"}
                       THEN [accepted EXCEPT ![c] = @ + 1] ELSE accepted
        /\ op' = [op EXCEPT ![c] = [kind |-> Kind(c), status |-> "InProgress"]]
    BY <1>8 DEF Starts, Accept
  <2>2. /\ op'[c] = [kind |-> Kind(c), status |-> "InProgress"]
        /\ \A d \in Call \ {c} : op'[d] = op[d]
    BY <1>3, <2>1
  <2>3. /\ call'[c].polling => call'[c].answer \in {"none", "thrown"}
        /\ answer = "accepted" => call'[c].polling
    BY <1>2, <1>8, <2>1 DEF Resent, Reissued, Polls, Concluded, Retriable, Thrown
  <2> QED BY <1>8, <2>1, <2>2, <2>3
<1>9. CASE Serve(c, answer) /\ lost' = lost
  <2>1. Reads(c, answer) \/ Creates(c, answer) \/ Starts(c, answer)
    BY <1>1, <1>9, ServeGives
  <2>2. CASE Starts(c, answer)
    <3>1. answer = "accepted"
      BY <2>2 DEF Starts
    <3> QED BY <1>2, <1>3, <1>5, <1>6, <1>8, <1>9, <2>2, <3>1
  <2>3. CASE Reads(c, answer) \/ Creates(c, answer)
    BY <1>7, <1>9, <2>3 DEF Reads, Creates, serverVars
  <2> QED BY <2>1, <2>2, <2>3
<1>10. CASE /\ answer = "reset" /\ Serve(c, "accepted")
            /\ lost' = IF c = Main THEN lost ELSE [lost EXCEPT ![c] = @ + 1]
  <2>1. Reads(c, "accepted") \/ Creates(c, "accepted") \/ Starts(c, "accepted")
    BY <1>1, <1>10, ServeGives
  <2>2. Starts(c, "accepted")
    BY <2>1 DEF Reads, Creates
  <2> QED BY <1>2, <1>3, <1>5, <1>6, <1>8, <1>10, <2>2
<1>11. CASE UNCHANGED <<serverVars, historyVars>> /\ ~ Serve(c, answer)
  BY <1>4, <1>7, <1>11 DEF serverVars, historyVars
<1>12. CASE UNCHANGED <<serverVars, historyVars>> /\ Serve(c, answer)
  BY <1>9, <1>12 DEF historyVars
<1> QED BY <1>1, <1>9, <1>10, <1>11, <1>12

LEMMA OperationType ==
  ASSUME Base, NEW c \in Call
  PROVE  /\ op[c].status \in {"none", "InProgress", "Succeeded", "Failed"}
         /\ c \in VM => power[c] \in {"running", "deallocated", "stopped", "deleted"}
BY DEF Base, TypeOK, Operation

(* The kind of an operation that is started is one of its program's.       *)
LEMMA KindIsOwn ==
  ASSUME Base, NEW c \in Call, step[c] \in LongRunning,
         c \in VM => step[c] \in StepsOf(action), c = Main => step[c] \in MainStepsOf(action)
  PROVE  /\ Kind(c) \in KindsOf(c)
         /\ step[c] \in {"operate", "deleteVm", "add"} => Kind(c) = FinalKind
<1>1. /\ (c \in VM /\ c # Main) \/ c = Main
      /\ action \in VmActions \cup AgentActions \cup {"DeleteRG"}
  BY GroupAssumption DEF Base, TypeOK
<1>2. CASE c = Main
  <2>1. step[c] \in {"deploy", "deleteGroup"}
    BY <1>2, StepsOfActions DEF MainSteps, LongRunning
  <2>2. Kind(c) = step[c]
    BY <2>1 DEF Kind, ExtensionDeletion
  <2> QED BY <1>2, <2>1, <2>2 DEF KindsOf
<1>3. CASE c \in VM /\ c # Main
  <2>1. step[c] \in StepsOf(action)
    BY <1>3
  <2>2. CASE step[c] = "operate"
    BY <1>3, <2>1, <2>2, StepsOfActions DEF Kind, KindsOf, FinalKind, ExtensionDeletion, VmActions
  <2>3. CASE step[c] = "unregister"
    BY <1>3, <2>1, <2>3, StepsOfActions DEF Kind, KindsOf, ExtensionDeletion, VmActions
  <2>4. CASE step[c] = "deleteVm"
    BY <1>3, <2>1, <2>4, StepsOfActions DEF Kind, KindsOf, FinalKind, ExtensionDeletion, VmActions
  <2>5. CASE step[c] \in {"start", "clean", "undo", "add"}
    <3>1. action \in AgentActions /\ action \notin VmActions /\ action # "DeleteRG"
      BY <2>1, <2>5, StepsOfActions DEF VmActions, AgentActions
    <3> QED BY <1>3, <2>5, <3>1 DEF Kind, KindsOf, FinalKind, ExtensionDeletion, VmActions
  <2> QED BY <2>1, <2>2, <2>3, <2>4, <2>5, StepsOfActions DEF VmSteps, LongRunning
<1> QED BY <1>1, <1>2, <1>3

LEMMA InitOperations == Init => OperationsInOrder /\ EffectsStay
<1> SUFFICES ASSUME Init
             PROVE  OperationsInOrder /\ EffectsStay
  OBVIOUS
<1>1. Base /\ VM \subseteq Call /\ Main \in Call /\ Main \notin VM
  BY InitBase, GroupAssumption
<1>2. \A c \in Call : op[c].status = "none"
  BY DEF Init
<1>3. \A c \in Call : ~ call[c].polling
  <2> DEFINE first == [Idle EXCEPT !.pc = "token", !.held = 1]
  <2>1. \A c \in Call : call[c] \in {first, Idle}
    BY DEF Init
  <2>2. first.polling = FALSE /\ Idle.polling = FALSE
    BY DEF Idle
  <2> HIDE DEF first
  <2> QED BY <2>1, <2>2
<1>4. \A v \in VM : step[v] = "idle"
  BY <1>1 DEF Init
<1>5. \A v \in VM : power[v] # "deleted"
  <2> TAKE v \in VM
  <2>1. PICK fleet \in Fleets : power = [w \in VM |-> fleet[w].power]
    BY DEF Init
  <2>2. fleet \in [VM -> [power : {"running", "deallocated", "stopped"},
                          ext : {"none", "Succeeded", "Failed"}]]
    BY GroupAssumption
  <2> QED BY <2>1, <2>2
<1> QED BY <1>1, <1>2, <1>3, <1>4, <1>5 DEF OperationsInOrder, EffectsStay

LEMMA OperationsCallback ==
  ASSUME Base, OperationsInOrder, Callback
  PROVE  OperationsInOrder'
<1>1. /\ UNCHANGED <<op, action>>
      /\ \A c \in Call : (call'[c] = call[c] /\ step'[c] = step[c]) \/ Moved(c)
      /\ VM \subseteq Call /\ Main \notin VM
  BY CallbackGives, GroupAssumption DEF unseen, serverVars
<1>2. ASSUME NEW c \in Call
      PROVE  /\ op'[c].status # "none" => op'[c].kind \in KindsOf(c)'
             /\ call'[c].polling => op'[c].status # "none" /\ op'[c].kind = Kind(c)'
             /\ call'[c].polling /\ call'[c].answer = "Succeeded" => op'[c].status = "Succeeded"
             /\ call'[c].polling /\ call'[c].answer = "Failed" => step'[c] # "deleteGroup"
  <2>1. KindsOf(c)' = KindsOf(c)
    BY <1>1 DEF KindsOf, MainStepsOf
  <2>2. CASE call'[c] = call[c] /\ step'[c] = step[c]
    BY <1>1, <2>1, <2>2 DEF OperationsInOrder, Kind
  <2>3. CASE Moved(c)
    BY <1>1, <2>1, <2>3 DEF OperationsInOrder, Moved, Fresh, Idle
  <2> QED BY <1>1, <2>2, <2>3
<1>3. ASSUME NEW v \in VM
      PROVE  /\ step'[v] = "idle" => op'[v].status = "none"
             /\ step'[v] = "ok" /\ action' # "DeleteRG" =>
                  op'[v].status = "Succeeded" /\ op'[v].kind = FinalKind'
  <2>1. v \in Call /\ v # Main /\ FinalKind' = FinalKind
    BY <1>1 DEF FinalKind
  <2>2. CASE call'[v] = call[v] /\ step'[v] = step[v]
    BY <1>1, <2>1, <2>2 DEF OperationsInOrder
  <2>3. CASE Moved(v) /\ step'[v] = "ok" /\ action # "DeleteRG"
    <3>1. Good(v, step[v]) /\ step[v] \in {"operate", "deleteVm", "add"}
      BY <2>3 DEF Moved
    <3>2. call[v].polling /\ call[v].answer = "Succeeded"
      BY <3>1 DEF Good, ByStatusCode, ExtensionDeletion
    <3>3. step[v] \in StepsOf(action) /\ step[v] \in LongRunning
      BY <3>1 DEF Base, Programs, Ends, LongRunning
    <3>4. Kind(v) = FinalKind
      BY <2>1, <3>1, <3>3, KindIsOwn
    <3> QED BY <1>1, <2>1, <2>3, <3>2, <3>4 DEF OperationsInOrder
  <2>4. CASE Moved(v) /\ ~ (step'[v] = "ok" /\ action # "DeleteRG")
    BY <1>1, <2>4 DEF Moved
  <2> QED BY <1>1, <2>1, <2>2, <2>3, <2>4
<1> QED BY <1>2, <1>3 DEF OperationsInOrder

LEMMA OperationsToken ==
  ASSUME Base, OperationsInOrder, NEW n \in DOMAIN promise, TokenStep(n) \/ Expire(n)
  PROVE  OperationsInOrder'
<1>1. /\ UNCHANGED <<op, step, action>>
      /\ \A c \in Call : Told(c)
  BY BaseToken DEF TokenStep, Expire, taskVars, serverVars
<1>2. \A c \in Call :
        /\ call'[c].polling = call[c].polling
        /\ call'[c].answer \in {call[c].answer, "thrown"}
  BY <1>1 DEF Told
<1>3. \A c \in Call : KindsOf(c)' = KindsOf(c) /\ Kind(c)' = Kind(c)
  BY <1>1 DEF KindsOf, Kind, MainStepsOf
<1>4. FinalKind' = FinalKind
  BY <1>1 DEF FinalKind
<1> QED BY <1>1, <1>2, <1>3, <1>4 DEF OperationsInOrder

LEMMA OperationsAnswer ==
  ASSUME Base, OperationsInOrder, NEW c \in Call, Answer(c)
  PROVE  OperationsInOrder'
<1>1. /\ UNCHANGED <<step, action>>
      /\ \A d \in Call \ {c} : call'[d] = call[d] /\ op'[d] = op[d]
      /\ step[c] \in Asking
      /\ c \in VM => step[c] \in StepsOf(action)
      /\ c = Main => step[c] \in MainStepsOf(action)
  BY AnswerStarts
<1>2. /\ \A d \in Call : KindsOf(d)' = KindsOf(d) /\ Kind(d)' = Kind(d)
      /\ FinalKind' = FinalKind
  BY <1>1 DEF KindsOf, Kind, MainStepsOf, FinalKind
<1>3. ASSUME call'[c].polling, call'[c].answer \in {"Succeeded", "Failed"}
      PROVE  /\ call[c].polling /\ op'[c] = op[c]
             /\ call'[c].answer = "Succeeded" => op[c].status = "Succeeded"
             /\ call'[c].answer = "Failed" => step[c] # "deleteGroup"
  <2>1. /\ call[c].polling /\ op'[c] = op[c]
        /\ call'[c].answer = call[c].answer \/ call'[c].answer = Reading(c)
    BY <1>3, AnswerStarts
  <2>2. step[c] \in LongRunning
    BY <2>1 DEF Base, Programs, AtRequest, Idle
  <2>3. Reading(c) = IF step[c] = "deleteGroup" /\ op[c].status = "Failed"
                     THEN "refused" ELSE op[c].status
    BY <2>1, <2>2 DEF Reading, LongRunning
  <2> QED BY <1>3, <2>1, <2>3 DEF OperationsInOrder
<1>4. /\ op'[c].status # "none" => op'[c].kind \in KindsOf(c)
      /\ call'[c].polling => op'[c].status # "none" /\ op'[c].kind = Kind(c)
  <2>1. CASE op'[c] = op[c] /\ (call'[c].polling => call[c].polling)
    BY <2>1 DEF OperationsInOrder
  <2>2. CASE op'[c] = [kind |-> Kind(c), status |-> "InProgress"] /\ step[c] \in LongRunning
    <3>1. Kind(c) \in KindsOf(c)
      BY <1>1, <2>2, KindIsOwn
    <3> QED BY <2>2, <3>1
  <2> QED BY <2>1, <2>2, AnswerStarts
<1>5. \A v \in VM :
        /\ step[v] = "idle" => op'[v].status = "none"
        /\ step[v] = "ok" /\ action # "DeleteRG" =>
             op'[v].status = "Succeeded" /\ op'[v].kind = FinalKind
  <2> TAKE v \in VM
  <2>1. v = c => step[v] \notin {"idle", "ok"}
    BY <1>1 DEF Asking, MainSteps, VmSteps
  <2> QED BY <1>1, <2>1, GroupAssumption DEF OperationsInOrder
<1> QED BY <1>1, <1>2, <1>3, <1>4, <1>5 DEF OperationsInOrder

LEMMA OperationsEnd ==
  ASSUME Base, OperationsInOrder, NEW c \in Call, OperationEnds(c)
  PROVE  OperationsInOrder'
<1>1. /\ UNCHANGED <<call, step, action>> /\ op[c].status = "InProgress"
      /\ op'[c].status \in {"Succeeded", "Failed"} /\ op'[c].kind = op[c].kind
      /\ \A d \in Call \ {c} : op'[d] = op[d]
  BY DEF OperationEnds, InProgress, clientVars, taskVars, Base, TypeOK, Operation
<1>2. /\ \A d \in Call : KindsOf(d)' = KindsOf(d) /\ Kind(d)' = Kind(d)
      /\ FinalKind' = FinalKind
  BY <1>1 DEF KindsOf, Kind, MainStepsOf, FinalKind
<1> QED BY <1>1, <1>2, GroupAssumption DEF OperationsInOrder

LEMMA OperationsNext ==
  ASSUME Base, OperationsInOrder, [Next]_vars
  PROVE  OperationsInOrder'
<1>1. CASE UNCHANGED vars
  BY <1>1 DEF vars, clientVars, taskVars, serverVars, OperationsInOrder, KindsOf, Kind, MainStepsOf,
              FinalKind
<1> QED BY <1>1, OperationsCallback, OperationsToken, OperationsAnswer, OperationsEnd DEF Next

LEMMA EffectsNext ==
  ASSUME Base, OperationsInOrder, EffectsStay, [Next]_vars
  PROVE  EffectsStay'
<1>1. VM \subseteq Call /\ Main \in Call /\ Main \notin VM
  BY GroupAssumption
<1>2. CASE UNCHANGED <<op, power, ext, action>>
  BY <1>2 DEF EffectsStay
<1>3. CASE UNCHANGED vars \/ Callback \/ \E n \in DOMAIN promise : TokenStep(n) \/ Expire(n)
  <2>1. UNCHANGED <<op, power, ext, action>>
    BY <1>3, CallbackGives DEF vars, unseen, TokenStep, Expire, serverVars, taskVars
  <2> QED BY <1>2, <2>1
<1>4. ASSUME NEW c \in Call, Answer(c)
      PROVE  EffectsStay'
  <2>1. /\ UNCHANGED <<power, ext, action>>
        /\ \A d \in Call \ {c} : op'[d] = op[d]
        /\ op'[c] = op[c] \/ op'[c] = [kind |-> Kind(c), status |-> "InProgress"]
    BY <1>4, AnswerStarts
  <2> QED BY <1>1, <2>1 DEF EffectsStay
<1>5. ASSUME NEW c \in Call, OperationEnds(c)
      PROVE  EffectsStay'
  <2>1. /\ UNCHANGED action /\ op[c].status = "InProgress"
        /\ op'[c].status \in {"Succeeded", "Failed"} /\ op'[c].kind = op[c].kind
        /\ \A d \in Call \ {c} : op'[d] = op[d]
        /\ op[c].kind \in KindsOf(c)
    BY <1>5 DEF OperationEnds, InProgress, taskVars, Base, TypeOK, Operation, OperationsInOrder
  <2>2. /\ power \in [VM -> {"running", "deallocated", "stopped", "deleted"}]
        /\ ext \in [VM -> {"none", "Succeeded", "Failed"}]
        /\ action \in VmActions \cup AgentActions \cup {"DeleteRG"}
    BY GroupAssumption DEF Base, TypeOK
  <2>3. /\ op[c].kind = "deleteGroup" => c = Main /\ action = "DeleteRG"
        /\ op[c].kind = "deleteVm" => c # Main /\ action = "Delete"
    BY <1>1, <2>1, <2>2 DEF KindsOf, MainStepsOf, VmActions
  <2>4. CASE op'[c].status = "Failed"
    <3>1. /\ UNCHANGED power /\ (c \in VM => \A v \in VM \ {c} : ext'[v] = ext[v])
          /\ c \notin VM => ext' = ext
      BY <1>5, <2>1, <2>2, <2>4 DEF OperationEnds, Base, TypeOK, Operation
    <3> QED BY <1>1, <2>1, <2>4, <3>1 DEF EffectsStay
  <2>5. CASE op'[c].status = "Succeeded" /\ op[c].kind = "deleteGroup"
    <3>1. \A v \in VM : power'[v] = "deleted"
      BY <1>5, <2>1, <2>5 DEF OperationEnds, Effect, Base, TypeOK, Operation
    <3> QED BY <2>1, <2>3, <2>5, <3>1 DEF EffectsStay
  <2>6. CASE op'[c].status = "Succeeded" /\ c = Main /\ op[c].kind # "deleteGroup"
    <3>1. UNCHANGED <<power, ext>>
      BY <1>5, <2>1, <2>6 DEF OperationEnds, Effect, Base, TypeOK, Operation
    <3> QED BY <1>1, <2>1, <2>6, <3>1 DEF EffectsStay
  <2>7. CASE op'[c].status = "Succeeded" /\ c \in VM
    <3> DEFINE kind == op[c].kind
    <3>1. Effect(c, kind) /\ kind # "deleteGroup" /\ c # Main
      BY <1>1, <1>5, <2>1, <2>3, <2>7 DEF OperationEnds, Base, TypeOK, Operation
    <3>2. \A v \in VM \ {c} : power'[v] = power[v] /\ ext'[v] = ext[v]
      BY <2>2, <3>1 DEF Effect
    <3>3. power[c] = "deleted" => power' = power
      BY <3>1 DEF Effect
    <3>4. power[c] # "deleted" =>
            /\ kind \in {"Start", "Restart"} => power'[c] = "running"
            /\ kind = "Stop" => power'[c] = "stopped"
            /\ kind = "StopWithDeallocate" => power'[c] = "deallocated"
            /\ kind = "deleteVm" => power'[c] = "deleted"
            /\ kind = "add" => ext'[c] = "Succeeded"
            /\ kind # "deleteVm" => power'[c] # "deleted"
      BY <2>2, <2>7, <3>1 DEF Effect
    <3> HIDE DEF kind
    <3>5. kind = "deleteVm" => action = "Delete"
      BY <2>3 DEF kind
    <3>6. op'[c].kind = kind
      BY <2>1 DEF kind
    <3> QED BY <1>1, <2>1, <2>7, <3>2, <3>3, <3>4, <3>5, <3>6 DEF EffectsStay
  <2> QED BY <1>1, <2>1, <2>4, <2>5, <2>6, <2>7, GroupAssumption
<1> QED BY <1>3, <1>4, <1>5 DEF Next

------------------------------------------------------------------------------
(* The repeats of an operation.                                            *)

LEMMA RepeatsNext ==
  ASSUME Base, AcceptedOrLost, [Next]_vars
  PROVE  AcceptedOrLost'
<1>1. VM \subseteq Call /\ Main \notin VM /\ accepted \in [VM -> Nat] /\ lost \in [VM -> Nat]
  BY GroupAssumption DEF Base, TypeOK
<1>2. CASE /\ UNCHANGED <<accepted, lost, step>>
           /\ \A v \in VM : call'[v].polling = call[v].polling
  BY <1>2 DEF AcceptedOrLost
<1>3. ASSUME NEW v \in VM, VmProgram(v)
      PROVE  AcceptedOrLost'
  <2>1. /\ UNCHANGED <<accepted, lost>> /\ step[v] \in VmSteps
        /\ GoesOn(v) \/ Ended(v) \/ Stopped(v)
    BY <1>3, VmProgramMoves DEF unseen, historyVars
  <2>2. \A w \in VM \ {v} : step'[w] = step[w] /\ call'[w] = call[w]
    <3>1. v \in Call /\ ClientTypeOK /\ step \in [Call -> Steps]
      BY <1>1 DEF Base, TypeOK, Steps
    <3>2. \E s : Go(v, s) \/ Return(v, s)
      BY <2>1 DEF GoesOn, Ended, Stopped
    <3>3. \A d \in Call \ {v} : call'[d] = call[d]
      BY <3>1, <3>2, BeginGives, ReturnGives DEF Go
    <3> QED BY <1>1, <3>1, <3>2, <3>3 DEF Go, Return
  <2>3. CASE Ended(v) \/ Stopped(v)
    <3>1. step'[v] \in Ends
      BY <1>1, <2>3 DEF Ended, Stopped, Return, Ends, Base, TypeOK
    <3> QED BY <1>1, <2>1, <2>2, <3>1 DEF AcceptedOrLost
  <2>4. CASE GoesOn(v)
    <3>1. PICK s \in StepsOf(action) \ {"operate", "unregister"} :
            s = "deleteVm" => step[v] = "unregister"
      BY <2>4 DEF GoesOn
    <3>2. step[v] \in StepsOf(action) /\ step[v] \notin Ends
      BY <2>1 DEF Base, Programs, VmSteps, Ends
    <3>3. step[v] \notin {"operate", "deleteVm"}
      <4>1. step[v] = "deleteVm" => s \in {"unregister", "deleteVm"}
        BY <3>1, <3>2, StepsOfActions DEF StepsOf, VmActions
      <4>2. step[v] = "operate" => s = "operate"
        BY <3>1, <3>2, StepsOfActions DEF StepsOf
      <4> QED BY <3>1, <4>1, <4>2
    <3>4. accepted[v] <= lost[v]
      BY <3>2, <3>3 DEF AcceptedOrLost
    <3> QED BY <1>1, <2>1, <2>2, <3>4 DEF AcceptedOrLost
  <2> QED BY <2>1, <2>3, <2>4
<1>4. CASE MainProgram
  <2>1. UNCHANGED <<accepted, lost>> /\ (TaskGoesOn \/ TaskForks \/ TaskEnds)
    BY <1>4, MainProgramMoves DEF unseen, historyVars
  <2>2. Main \in Call /\ ClientTypeOK /\ step \in [Call -> Steps]
    BY GroupAssumption DEF Base, TypeOK, Steps
  <2>3. CASE TaskGoesOn \/ TaskEnds
    <3>1. \E s : Go(Main, s) \/ Return(Main, s)
      BY <2>3 DEF TaskGoesOn, TaskEnds, Finish
    <3>2. \A d \in Call \ {Main} : call'[d] = call[d]
      BY <2>2, <3>1, BeginGives, ReturnGives DEF Go
    <3>3. \A d \in Call \ {Main} : step'[d] = step[d]
      BY <2>2, <3>1 DEF Go, Return
    <3> QED BY <1>1, <2>1, <3>2, <3>3 DEF AcceptedOrLost
  <2>4. CASE TaskForks
    <3>1. \A v \in VM : step[v] = "idle"
      BY <2>4 DEF TaskForks, Base, Programs, MainSteps
    <3>2. \A v \in VM : accepted[v] <= lost[v]
      BY <1>1, <3>1 DEF AcceptedOrLost, Base, Programs, AtRequest, Ends
    <3> QED BY <1>1, <2>1, <3>2 DEF AcceptedOrLost
  <2> QED BY <2>1, <2>3, <2>4
<1>5. ASSUME NEW n \in DOMAIN promise, TokenStep(n) \/ Expire(n)
      PROVE  AcceptedOrLost'
  <2>1. UNCHANGED <<accepted, lost, step>> /\ \A c \in Call : Told(c)
    BY <1>5, BaseToken DEF TokenStep, Expire, taskVars, historyVars
  <2> QED BY <1>1, <1>2, <2>1 DEF Told
<1>6. ASSUME NEW c \in Call, Answer(c)
      PROVE  AcceptedOrLost'
  <2>1. /\ UNCHANGED step /\ \A d \in Call \ {c} : call'[d] = call[d]
        /\ step[c] \in Asking /\ (call[c].polling => call'[c].polling)
    BY <1>6, AnswerStarts
  <2>2. CASE UNCHANGED <<accepted, lost>>
    BY <1>1, <2>1, <2>2 DEF AcceptedOrLost
  <2>3. CASE /\ accepted' = IF step[c] \in {"operate", "deleteVm"}
                            THEN [accepted EXCEPT ![c] = @ + 1] ELSE accepted
             /\ ~ call[c].polling
             /\ \/ call'[c].polling /\ lost' = lost
                \/ lost' = IF c = Main THEN lost ELSE [lost EXCEPT ![c] = @ + 1]
    <3>1. \A v \in VM \ {c} : accepted'[v] = accepted[v] /\ lost'[v] = lost[v]
      BY <1>1, <2>3
    <3>2. ASSUME c \in VM
          PROVE  /\ accepted'[c] <= 1 + lost'[c]
                 /\ \/ step[c] \in {"operate", "deleteVm"} /\ call'[c].polling
                    \/ accepted'[c] <= lost'[c]
      <4>1. step[c] \notin Ends
        BY <2>1 DEF Asking, MainSteps, VmSteps, Ends
      <4>2. accepted[c] <= lost[c] /\ accepted[c] \in Nat /\ lost[c] \in Nat
        BY <1>1, <2>3, <3>2, <4>1 DEF AcceptedOrLost
      <4>3. accepted'[c] \in {accepted[c], accepted[c] + 1}
            /\ (accepted'[c] = accepted[c] + 1 => step[c] \in {"operate", "deleteVm"})
        BY <1>1, <2>3, <3>2, <4>2
      <4>4. \/ call'[c].polling /\ lost'[c] = lost[c]
            \/ lost'[c] = lost[c] + 1
        BY <1>1, <2>3, <3>2
      <4> QED BY <4>2, <4>3, <4>4
    <3>3. ASSUME NEW v \in VM
          PROVE  /\ accepted'[v] <= 1 + lost'[v]
                 /\ \/ step'[v] \in Ends
                    \/ step'[v] \in {"operate", "deleteVm"} /\ call'[v].polling
                    \/ accepted'[v] <= lost'[v]
      <4>1. CASE v = c
        BY <2>1, <3>2, <4>1
      <4>2. CASE v # c
        BY <1>1, <2>1, <3>1, <4>2 DEF AcceptedOrLost
      <4> QED BY <4>1, <4>2
    <3> QED BY <3>3 DEF AcceptedOrLost
  <2> QED BY <1>6, <2>2, <2>3, AnswerStarts
<1>7. CASE UNCHANGED vars \/ \E c \in Call : OperationEnds(c)
  <2>1. UNCHANGED <<call, step, accepted, lost>>
    BY <1>7 DEF OperationEnds, vars, clientVars, taskVars, historyVars
  <2> QED BY <1>2, <2>1
<1> QED BY <1>3, <1>4, <1>5, <1>6, <1>7 DEF Next, Callback

LEMMA RepeatsAlways == Spec => []AcceptedOrLost
<1>1. Init => AcceptedOrLost
  <2> SUFFICES ASSUME Init, NEW v \in VM
               PROVE  accepted[v] <= lost[v] /\ accepted[v] <= 1 + lost[v]
    BY DEF AcceptedOrLost
  <2>1. accepted[v] = 0 /\ lost[v] = 0
    BY DEF Init
  <2> QED BY <2>1
<1> QED BY <1>1, BaseAlways, RepeatsNext, PTL DEF Spec

(* An operation is accepted on a machine once more at most for each answer *)
(* that was lost.                                                          *)
THEOREM RepeatsLost == Spec => []RepeatsAreLost
<1>1. AcceptedOrLost => RepeatsAreLost
  BY DEF AcceptedOrLost, RepeatsAreLost
<1> QED BY <1>1, RepeatsAlways, PTL

------------------------------------------------------------------------------
(* The deployment.                                                         *)

LEMMA DeploymentNext ==
  ASSUME Base, OperationsInOrder, DeploymentSettled, [Next]_vars
  PROVE  DeploymentSettled'
<1>1. /\ Main \in Call /\ Main \notin VM /\ VM \subseteq Call /\ ClientTypeOK
      /\ step \in [Call -> Steps] /\ faults \in Nat
      /\ op[Main].status \in {"none", "InProgress", "Succeeded", "Failed"}
  BY GroupAssumption, OperationType DEF Base, TypeOK, Steps
<1>0. ASSUME faults' = faults + 1
      PROVE  faults' # 0 /\ faults' > 0
  BY <1>0, <1>1
<1>2. expired' # {} => faults' > 0
  <2>1. \/ UNCHANGED <<expired, faults>>
        \/ faults' = faults + 1
        \/ expired' = expired /\ faults' \in {faults, faults + 1}
    <3>1. CASE Callback \/ UNCHANGED vars
      BY <3>1, CallbackGives DEF unseen, vars, faultVars
    <3>2. CASE \E n \in DOMAIN promise : TokenStep(n) \/ Expire(n)
      BY <3>2 DEF TokenStep, Expire, Fails
    <3>3. ASSUME NEW c \in Call, Answer(c)
          PROVE  expired' = expired /\ faults' \in {faults, faults + 1}
      BY <3>3, AnswerGives DEF Fails, faultVars
    <3>4. CASE \E c \in Call : OperationEnds(c)
      BY <3>4 DEF OperationEnds, faultVars
    <3> QED BY <3>1, <3>2, <3>3, <3>4 DEF Next
  <2>2. expired # {} => faults > 0
    BY DEF DeploymentSettled
  <2> QED BY <1>0, <1>1, <2>1, <2>2
<1> DEFINE Settles ==
  /\ step[Main] = "deploy" /\ call[Main].polling /\ call[Main].pc = "done" =>
       op[Main].status # "InProgress" \/ call[Main].answer = "thrown"
  /\ step[Main] = "deployment" => op[Main].status \in {"Succeeded", "Failed"}
  /\ step[Main] = "deployment" /\ call[Main].pc = "done" =>
       call[Main].answer \in {op[Main].status, "thrown"}
  /\ step[Main] \in {"list", "waiting"} => op[Main].status = "Succeeded"
<1>3. SUFFICES ASSUME action' = "Create Or Update Resource Group", faults' = 0
               PROVE  Settles'
  BY <1>2 DEF DeploymentSettled
<1>4. action = "Create Or Update Resource Group" /\ faults = 0 => Settles
  BY DEF DeploymentSettled
<1>5. ASSUME UNCHANGED <<action, faults, step, op, call>>
      PROVE  Settles'
  BY <1>3, <1>4, <1>5
<1>6. ASSUME NEW v \in VM, VmProgram(v)
      PROVE  Settles'
  <2>1. /\ UNCHANGED <<action, faults, op>> /\ v # Main /\ v \in Call
        /\ \E s : Go(v, s) \/ Return(v, s)
    BY <1>1, <1>6, VmProgramMoves DEF GoesOn, Ended, Stopped, unseen, serverVars, faultVars
  <2>2. call'[Main] = call[Main] /\ step'[Main] = step[Main]
    <3>1. \A d \in Call \ {v} : call'[d] = call[d]
      BY <1>1, <2>1, BeginGives, ReturnGives DEF Go
    <3> QED BY <1>1, <2>1, <3>1 DEF Go, Return
  <2> QED BY <1>3, <1>4, <2>1, <2>2
<1>7. CASE MainProgram
  <2>1. /\ UNCHANGED <<action, faults, op>> /\ (TaskGoesOn \/ TaskForks \/ TaskEnds)
    BY <1>7, MainProgramMoves DEF unseen, serverVars, faultVars
  <2>2. Settles
    BY <1>3, <1>4, <2>1
  <2>3. CASE TaskGoesOn
    <3>1. PICK s \in MainStepsOf(action) :
            /\ Go(Main, s)
            /\ s = "deployment" =>
                 step[Main] = "deploy" /\ call[Main].pc = "done" /\ call[Main].polling
                 /\ call[Main].answer # "thrown"
            /\ s = "list" =>
                 \/ step[Main] = "list"
                 \/ step[Main] = "deployment" /\ call[Main].pc = "done"
                    /\ call[Main].answer \in {"Succeeded", "InProgress"}
      BY <2>3 DEF TaskGoesOn
    <3>2. Fresh(call'[Main]) /\ step'[Main] = s /\ s # "waiting"
      <4>1. s \in MainSteps
        BY StepsOfActions
      <4> QED BY <1>1, <3>1, <4>1, BeginGives DEF Go, MainSteps
    <3>3. CASE s = "deployment"
      <4>1. op[Main].status # "InProgress" /\ op[Main].status # "none"
        BY <1>1, <2>2, <3>1, <3>3 DEF OperationsInOrder
      <4> QED BY <1>1, <2>1, <3>2, <3>3, <4>1 DEF Fresh
    <3>4. CASE s = "list"
      <4>1. op[Main].status = "Succeeded"
        BY <1>1, <2>2, <3>1, <3>4
      <4> QED BY <2>1, <3>2, <3>4, <4>1
    <3>5. CASE s \notin {"deployment", "list"}
      BY <3>2, <3>5 DEF Fresh
    <3> QED BY <3>3, <3>4, <3>5
  <2>4. CASE TaskForks
    <3>1. step[Main] = "list" /\ step'[Main] = "waiting"
      BY <1>1, <2>4, MachinesOfPages DEF TaskForks, Base
    <3> QED BY <2>1, <2>2, <3>1
  <2>5. CASE TaskEnds
    <3>1. step'[Main] = "end"
      BY <1>1, <2>5 DEF TaskEnds, Finish, Return
    <3> QED BY <3>1
  <2> QED BY <2>1, <2>3, <2>4, <2>5
<1>8. ASSUME NEW n \in DOMAIN promise, TokenStep(n) \/ Expire(n)
      PROVE  Settles'
  <2>1. /\ UNCHANGED <<action, step, op>> /\ Told(Main) /\ faults = 0
    BY <1>0, <1>1, <1>3, <1>8, BaseToken DEF TokenStep, Expire, Fails, taskVars, serverVars
  <2>2. Settles
    BY <1>3, <1>4, <2>1
  <2> QED BY <2>1, <2>2 DEF Told
<1>9. ASSUME NEW c \in Call, Answer(c), c # Main
      PROVE  Settles'
  <2>1. UNCHANGED <<step, action>> /\ call'[Main] = call[Main] /\ op'[Main] = op[Main]
    BY <1>1, <1>9, AnswerStarts
  <2>2. faults = 0
    <3>1. faults' \in {faults, faults + 1}
      BY <1>9, AnswerGives DEF Fails, faultVars
    <3> QED BY <1>0, <1>1, <1>3, <3>1
  <2> QED BY <1>3, <1>4, <2>1, <2>2
<1>10. CASE Answer(Main)
  <2>1. PICK answer \in Result \ {"none"} :
          /\ Receive(Main, answer) /\ call[Main].pc = "sent" /\ UNCHANGED taskVars
          /\ \/ Serve(Main, answer) /\ UNCHANGED faults
             \/ call[Main].held \in expired /\ UNCHANGED faults
             \/ Fails
    BY <1>1, <1>10, AnswerGives DEF faultVars
  <2>2. UNCHANGED <<action, faults, step>> /\ faults = 0 /\ Serve(Main, answer)
    <3>1. ~ Fails
      BY <1>0, <1>3 DEF Fails
    <3>2. faults = 0 /\ expired = {}
      <4>1. faults = 0
        BY <1>3, <2>1, <3>1
      <4>2. expired # {} => faults > 0
        BY DEF DeploymentSettled
      <4>3. ~ (faults > 0)
        BY <4>1
      <4> QED BY <4>1, <4>2, <4>3
    <3> QED BY <1>3, <2>1, <3>1, <3>2 DEF taskVars
  <2>3. Settles
    BY <1>3, <1>4, <2>2
  <2>4. Resent(Main, answer) \/ Reissued(Main, answer) \/ Polls(Main, answer) \/ Concluded(Main, answer)
    BY <1>1, <2>1, ReceiveGives
  <2>5. Reads(Main, answer) \/ Creates(Main, answer) \/ Starts(Main, answer)
    BY <1>1, <2>1, <2>2, ServeGives
  <2>6. CASE step[Main] = "deploy"
    <3>1. SUFFICES ASSUME call'[Main].polling, call'[Main].pc = "done"
                   PROVE  op'[Main].status # "InProgress" \/ call'[Main].answer = "thrown"
      BY <2>2, <2>6
    <3>2. CASE Concluded(Main, answer)
      <4>1. call[Main].polling /\ answer # "InProgress"
        BY <3>1, <3>2 DEF Concluded
      <4>2. Reads(Main, answer) /\ answer = Reading(Main) /\ op' = op
        BY <2>5, <2>6, <4>1 DEF Reads, Creates, Starts, serverVars
      <4>3. answer = op[Main].status
        BY <2>6, <4>1, <4>2 DEF Reading
      <4> QED BY <4>1, <4>2, <4>3
    <3>3. CASE Polls(Main, answer)
      BY <3>1, <3>3 DEF Polls
    <3> QED BY <2>4, <3>1, <3>2, <3>3 DEF Resent, Reissued
  <2>7. CASE step[Main] = "deployment"
    <3>1. step[Main] \notin LongRunning /\ ~ call[Main].polling
      BY <1>1, <2>1, <2>7, IdleIsFresh DEF LongRunning, Base, Programs, AtRequest, Asking, MainSteps
    <3>2. Reads(Main, answer) /\ answer = Reading(Main) /\ op' = op
      BY <2>5, <2>7, <3>1 DEF Reads, Creates, Starts, serverVars
    <3>3. answer = op[Main].status
      BY <2>7, <3>1, <3>2 DEF Reading
    <3>4. call'[Main].pc = "done" => call'[Main].answer \in {answer, "thrown"}
      BY <2>4 DEF Resent, Reissued, Polls, Concluded
    <3> QED BY <2>2, <2>3, <2>7, <3>2, <3>3, <3>4
  <2>8. CASE step[Main] \in {"list", "waiting"}
    <3>1. op' = op
      BY <2>5, <2>8 DEF Reads, Creates, Starts, serverVars, LongRunning
    <3> QED BY <2>2, <2>3, <2>8, <3>1
  <2> QED BY <2>2, <2>6, <2>7, <2>8
<1>11. ASSUME NEW c \in Call, OperationEnds(c)
       PROVE  Settles'
  <2>1. /\ UNCHANGED <<call, step, action, faults>> /\ op[c].status = "InProgress"
        /\ op'[c].status \in {"Succeeded", "Failed"}
        /\ \A d \in Call \ {c} : op'[d] = op[d]
    BY <1>11 DEF OperationEnds, InProgress, clientVars, taskVars, faultVars, Base, TypeOK, Operation
  <2>2. Settles
    BY <1>3, <1>4, <2>1
  <2>3. CASE c = Main
    BY <2>1, <2>2, <2>3
  <2>4. CASE c # Main
    BY <1>1, <2>1, <2>2, <2>4
  <2> QED BY <2>3, <2>4
<1>12. CASE UNCHANGED vars
  BY <1>5, <1>12 DEF vars, clientVars, taskVars, serverVars, faultVars
<1> QED BY <1>6, <1>7, <1>8, <1>9, <1>10, <1>11, <1>12 DEF Next, Callback

LEMMA OperationsAlways == Spec => []OperationsInOrder
<1>1. Init => OperationsInOrder
  BY InitOperations
<1> QED BY <1>1, BaseAlways, OperationsNext, PTL DEF Spec

LEMMA DeploymentAlways == Spec => []DeploymentSettled
<1>1. Init => DeploymentSettled
  <2> SUFFICES ASSUME Init
               PROVE  DeploymentSettled
    OBVIOUS
  <2>1. expired = {} /\ Main \in Call
    BY GroupAssumption DEF Init
  <2>2. action = "Create Or Update Resource Group" => step[Main] = "exists"
    BY <2>1 DEF Init, FirstStep
  <2> QED BY <2>1, <2>2 DEF DeploymentSettled
<1> QED BY <1>1, BaseAlways, OperationsAlways, DeploymentNext, PTL DEF Spec

(* Without a fault the task goes on only with a deployment that succeeded. *)
THEOREM DeploymentOver == Spec => []DeploymentIsOver
<1>1. DeploymentSettled => DeploymentIsOver
  BY DEF DeploymentSettled, DeploymentIsOver
<1> QED BY <1>1, DeploymentAlways, PTL


------------------------------------------------------------------------------
(* The callbacks and the result.                                           *)

LEMMA MachinesAt ==
  ASSUME Base, NEW s
  PROVE  At(s) \subseteq Machines /\ IsFiniteSet(At(s)) /\ Cardinality(At(s)) \in Nat
<1>1. At(s) \in SUBSET Machines /\ IsFiniteSet(Machines)
  BY MachinesOfPages DEF Base, At
<1> QED BY <1>1, FS_Subset, FS_CardinalityType

(* A step that leaves alone which machines have ended, and how.            *)
LEMMA NobodyEnds ==
  ASSUME Base, UNCHANGED pages,
         \A v \in Machines : step'[v] = step[v] \/ {step[v], step'[v]} \cap Ends = {}
  PROVE  Machines' = Machines /\ At("ok")' = At("ok") /\ At("failed")' = At("failed")
<1>1. Machines' = Machines
  BY DEF Machines
<1> QED BY <1>1 DEF At, Ends

(* A machine that ends is counted with those that have ended so.           *)
LEMMA OneEnds ==
  ASSUME Base, UNCHANGED pages, NEW v \in Machines, step[v] \notin Ends, NEW s \in {"ok", "failed"},
         step' = [step EXCEPT ![v] = s]
  PROVE  /\ Machines' = Machines /\ At(s)' = At(s) \cup {v}
         /\ \A t \in {"ok", "failed"} \ {s} : At(t)' = At(t)
         /\ Cardinality(At(s)') = Cardinality(At(s)) + 1
<1>1. Machines' = Machines /\ Machines \subseteq VM /\ VM \subseteq Call
  BY MachinesOfPages, GroupAssumption DEF Machines, Base
<1>2. \A w \in Machines : step'[w] = IF w = v THEN s ELSE step[w]
  BY <1>1 DEF Base, TypeOK
<1>3. At(s)' = At(s) \cup {v} /\ v \notin At(s)
  BY <1>1, <1>2 DEF At, Ends
<1>4. \A t \in {"ok", "failed"} \ {s} : At(t)' = At(t)
  BY <1>1, <1>2 DEF At, Ends
<1>5. Cardinality(At(s) \cup {v}) = Cardinality(At(s)) + 1
  BY <1>3, MachinesAt, FS_AddElement
<1> QED BY <1>1, <1>3, <1>4, <1>5

(* When as many have ended as there are machines, all have.                *)
LEMMA AllHaveEnded ==
  ASSUME NEW M, IsFiniteSet(M), NEW S \in SUBSET M, NEW T \in SUBSET M, S \cap T = {},
         Cardinality(S) + Cardinality(T) = Cardinality(M)
  PROVE  M = S \cup T /\ (Cardinality(T) = 0 => M = S)
<1>1. /\ IsFiniteSet(S) /\ IsFiniteSet(T)
      /\ Cardinality(S) \in Nat /\ Cardinality(T) \in Nat
  BY FS_Subset, FS_CardinalityType
<1>2. Cardinality(S \cap T) = 0
  BY FS_EmptySet
<1>3. Cardinality(S \cup T) = Cardinality(S) + Cardinality(T) - Cardinality(S \cap T)
  BY <1>1, FS_Union
<1>4. Cardinality(S \cup T) = Cardinality(M) /\ S \cup T \in SUBSET M
  BY <1>1, <1>2, <1>3
<1>5. M = S \cup T
  BY <1>4, FS_Subset
<1>6. Cardinality(T) = 0 => T = {}
  BY <1>1, FS_EmptySet
<1> QED BY <1>5, <1>6

LEMMA CountedVmProgram ==
  ASSUME Base, CallbacksCounted, VerdictIsLast, NEW v \in VM, VmProgram(v)
  PROVE  CallbacksCounted' /\ VerdictIsLast'
<1>1. /\ UNCHANGED <<action, pages, power>> /\ step[v] \in VmSteps /\ v \in Call
      /\ GoesOn(v) \/ Ended(v) \/ Stopped(v)
  BY VmProgramMoves, GroupAssumption DEF unseen, serverVars
<1>2. v \in Machines /\ step[v] \notin Ends /\ Machines \subseteq VM /\ IsFiniteSet(Machines)
  BY <1>1, MachinesOfPages DEF Base, Programs, VmSteps, Ends
<1>3. /\ step[Main] \notin MainSteps \ {"deleteGroup"}
      /\ action \in VmActions => step[Main] = "waiting"
  <2>1. step[Main] \notin MainSteps \ {"deleteGroup"}
    BY <1>1 DEF Base, Programs, VmSteps
  <2>2. action \in VmActions => step[Main] # "end"
    BY <1>1 DEF VerdictIsLast, VmSteps
  <2>3. action \in VmActions => step[Main] # "deleteGroup"
    BY StepsOfActions DEF Base, Programs, VmActions
  <2> QED BY <2>1, <2>2, <2>3, StepsOfActions DEF Base, Programs
<1>4. step \in [Call -> Steps] /\ Main # v /\ Main \in Call
  BY GroupAssumption DEF Base, TypeOK, Steps
<1>5. /\ action \in VmActions => verdict = "none"
      /\ verdict = "Succeeded" => action = "DeleteRG"
  <2>1. step[v] \notin {"ok", "failed"}
    BY <1>1 DEF VmSteps
  <2> QED BY <1>2, <1>3, <2>1 DEF VerdictIsLast, At
<1>6. ASSUME UNCHANGED <<succeeded, failed, verdict>>, step'[Main] = step[Main],
             At("ok")' = At("ok"), At("failed")' = At("failed"), Machines' = Machines
      PROVE  CallbacksCounted' /\ VerdictIsLast'
  <2>1. CallbacksCounted'
    BY <1>1, <1>6 DEF CallbacksCounted
  <2>2. VerdictIsLast'
    BY <1>1, <1>3, <1>5, <1>6 DEF VerdictIsLast
  <2> QED BY <2>1, <2>2
<1>7. CASE GoesOn(v) \/ Stopped(v)
  <2>1. PICK s \in VmSteps \cup {"silent"} :
          step' = [step EXCEPT ![v] = s] /\ UNCHANGED reported
    BY <1>7, StepsOfActions DEF GoesOn, Stopped, Go, Return
  <2>2. step'[v] = s /\ \A d \in Call \ {v} : step'[d] = step[d]
    BY <1>1, <1>4, <2>1
  <2>3. /\ Machines' = Machines /\ At("ok")' = At("ok") /\ At("failed")' = At("failed")
    <3>1. s \notin {"ok", "failed"} /\ step[v] \notin {"ok", "failed"}
      BY <1>1 DEF VmSteps
    <3>2. Machines' = Machines /\ Machines \subseteq Call
      BY <1>1, <1>2, GroupAssumption DEF Machines
    <3> QED BY <2>2, <3>1, <3>2 DEF At
  <2> QED BY <1>4, <1>6, <2>1, <2>2, <2>3 DEF reported
<1>8. CASE Ended(v)
  <2>1. PICK s \in {"ok", "failed"} :
          /\ step' = [step EXCEPT ![v] = s]
          /\ action \in VmActions => Called(v, s = "ok")
          /\ action \notin VmActions => UNCHANGED reported
    BY <1>8 DEF Ended, Return
  <2>2. /\ Machines' = Machines /\ At(s)' = At(s) \cup {v}
        /\ \A t \in {"ok", "failed"} \ {s} : At(t)' = At(t)
        /\ Cardinality(At(s)') = Cardinality(At(s)) + 1
    BY <1>1, <1>2, <2>1, OneEnds
  <2>3. step'[Main] = step[Main]
    BY <1>4, <2>1
  <2>4. CASE action \notin VmActions
    <3>1. CallbacksCounted'
      BY <1>1, <2>4 DEF CallbacksCounted
    <3>2. VerdictIsLast'
      BY <1>1, <1>5, <2>1, <2>3, <2>4 DEF VerdictIsLast, reported
    <3> QED BY <3>1, <3>2
  <2>5. CASE action \in VmActions
    <3>1. /\ succeeded = Cardinality(At("ok")) /\ failed = Cardinality(At("failed"))
          /\ succeeded \in Nat /\ failed \in Nat
      BY <2>5 DEF CallbacksCounted, Base, TypeOK
    <3>2. /\ succeeded' = IF s = "ok" THEN succeeded + 1 ELSE succeeded
          /\ failed' = IF s = "ok" THEN failed ELSE failed + 1
          /\ verdict' = IF succeeded' + failed' = Cardinality(Machines)
                        THEN (IF failed' > 0 THEN "Failed" ELSE "Succeeded") ELSE verdict
      BY <2>1, <2>5 DEF Called
    <3>3. succeeded' = Cardinality(At("ok")') /\ failed' = Cardinality(At("failed")')
      <4>1. CASE s = "ok"
        BY <2>2, <3>1, <3>2, <4>1
      <4>2. CASE s = "failed"
        BY <2>2, <3>1, <3>2, <4>2
      <4> QED BY <4>1, <4>2
    <3>4. CallbacksCounted'
      BY <3>3 DEF CallbacksCounted
    <3>5. ASSUME verdict' # "none"
          PROVE  /\ Machines = At("ok")' \cup At("failed")'
                 /\ verdict' = "Succeeded" => Machines = At("ok")'
      <4> DEFINE S == At("ok")'
                 T == At("failed")'
      <4>1. succeeded' + failed' = Cardinality(Machines)
        BY <1>5, <2>5, <3>2, <3>5
      <4>2. S \in SUBSET Machines /\ T \in SUBSET Machines /\ S \cap T = {}
        BY <2>2 DEF At
      <4>3. verdict' = "Succeeded" => Cardinality(T) = 0
        <5>1. Cardinality(T) \in Nat
          BY <1>2, <4>2, FS_Subset, FS_CardinalityType
        <5> QED BY <3>2, <3>3, <4>1, <5>1
      <4>4. Cardinality(S) + Cardinality(T) = Cardinality(Machines)
        BY <3>3, <4>1
      <4> HIDE DEF S, T
      <4>5. Machines = S \cup T /\ (Cardinality(T) = 0 => Machines = S)
        BY <1>2, <4>2, <4>4, AllHaveEnded
      <4> QED BY <4>3, <4>5 DEF S, T
    <3>6. action' = action /\ action # "DeleteRG" /\ step'[Main] = "waiting"
      BY <1>1, <1>3, <2>3, <2>5 DEF VmActions
    <3>7. VerdictIsLast'
      BY <2>2, <2>5, <3>5, <3>6 DEF VerdictIsLast
    <3> QED BY <3>4, <3>7
  <2> QED BY <2>4, <2>5
<1> QED BY <1>1, <1>7, <1>8

LEMMA CountedMainProgram ==
  ASSUME Base, OperationsInOrder, EffectsStay, CallbacksCounted, VerdictIsLast, MainProgram
  PROVE  CallbacksCounted' /\ VerdictIsLast'
<1>1. /\ UNCHANGED <<action, pages, power, succeeded, failed>>
      /\ \/ call[Main].pc = "done" /\ step[Main] \in MainSteps
         \/ step[Main] = "waiting" /\ action \notin VmActions
      /\ TaskGoesOn \/ TaskForks \/ TaskEnds
  BY MainProgramMoves DEF unseen, serverVars, counts
<1>2. /\ Main \in Call /\ VM \subseteq Call /\ Main \notin VM /\ step \in [Call -> Steps]
      /\ Machines \subseteq VM
  BY GroupAssumption, MachinesOfPages DEF Base, TypeOK, Steps
<1>3. verdict = "none"
  BY <1>1 DEF VerdictIsLast, MainSteps
<1>4. CASE TaskGoesOn \/ TaskForks
  <2>1. UNCHANGED verdict
    BY <1>4 DEF TaskGoesOn, TaskForks
  <2>2. step'[Main] # "end"
    <3>1. CASE TaskGoesOn
      <4>1. PICK s \in MainStepsOf(action) : Go(Main, s)
        BY <3>1 DEF TaskGoesOn
      <4>2. step'[Main] = s /\ s \in MainSteps
        BY <1>2, <4>1, StepsOfActions DEF Go
      <4> QED BY <4>2 DEF MainSteps
    <3>2. CASE TaskForks
      BY <1>2, <3>2 DEF TaskForks
    <3> QED BY <1>4, <3>1, <3>2
  <2>3. At("ok")' = At("ok") /\ At("failed")' = At("failed")
    <3>1. CASE TaskGoesOn
      <4>1. PICK s : Go(Main, s)
        BY <3>1 DEF TaskGoesOn
      <4>2. \A v \in Machines : step'[v] = step[v]
        BY <1>2, <4>1 DEF Go
      <4> QED BY <1>1, <4>2, NobodyEnds
    <3>2. CASE TaskForks
      <4>1. \A v \in Machines : step[v] = "idle" /\ step'[v] = FirstVmStep
        BY <1>2, <3>2 DEF TaskForks, Base, Programs, MainSteps
      <4>2. FirstVmStep \notin Ends /\ "idle" \notin Ends
        BY DEF FirstVmStep, Ends
      <4> QED BY <1>1, <4>1, <4>2, NobodyEnds
    <3> QED BY <1>4, <3>1, <3>2
  <2>4. CallbacksCounted'
    BY <1>1, <2>3 DEF CallbacksCounted
  <2>5. VerdictIsLast'
    BY <1>3, <2>1, <2>2 DEF VerdictIsLast
  <2> QED BY <2>4, <2>5
<1>5. CASE TaskEnds
  <2>1. PICK r \in {"Succeeded", "Failed"} :
          /\ Finish(r)
          /\ action \in VmActions => step[Main] = "list"
          /\ r = "Succeeded" =>
               \/ step[Main] = "list" /\ Machines = {} /\ action # "DeleteRG"
               \/ action \in AgentActions /\ \A v \in Machines : step[v] = "ok"
               \/ action = "DeleteRG" /\ Good(Main, "deleteGroup")
    BY <1>5 DEF TaskEnds
  <2>2. /\ verdict' = r /\ step'[Main] = "end" /\ \A v \in VM : step'[v] = step[v]
    BY <1>2, <2>1 DEF Finish, Return
  <2>3. /\ Machines' = Machines /\ At("ok")' = At("ok") /\ At("failed")' = At("failed")
    BY <1>1, <1>2, <2>2, NobodyEnds
  <2>4. action \in VmActions => \A v \in VM : step'[v] = "idle"
    BY <2>1, <2>2 DEF Base, Programs, MainSteps
  <2>5. ASSUME r = "Succeeded", action # "DeleteRG"
        PROVE  Machines = At("ok")
    BY <2>1, <2>5 DEF At
  <2>6. ASSUME r = "Succeeded", action = "DeleteRG"
        PROVE  \A v \in VM : power[v] = "deleted"
    <3>1. Good(Main, "deleteGroup")
      BY <2>1, <2>6 DEF AgentActions
    <3>2. /\ call[Main].polling /\ step[Main] = "deleteGroup" /\ call[Main].answer # "Failed"
          /\ call[Main].answer \in {"Succeeded", "Failed"}
      BY <1>2, <3>1 DEF Good, Done, OperationsInOrder
    <3>3. op[Main].status = "Succeeded" /\ op[Main].kind = "deleteGroup"
      BY <1>2, <3>2 DEF OperationsInOrder, Kind, ExtensionDeletion
    <3> QED BY <3>3 DEF EffectsStay
  <2>7. CallbacksCounted'
    BY <1>1, <2>3 DEF CallbacksCounted
  <2>8. VerdictIsLast'
    BY <1>1, <2>2, <2>3, <2>4, <2>5, <2>6 DEF VerdictIsLast
  <2> QED BY <2>7, <2>8
<1> QED BY <1>1, <1>4, <1>5

(* The service undoes no deletion.                                         *)
LEMMA CountedService ==
  ASSUME Base, CallbacksCounted, VerdictIsLast, UNCHANGED taskVars,
         \A v \in VM : power[v] = "deleted" => power'[v] = "deleted"
  PROVE  CallbacksCounted' /\ VerdictIsLast'
<1>1. UNCHANGED <<action, pages, step, succeeded, failed, verdict>>
  BY DEF taskVars
<1>2. Machines' = Machines /\ At("ok")' = At("ok") /\ At("failed")' = At("failed")
  BY <1>1 DEF Machines, At
<1> QED BY <1>1, <1>2 DEF CallbacksCounted, VerdictIsLast

LEMMA CountedNext ==
  ASSUME Base, OperationsInOrder, EffectsStay, CallbacksCounted, VerdictIsLast, [Next]_vars
  PROVE  CallbacksCounted' /\ VerdictIsLast'
<1>1. ASSUME NEW n \in DOMAIN promise, TokenStep(n) \/ Expire(n)
      PROVE  CallbacksCounted' /\ VerdictIsLast'
  BY <1>1, CountedService DEF TokenStep, Expire, serverVars
<1>2. ASSUME NEW c \in Call, Answer(c)
      PROVE  CallbacksCounted' /\ VerdictIsLast'
  <2>1. UNCHANGED <<taskVars, power>>
    BY <1>2, AnswerStarts DEF Answer
  <2> QED BY <2>1, CountedService
<1>3. ASSUME NEW c \in Call, OperationEnds(c)
      PROVE  CallbacksCounted' /\ VerdictIsLast'
  <2>1. \A v \in VM : power[v] = "deleted" => power'[v] = "deleted"
    <3>1. power \in [VM -> {"running", "deallocated", "stopped", "deleted"}]
      BY DEF Base, TypeOK
    <3>2. CASE UNCHANGED power
      BY <3>2
    <3>3. CASE Effect(c, op[c].kind)
      <4>1. CASE op[c].kind = "deleteGroup"
        BY <3>3, <4>1 DEF Effect
      <4>2. CASE op[c].kind # "deleteGroup" /\ (c = Main \/ power[c] = "deleted")
        BY <3>3, <4>2 DEF Effect
      <4>3. CASE op[c].kind # "deleteGroup" /\ ~ (c = Main \/ power[c] = "deleted")
        <5>1. power' = power \/ \E s : power' = [power EXCEPT ![c] = s]
          BY <3>3, <4>3 DEF Effect
        <5> QED BY <3>1, <4>3, <5>1
      <4> QED BY <4>1, <4>2, <4>3
    <3> QED BY <1>3, <3>2, <3>3 DEF OperationEnds
  <2>2. UNCHANGED taskVars
    BY <1>3 DEF OperationEnds
  <2> QED BY <2>1, <2>2, CountedService
<1>4. CASE UNCHANGED vars
  <2>1. UNCHANGED <<taskVars, power>>
    BY <1>4 DEF vars, serverVars
  <2> QED BY <2>1, CountedService
<1> QED BY <1>1, <1>2, <1>3, <1>4, CountedVmProgram, CountedMainProgram DEF Next, Callback

LEMMA InitCounted == Init => CallbacksCounted /\ VerdictIsLast
<1> SUFFICES ASSUME Init
             PROVE  CallbacksCounted /\ VerdictIsLast
  OBVIOUS
<1>1. Base /\ Main \in Call /\ Main \notin VM /\ VM \subseteq Call
  BY InitBase, GroupAssumption
<1>2. \A v \in VM : step[v] = "idle"
  BY <1>1 DEF Init
<1>3. At("ok") = {} /\ At("failed") = {}
  BY <1>1, <1>2, MachinesOfPages DEF At, Base
<1>4. succeeded = 0 /\ failed = 0 /\ verdict = "none"
  BY DEF Init
<1>5. CallbacksCounted
  BY <1>3, <1>4, FS_EmptySet DEF CallbacksCounted
<1> QED BY <1>2, <1>4, <1>5 DEF VerdictIsLast

LEMMA IInvAlways == Spec => []IInv
<1> DEFINE Late == OperationsInOrder /\ EffectsStay /\ CallbacksCounted /\ VerdictIsLast
<1>1. Init => Late
  BY InitOperations, InitCounted
<1>2. Base /\ Late /\ [Next]_vars => Late'
  BY OperationsNext, EffectsNext, CountedNext
<1> HIDE DEF Late
<1>3. Spec => []Late
  BY <1>1, <1>2, BaseAlways, PTL DEF Spec
<1>4. Base /\ Late /\ ExpiryInOrder /\ AcceptedOrLost /\ DeploymentSettled => IInv
  BY DEF Base, Late, IInv
<1> QED BY <1>3, <1>4, BaseAlways, ExpiryAlways, RepeatsAlways, DeploymentAlways, PTL

(* A result of an action on machines comes when every call has ended, and  *)
(* only an operation whose error hid it may still be under way.            *)
THEOREM VerdictComplete == Spec => []VerdictIsComplete
<1>1. IInv => VerdictIsComplete
  <2> SUFFICES ASSUME IInv, verdict # "none", action \in VmActions, NEW v \in VM
               PROVE  call[v].pc = "idle" /\ (InProgress(v) => step[v] = "failed")
    BY DEF VerdictIsComplete
  <2>1. Base /\ v \in Call /\ Idle.pc = "idle" /\ action # "DeleteRG"
    BY GroupAssumption DEF IInv, Base, Idle, VmActions
  <2>2. step[v] \in {"idle", "ok", "failed"}
    <3>1. CASE v \in Machines
      BY <3>1 DEF IInv, VerdictIsLast, At
    <3>2. CASE v \notin Machines
      BY <3>2 DEF IInv, Programs
    <3> QED BY <3>1, <3>2
  <2>3. call[v] = Idle
    BY <2>1, <2>2 DEF Base, Programs, AtRequest, Asking, MainSteps, VmSteps
  <2>4. InProgress(v) => step[v] \notin {"idle", "ok"}
    BY <2>1 DEF IInv, OperationsInOrder, InProgress
  <2> QED BY <2>1, <2>2, <2>3, <2>4
<1> QED BY <1>1, IInvAlways, PTL

(* A task that succeeds has done to every machine what its action says.    *)
THEOREM SuccessReal == Spec => []SuccessIsReal
<1>1. IInv => SuccessIsReal
  <2> SUFFICES ASSUME IInv, verdict = "Succeeded", NEW v \in Machines
               PROVE  Goal(v)
    BY DEF SuccessIsReal
  <2>1. /\ Base /\ v \in VM /\ action \in VmActions \cup AgentActions \cup {"DeleteRG"}
    BY MachinesOfPages, GroupAssumption DEF IInv, Base, TypeOK
  <2>2. CASE action = "DeleteRG"
    BY <2>1, <2>2 DEF IInv, VerdictIsLast, Goal, AgentActions
  <2>3. CASE action # "DeleteRG"
    <3>1. step[v] = "ok"
      BY <2>3 DEF IInv, VerdictIsLast, At
    <3>2. op[v].status = "Succeeded" /\ op[v].kind = FinalKind
      BY <2>1, <2>3, <3>1 DEF IInv, OperationsInOrder
    <3>3. /\ FinalKind \in {"Start", "Restart"} => power[v] \in {"running", "deleted"}
          /\ FinalKind = "Stop" => power[v] \in {"stopped", "deleted"}
          /\ FinalKind = "StopWithDeallocate" => power[v] \in {"deallocated", "deleted"}
          /\ FinalKind = "deleteVm" => power[v] = "deleted"
          /\ FinalKind = "add" => power[v] = "deleted" \/ ext[v] = "Succeeded"
          /\ action # "Delete" => power[v] # "deleted"
      BY <2>1, <2>3, <3>2 DEF IInv, EffectsStay
    <3>4. CASE action \in {"Start", "Restart", "Stop", "StopWithDeallocate"}
      <4>1. FinalKind = action
        BY <3>4 DEF FinalKind, VmActions
      <4> QED BY <3>2, <3>3, <3>4, <4>1 DEF Goal, AgentActions
    <3>5. CASE action = "Delete"
      <4>1. FinalKind = "deleteVm"
        BY <3>5 DEF FinalKind, VmActions
      <4> QED BY <3>3, <3>5, <4>1 DEF Goal, AgentActions
    <3>6. CASE action \in AgentActions
      <4>1. FinalKind = "add" /\ action # "Delete"
        BY <3>6 DEF FinalKind, VmActions, AgentActions
      <4> QED BY <3>3, <3>6, <4>1 DEF Goal, AgentActions
    <3> QED BY <2>1, <2>3, <3>4, <3>5, <3>6 DEF VmActions
  <2> QED BY <2>2, <2>3
<1> QED BY <1>1, IInvAlways, PTL

==============================================================================
