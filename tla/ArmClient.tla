------------------------------- MODULE ArmClient -------------------------------
(***************************************************************************)
(* The REST client of Azure that the tasks share (Common/azure-arm-rest):  *)
(* sendRequest and its retries (webClient.ts), the token that all requests *)
(* of a task wait for (azure-arm-common.ts), the one new attempt after an  *)
(* expired token and the polling of a long-running operation               *)
(* (AzureServiceClient.ts).                                                *)
(*                                                                         *)
(* A call is a chain of requests, one at a time; the calls of a task run   *)
(* concurrently.  A module that extends this one says which requests a     *)
(* call makes, what the service does with them, and how many fail.         *)
(*                                                                         *)
(* Two delays are not steps.  The sleep before a retry or a poll only      *)
(* makes the answer later, and an answer may take any time.  The service   *)
(* acts on a request in the step in which the call learns of it: nothing   *)
(* else of the task reads what it did in between.                          *)
(***************************************************************************)
EXTENDS WebClient, Sequences

CONSTANTS
  Call,            \* the concurrent calls
  RetryLimit,      \* retryLimit of _getMSIAuthorizationToken; 5 in the code
  Schemes          \* the authentication schemes an endpoint can have

ASSUME ClientAssumption ==
  /\ RetryLimit \in Nat
  /\ Schemes \subseteq {"ServicePrincipal", "ManagedServiceIdentity"}

VARIABLES
  scheme,          \* the scheme of this endpoint
  promise,         \* the promises of a token there have been, in order
  token,           \* token_deferred: the index of one of them, 0 for none
  call             \* per call, its current request

clientVars == <<scheme, promise, token, call>>

(* tries is the counter i of sendRequest, rounds the parameter retyCount.  *)
Promise ==
  [state : {"pending", "good", "rejected"}, tries : 0 .. RetryCount - 1, rounds : 0 .. RetryLimit]

(* What a service can answer to the requests modelled here, and what a     *)
(* call can be left with.                                                  *)
Reply ==
  {"ok", "present", "absent", "busy", "gone", "accepted", "refused", "InProgress", "Succeeded",
   "Failed", "running", "deallocated", "stopped", "transitioning", "deleted"}
Result == Reply \cup Fault \cup {"none", "thrown", "expired"}

(* held is the promise whose token the request carries or waits for, again *)
(* that it has been sent a second time with a new token, polling that it   *)
(* is one of getLongRunningOperationResult.                                *)
Request ==
  [pc : {"idle", "token", "sent", "done"}, held : Nat, again : BOOLEAN,
   tries : 0 .. RetryCount - 1, polling : BOOLEAN, answer : Result]

NewPromise == [state |-> "pending", tries |-> 0, rounds |-> 0]

Idle ==
  [pc |-> "idle", held |-> 0, again |-> FALSE, tries |-> 0, polling |-> FALSE, answer |-> "none"]

ClientTypeOK ==
  /\ scheme \in Schemes
  /\ promise \in Seq(Promise) /\ token \in 0 .. Len(promise)
  /\ call \in [Call -> Request]
  /\ \A c \in Call : call[c].held \in 0 .. Len(promise)

ClientInit ==
  /\ scheme \in Schemes
  /\ promise = << >> /\ token = 0
  /\ call = [c \in Call |-> Idle]

------------------------------------------------------------------------------
(* The token.                                                              *)

(* Mutant of GetToken: the parameter is ignored.                           *)
GetAnyToken(force) ==
  IF token = 0
  THEN promise' = Append(promise, NewPromise) /\ token' = Len(promise) + 1
  ELSE UNCHANGED <<promise, token>>

(* getToken: everyone is given the last promise, even if it was rejected,  *)
(* and a new one is made only on demand.                                   *)
GetToken(force) ==
  IF token = 0 \/ force
  THEN promise' = Append(promise, NewPromise) /\ token' = Len(promise) + 1
  ELSE UNCHANGED <<promise, token>>

(* How the endpoint can answer; "busy" is the status 500, "throttled" 429. *)
TokenFault == {"busy", "throttled", "reset", "broken", "refused"}

(* A managed identity starts over, and resolves its promise with the next. *)
MayRenew(p, answer) ==
  scheme = "ManagedServiceIdentity" /\ answer \in {"busy", "throttled"} /\ p.rounds < RetryLimit

(* All who wait for a promise go on together when it is settled; an await  *)
(* of a settled one takes no time.  A rejection is an exception of the     *)
(* request, whichever call asked for the token.                            *)
Resumed(request, state) ==
  CASE state = "pending" -> request
    [] state = "good" -> [request EXCEPT !.pc = "sent"]
    [] state = "rejected" -> [request EXCEPT !.pc = "done", !.answer = "thrown"]

Settle(n, state) ==
  /\ promise' = [promise EXCEPT ![n].state = state]
  /\ call' = [c \in Call |-> IF call[c].pc = "token" /\ call[c].held = n
                             THEN Resumed(call[c], state) ELSE call[c]]

TokenGranted(n) ==
  /\ promise[n].state = "pending"
  /\ Settle(n, "good")
  /\ UNCHANGED <<scheme, token>>

TokenDenied(n, answer) ==
  /\ promise[n].state = "pending"
  /\ \/ /\ MayRetry(promise[n].tries, answer)
        /\ promise' = [promise EXCEPT ![n].tries = @ + 1]
        /\ UNCHANGED call
     \/ /\ ~ MayRetry(promise[n].tries, answer) /\ MayRenew(promise[n], answer)
        /\ promise' = [promise EXCEPT ![n].tries = 0, ![n].rounds = @ + 1]
        /\ UNCHANGED call
     \/ /\ ~ MayRetry(promise[n].tries, answer) /\ ~ MayRenew(promise[n], answer)
        /\ Settle(n, "rejected")
  /\ UNCHANGED <<scheme, token>>

------------------------------------------------------------------------------
(* Requests.                                                               *)

(* A request that awaits the token GetToken has given.                     *)
Awaiting(request) ==
  Resumed([request EXCEPT !.pc = "token", !.held = token'], promise'[token'].state)

(* beginRequest                                                            *)
BeginRequest(c, polling) ==
  /\ GetToken(FALSE)
  /\ call' = [call EXCEPT ![c] = Awaiting([Idle EXCEPT !.polling = polling])]
  /\ UNCHANGED scheme

(* One call gives way to those of a set, which all begin in one callback.  *)
Fork(c, C) ==
  /\ GetToken(FALSE)
  /\ call' = [d \in Call |-> IF d \in C THEN Awaiting(Idle) ELSE IF d = c THEN Idle ELSE call[d]]
  /\ UNCHANGED scheme

Resend(c, answer) ==
  /\ MayRetry(call[c].tries, answer)
  /\ call' = [call EXCEPT ![c].tries = @ + 1]
  /\ UNCHANGED <<scheme, promise, token>>

(* The answer 401 of an expired token: once per request, another one is    *)
(* asked for, and sendRequest starts over with it.                         *)
Reissue(c, answer) ==
  /\ answer = "expired" /\ ~ call[c].again
  /\ GetToken(TRUE)
  /\ call' = [call EXCEPT ![c] = Awaiting([Idle EXCEPT !.again = TRUE, !.polling = call[c].polling])]
  /\ UNCHANGED scheme

(* getLongRunningOperationResult: an operation that was accepted, or is    *)
(* still running, is polled without a limit; none of the clients modelled  *)
(* here is given a timeout.                                                *)
PollAgain(c, answer) ==
  /\ \/ ~ call[c].polling /\ answer = "accepted"
     \/ call[c].polling /\ answer = "InProgress"
  /\ BeginRequest(c, TRUE)

Conclude(c, answer) ==
  /\ ~ MayRetry(call[c].tries, answer)
  /\ ~ (answer = "expired" /\ ~ call[c].again)
  /\ answer # "accepted" /\ ~ (call[c].polling /\ answer = "InProgress")
  /\ call' = [call EXCEPT ![c].pc = "done",
                          ![c].answer = IF answer \in Thrown THEN "thrown" ELSE answer]
  /\ UNCHANGED <<scheme, promise, token>>

(* A call learns the answer to its request.                                *)
Receive(c, answer) ==
  /\ call[c].pc = "sent"
  /\ Resend(c, answer) \/ Reissue(c, answer) \/ PollAgain(c, answer) \/ Conclude(c, answer)

=============================================================================
