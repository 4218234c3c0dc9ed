------------------------------- MODULE WebClient -------------------------------
(***************************************************************************)
(* sendRequest of the REST clients of Azure (webClient.ts): how a request  *)
(* can fail, and when it is sent once more.                                *)
(***************************************************************************)
EXTENDS Naturals

CONSTANT RetryCount   \* retryCount of sendRequest; 5 in the code

ASSUME RetryAssumption == RetryCount \in Nat \ {0}

(* How a request can fail: "busy" and "blank" are retriable statuses with  *)
(* and without a body, "reset" is a connection that fails with one of      *)
(* retriableErrorCodes, "broken" one that fails otherwise, "refused" and   *)
(* "void" are any other status of an error with and without a body.        *)
Retriable == {"busy", "blank", "reset"}
Thrown == {"reset", "broken"}
Fault == Retriable \cup Thrown \cup {"refused", "void"}

(* Mutants of MayRetry: 202 is taken for a failure, tries are not counted. *)
MayRetryAccepted(tries, answer) ==
  answer \in Retriable \cup {"accepted"} /\ tries + 1 < RetryCount
MayRetryForEver(tries, answer) == answer \in Retriable

(* The condition of sendRequest for one more try.                          *)
MayRetry(tries, answer) == answer \in Retriable /\ tries + 1 < RetryCount

=============================================================================
