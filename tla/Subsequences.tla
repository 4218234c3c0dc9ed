---------------------------- MODULE Subsequences -----------------------------
(***************************************************************************)
(* The elements of a sequence that are in a set, in their order: what the  *)
(* loops "for ... if ... push" of the task compute.  SelectSeq has the     *)
(* same value, but takes an operator, and nothing can be proved of it with *)
(* the provers at hand; Subsequences_proof has the facts about Among.      *)
(***************************************************************************)
EXTENDS Naturals, Sequences

Among(s, Q) ==
  LET upTo[n \in Nat] ==
        IF n = 0 THEN <<>>
        ELSE IF s[n] \in Q THEN Append(upTo[n - 1], s[n])
        ELSE upTo[n - 1]
  IN  upTo[Len(s)]

FirstOr(s, default) == IF s = <<>> THEN default ELSE s[1]
=============================================================================
