-------------------------- MODULE MCJenkinsQueueJob --------------------------
(* Small pipelines for TLC. *)
EXTENDS JenkinsQueueJob, TLC

Captured == {[console |-> TRUE, pipeline |-> TRUE]}
AnyInputs == Captured \cup {[console |-> c, pipeline |-> FALSE] : c \in BOOLEAN}

(* Every request fails in every way; all but those without which the task   *)
(* has no verdict; the one of these that README.md reports.                 *)
AllFaults == Request \X Failure
InitFaults == {"init"} \X Failure
RefusedReport == {"report"} \X {"missing", "denied", "status"}
HarmlessFaults == AllFaults \ (InitFaults \cup RefusedReport)
ResetFaults == {<<"init", "reset">>}

(* A's third build shows no causes if it is not one the root triggered. *)
ForeignUncaused == {<<"A", 3>>}

(* R starts A and B, and each of them starts C: the tree has C twice. *)
DiamondIdent == {"R", "A", "B", "C"}
DiamondDownstream == ("R" :> <<"A", "B">>) @@ ("A" :> <<"C">>) @@ ("B" :> <<"C">>) @@ ("C" :> <<>>)
DiamondJob == {"r", "a", "b", "ca", "cb"}
DiamondIdentOf == ("r" :> "R") @@ ("a" :> "A") @@ ("b" :> "B") @@ ("ca" :> "C") @@ ("cb" :> "C")
DiamondKids == ("r" :> <<"a", "b">>) @@ ("a" :> <<"ca">>) @@ ("b" :> <<"cb">>)
               @@ ("ca" :> <<>>) @@ ("cb" :> <<>>)
DiamondNoHistory == [id \in DiamondIdent |-> 0]

(* R starts A, of which two builds are there already. *)
PairIdent == {"R", "A"}
PairDownstream == ("R" :> <<"A">>) @@ ("A" :> <<>>)
PairJob == {"r", "a"}
PairIdentOf == ("r" :> "R") @@ ("a" :> "A")
PairKids == ("r" :> <<"a">>) @@ ("a" :> <<>>)
PairNoHistory == [id \in PairIdent |-> 0]
PairHistory == [id \in PairIdent |-> IF id = "A" THEN 2 ELSE 1]

(* R starts A and B, A starts B too, and B starts D: what a joined B would  *)
(* have started is cut.                                                     *)
TriangleIdent == {"R", "A", "B", "D"}
TriangleDownstream == ("R" :> <<"A", "B">>) @@ ("A" :> <<"B">>) @@ ("B" :> <<"D">>) @@ ("D" :> <<>>)
TriangleJob == {"r", "a", "b", "ab", "bd", "abd"}
TriangleIdentOf == ("r" :> "R") @@ ("a" :> "A") @@ ("b" :> "B") @@ ("ab" :> "B")
                   @@ ("bd" :> "D") @@ ("abd" :> "D")
TriangleKids == ("r" :> <<"a", "b">>) @@ ("a" :> <<"ab">>) @@ ("b" :> <<"bd">>)
                @@ ("ab" :> <<"abd">>) @@ ("bd" :> <<>>) @@ ("abd" :> <<>>)
TriangleNoHistory == [id \in TriangleIdent |-> 0]

(* Jenkins has run the pipeline before the task looks: all of the triangle's *)
(* builds ended well, with B's triggers folded or D's (with neither, nothing *)
(* joins); or A failed, or the folded B, or its D.                           *)
Good1(causes) == NewBuild(causes, "SUCCESS")
Bad1(causes) == NewBuild(causes, "FAILURE")
FromR == <<<<"R", 1>>>>
FromA == <<<<"A", 1>>>>
FromB(n) == <<<<"B", n>>>>
TriangleRuns ==
  {("R" :> <<Good1(<<>>)>>) @@ ("A" :> <<run[1]>>) @@ ("B" :> run[2]) @@ ("D" :> run[3]) :
     run \in
       {<< Good1(FromR), <<Good1(FromR \o FromA)>>, <<Good1(FromB(1))>> >>,
        << Good1(FromR), <<Good1(FromR), Good1(FromA)>>, <<Good1(FromB(1) \o FromB(2))>> >>,
        << Bad1(FromR),  <<Good1(FromR)>>, <<Good1(FromB(1))>> >>,
        << Good1(FromR), <<Bad1(FromR \o FromA)>>, <<>> >>,
        << Good1(FromR), <<Good1(FromR \o FromA)>>, <<Bad1(FromB(1))>> >>}}
TriangleRunInit ==
  /\ builds \in TriangleRuns
  /\ queued = [id \in Ident |-> <<>>]
  /\ foreign = 0
  /\ TrackerInit
TriangleRunSpec == TriangleRunInit /\ [][Next]_vars
=============================================================================
