---------------------------- MODULE MCHeaderStore ----------------------------
(* Small instances of HeaderStore for TLC: retarget interval 2.              *)
EXTENDS HeaderStore, TLC

\* Named after their branch and height.  b forks from a at 4, within what the
\* store keeps; s is a shorter branch with more work; d forks below its floor.
Blocks == {"g", "a1", "a2", "a3", "a4", "b4", "b5", "s3",
           "d2", "d3", "d4", "d5", "d6"}

A4 == <<"g", "a1", "a2", "a3", "a4">>
B5 == <<"g", "a1", "a2", "a3", "b4", "b5">>
S3 == <<"g", "a1", "a2", "s3">>
D6 == <<"g", "a1", "d2", "d3", "d4", "d5", "d6">>

Linear(bs) == [h \in 0 .. Len(bs) - 1 |-> bs[h + 1]]

Shrinks == <<Linear(A4), Linear(S3), Linear(D6)>>
Grows == <<Linear(A4), Linear(B5), Linear(D6)>>

\* The block before b on its branch; the genesis is its own parent.
Parent == [b \in Blocks |->
    CASE b \in {"g", "a1"} -> "g"
      [] b \in {"a2", "d2"} -> "a1"
      [] b \in {"a3", "s3"} -> "a2"
      [] b \in {"a4", "b4"} -> "a3"
      [] b = "b5" -> "b4"
      [] b = "d3" -> "d2"
      [] b = "d4" -> "d3"
      [] b = "d5" -> "d4"
      [] b = "d6" -> "d5"]

Weights == [b \in Blocks |->
    IF b = "s3" THEN 4 ELSE IF b \in {"d2", "d3", "d4", "d5", "d6"} THEN 2 ELSE 1]

\* Nothing, a chain, one that does not link, one with a gap, and one that
\* starts above the floor a sync wants.
Disks == {NoChain, 2 :> "a2" @@ 3 :> "a3", 2 :> "d2" @@ 3 :> "a3",
          2 :> "a2" @@ 4 :> "a4", 4 :> "a4"}

NoCheckpoint == {{}}
Vouched == {{}, {[h |-> 2, b |-> "a2"]}}
=============================================================================
