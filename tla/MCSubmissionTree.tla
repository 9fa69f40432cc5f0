-------------------------- MODULE MCSubmissionTree --------------------------
(* Instances of SubmissionTree for TLC. *)
EXTENDS SubmissionTree

\* Three submissions: f is in all of them, g in two, h in one; the result of
\* h names the supplementary file k.
SharedFiles  == [s \in {"A", "B", "C"} |->
                   CASE s = "A" -> {"f", "g", "h"}
                     [] s = "B" -> {"f", "g"}
                     [] s = "C" -> {"f"}]
\* Where A and B are deleted, C is between the two.
BetweenClass == [s \in {"A", "B", "C"} |->
                   CASE s = "A" -> {}
                     [] s = "B" -> {"x", "y"}
                     [] s = "C" -> {"x"}]
\* Where A is deleted and C arrives, neither of the two is below the other.
CrossClass   == [s \in {"A", "B", "C"} |->
                   CASE s = "A" -> {"x", "z"}
                     [] s = "B" -> {"x", "y", "z"}
                     [] s = "C" -> {"x", "y"}]
PrivateSupp  == [f \in {"f", "g", "h", "k"} |-> IF f = "h" THEN {"k"} ELSE {}]
NoSupp       == [f \in {"f", "g", "h", "k"} |-> {}]
SharedSupp   == [f \in {"f", "g", "h", "k"} |-> IF f = "h" THEN {"g"} ELSE {}]
DeleteA      == [p \in {"p"} |-> "A"]
DeleteAB     == [p \in {"p", "q"} |-> IF p = "p" THEN "A" ELSE "B"]
DeleteATwice == [p \in {"p", "q"} |-> "A"]
=============================================================================
