----------------------------- MODULE MCMarkings -----------------------------
(* Instances of Markings for TLC. *)
EXTENDS Markings

\* A token that requires the higher level; a group that is selected with any
\* other, and by one of the subgroups.
TokenLevel  == [r \in {"CMR"} |-> 2]
GroupOf     == [s \in {"IR", "CCCS"} |-> IF s = "CCCS" THEN {"CSE"} ELSE {}]

\* A subgroup without groups, which the cache does not list.
OnlySubgroup == {[lvl |-> 1, req |-> {}, groups |-> {}, subgroups |-> {"IR"}]}
=============================================================================
