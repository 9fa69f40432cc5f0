------------------------ MODULE MCDistributedBackup ------------------------
(* Instances of DistributedBackup for TLC. *)
EXTENDS DistributedBackup

\* Two submissions of one result, and an error that is gone when a worker
\* gets to it.
Buckets == [d \in {"s", "t", "r", "e"} |->
              CASE d = "r" -> "result" [] d = "e" -> "error" [] OTHER -> "submission"]
Names   == [d \in {"s", "t", "r", "e"} |-> IF d \in {"s", "t"} THEN {"r"} ELSE {}]
InOrder == <<"s", "t", "e">>
=============================================================================
