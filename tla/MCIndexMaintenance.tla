------------------------- MODULE MCIndexMaintenance -------------------------
(* Instances of IndexMaintenance for TLC. *)
EXTENDS IndexMaintenance

\* A hot index that is to be shrunk, and an archive to be split.
HotAndArchive == <<"file", "file_ma">>
SomeShards    == [i \in {"file", "file_ma"} |-> IF i = "file" THEN {2} ELSE {1, 3}]
WantedShards  == [i \in {"file", "file_ma"} |-> IF i = "file" THEN 1 ELSE 2]
=============================================================================
