----------------------------- MODULE MCFileTree -----------------------------
(* Instances of FileTree for TLC. *)
EXTENDS FileTree

\* Two files are submitted; they and a third extract nothing, or each other, also
\* in circles.
Roots  == <<1, 2>>
Lists  == {<<>>, <<3>>, <<3, 2>>}
Scores == [f \in 1 .. 3 |-> IF f = 1 THEN 500 ELSE 0]
=============================================================================
